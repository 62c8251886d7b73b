-------------------------- MODULE StructuresProofs --------------------------
(***************************************************************************)
(* Theorems about the parts of Structures, for any contents, names, ids and *)
(* limits: the cache answers with the last results and evicts in the order *)
(* of use, and paged storage reads what was written, also after evictions  *)
(* and reopening (ReadsStayLatest); savepoints stand for their operations  *)
(* (OperationsStayReplayed); trimmed and collected versions answer as the  *)
(* whole history would (VersionsStayHistory); and no step takes away what a *)
(* snapshot has seen or a flush should save (StepsAlwaysKeep).             *)
(*                                                                         *)
(* Each part has its section: its inductive invariant, a lemma for each    *)
(* operation, and what the invariant means for its properties.  The parts  *)
(* are instances, and each has the community modules' operators once more; *)
(* that they are the same is said first (...Copies).  The theorems are at  *)
(* the end.                                                                *)
(***************************************************************************)
EXTENDS Structures, SequenceTheorems, FiniteSetTheorems, WellFoundedInduction, TLAPS

-----------------------------------------------------------------------------
(* Numbers, sets of indices, and the entries at them.                      *)

\* Induction on numbers, as the least element of a set.
LEMMA Least ==
  ASSUME NEW T \in SUBSET Nat, T # {}
  PROVE  \E x \in T : \A y \in T : x <= y
  <1> DEFINE R == OpToRel(<, Nat)
  <1>1. IsWellFoundedOn(R, Nat) BY NatLessThanWellFounded
  <1>2. \A x, y \in Nat : y < x => <<y, x>> \in R BY DEF OpToRel
  <1> HIDE DEF R
  <1>3. PICK x \in T : \A y \in T : ~ (<<y, x>> \in R) BY <1>1, WFMin
  <1>4. ASSUME NEW y \in T PROVE x <= y
    <2>1. x \in Nat /\ y \in Nat /\ ~(y < x) BY <1>2, <1>3
    <2> QED BY <2>1
  <1> QED BY <1>4

\* A set of numbers 1..k has k elements.
LEMMA Initial == ASSUME NEW k \in Nat PROVE IsFiniteSet(1..k) /\ Cardinality(1..k) = k
  BY FS_Interval

\* R orders the elements of I one after the other.
Orders(R, I) ==
  /\ \A i \in I : <<i, i>> \notin R
  /\ \A i, j, k \in I : <<i, j>> \in R /\ <<j, k>> \in R => <<i, k>> \in R
  /\ \A i, j \in I : i # j => <<i, j>> \in R \/ <<j, i>> \in R

Before(R, I, i) == {j \in I : <<j, i>> \in R}

\* The number of elements before one tells which it is.
LEMMA Ranks ==
  ASSUME NEW I, IsFiniteSet(I), NEW R, Orders(R, I)
  PROVE  LET e == [k \in 1..Cardinality(I) |-> CHOOSE i \in I : Cardinality(Before(R, I, i)) = k - 1]
         IN /\ e \in [1..Cardinality(I) -> I]
            /\ \A k, l \in 1..Cardinality(I) : k < l => <<e[k], e[l]>> \in R
            /\ \A i \in I : \E k \in 1..Cardinality(I) : e[k] = i
  <1> DEFINE n == Cardinality(I)
             rank == [i \in I |-> Cardinality(Before(R, I, i)) + 1]
             e == [k \in 1..n |-> CHOOSE i \in I : Cardinality(Before(R, I, i)) = k - 1]
  <1>1. n \in Nat BY FS_CardinalityType
  <1>2. ASSUME NEW i \in I
        PROVE  /\ IsFiniteSet(Before(R, I, i)) /\ Cardinality(Before(R, I, i)) \in Nat
               /\ Cardinality(Before(R, I, i)) < n
    <2>1. Before(R, I, i) \in SUBSET I /\ Before(R, I, i) # I BY DEF Before, Orders
    <2>2. /\ IsFiniteSet(Before(R, I, i)) /\ Cardinality(Before(R, I, i)) <= n
          /\ Cardinality(Before(R, I, i)) # n
      BY <2>1, FS_Subset
    <2>3. Cardinality(Before(R, I, i)) \in Nat BY <2>2, FS_CardinalityType
    <2> QED BY <1>1, <2>2, <2>3
  <1>3. rank \in [I -> 1..n]
    <2>1. ASSUME NEW i \in I PROVE Cardinality(Before(R, I, i)) + 1 \in 1..n
      <3> HIDE DEF n
      <3> QED BY <1>1, <1>2
    <2> QED BY <2>1
  <1>4. ASSUME NEW i \in I, NEW j \in I, <<i, j>> \in R PROVE rank[i] < rank[j]
    <2>1. Before(R, I, i) \in SUBSET Before(R, I, j) /\ i \in Before(R, I, j) /\ i \notin Before(R, I, i)
      BY <1>4 DEF Before, Orders
    <2>2. Cardinality(Before(R, I, i)) <= Cardinality(Before(R, I, j))
          /\ Cardinality(Before(R, I, j)) # Cardinality(Before(R, I, i))
      BY <1>2, <2>1, FS_Subset
    <2> QED BY <1>2, <2>2
  <1>5. \A i, j \in I : rank[i] = rank[j] => i = j
    <2> SUFFICES ASSUME NEW i \in I, NEW j \in I, i # j PROVE rank[i] # rank[j] OBVIOUS
    <2>1. rank[i] \in Int /\ rank[j] \in Int BY <1>3
    <2>2. rank[i] < rank[j] \/ rank[j] < rank[i] BY <1>4 DEF Orders
    <2> HIDE DEF rank
    <2> QED BY <2>1, <2>2
  <1>6. rank \in Surjection(I, 1..n)
    <2>1. rank \in Injection(I, 1..n) BY <1>3, <1>5 DEF Injection, IsInjective
    <2>2. IsFiniteSet(1..n) /\ Cardinality(1..n) = n BY <1>1, Initial
    <2> QED BY <2>1, <2>2, FS_Injection
  <1>7. ASSUME NEW k \in 1..n PROVE e[k] \in I /\ rank[e[k]] = k
    <2>1. PICK i \in I : rank[i] = k BY <1>6 DEF Surjection
    <2>2. Cardinality(Before(R, I, i)) = k - 1 BY <1>1, <1>2, <2>1
    <2>3. e[k] \in I /\ Cardinality(Before(R, I, e[k])) = k - 1 BY <2>2
    <2> HIDE DEF e
    <2> QED BY <2>3
  <1> HIDE DEF rank
  <1>8. e \in [1..n -> I] BY <1>7
  <1>9. ASSUME NEW k \in 1..n, NEW l \in 1..n, k < l PROVE <<e[k], e[l]>> \in R
    <2>1. e[k] \in I /\ e[l] \in I /\ rank[e[k]] = k /\ rank[e[l]] = l BY <1>7
    <2> HIDE DEF e
    <2>2. e[k] # e[l] BY <1>9, <2>1
    <2>3. CASE <<e[l], e[k]>> \in R
      <3>1. rank[e[l]] < rank[e[k]] BY <1>4, <2>1, <2>3
      <3> QED BY <1>9, <2>1, <3>1
    <2> QED BY <2>1, <2>2, <2>3 DEF Orders
  <1>10. ASSUME NEW i \in I PROVE \E k \in 1..n : e[k] = i
    <2>1. rank[i] \in 1..n BY <1>3
    <2>2. e[rank[i]] \in I /\ rank[e[rank[i]]] = rank[i] BY <1>7, <2>1
    <2>3. e[rank[i]] = i
      <3> HIDE DEF e
      <3> QED BY <1>5, <2>2
    <2> QED BY <2>1, <2>3
  <1> QED BY <1>8, <1>9, <1>10

\* What is kept of a sequence: the entries at the indices, in their order.
KeptBy(e, s, I) ==
  /\ e \in [1..Cardinality(I) -> I]
  /\ \A k, l \in 1..Cardinality(I) : k < l => e[k] < e[l]
  /\ \A i \in I : \E k \in 1..Cardinality(I) : e[k] = i
  /\ Len(Kept(s, I)) = Cardinality(I)
  /\ \A k \in 1..Cardinality(I) : Kept(s, I)[k] = s[e[k]]

LEMMA KeptIs ==
  ASSUME NEW S, NEW s \in Seq(S), NEW I, I \subseteq DOMAIN s
  PROVE  Kept(s, I) \in Seq(S) /\ \E e : KeptBy(e, s, I)
  <1>1. IsFiniteSet(I) /\ Cardinality(I) \in Nat
    <2>1. DOMAIN s = 1..Len(s) /\ Len(s) \in Nat OBVIOUS
    <2>2. IsFiniteSet(DOMAIN s) BY <2>1, Initial
    <2>3. IsFiniteSet(I) BY <2>2, FS_Subset
    <2> QED BY <2>3, FS_CardinalityType
  <1>2. \A i \in I : i \in Nat OBVIOUS
  <1> DEFINE R == {x \in I \X I : x[1] < x[2]}
             n == Cardinality(I)
             e == [k \in 1..n |-> CHOOSE i \in I : Cardinality(Before(R, I, i)) = k - 1]
  <1>3. Orders(R, I) BY <1>2 DEF Orders
  <1>4. /\ e \in [1..n -> I]
        /\ \A k, l \in 1..n : k < l => <<e[k], e[l]>> \in R
        /\ \A i \in I : \E k \in 1..n : e[k] = i
    <2> HIDE DEF R
    <2> QED BY <1>1, <1>3, Ranks
  <1>5. \A i \in I : Before(R, I, i) = {j \in I : j < i} BY DEF Before
  <1>6. \A k \in 1..n : e[k] = CHOOSE i \in I : Cardinality({j \in I : j < i}) = k - 1 BY <1>5
  <1>7. Kept(s, I) = [k \in 1..n |-> s[e[k]]]
    <2> DEFINE c(k) == CHOOSE i \in I : Cardinality({j \in I : j < i}) = k - 1
    <2>1. Kept(s, I) = [k \in 1..n |-> s[c(k)]] BY Zenon DEF Kept, Arranged
    <2>2. \A k \in 1..n : e[k] = c(k) BY <1>6
    <2> HIDE DEF e, c
    <2> QED BY <2>1, <2>2
  <1> HIDE DEF e
  <1>8. \A k \in 1..n : s[e[k]] \in S BY <1>4
  <1>9. Kept(s, I) \in Seq(S) /\ Len(Kept(s, I)) = n BY <1>1, <1>7, <1>8
  <1>10. \A k, l \in 1..n : k < l => e[k] < e[l] BY <1>4
  <1>11. \A k \in 1..n : Kept(s, I)[k] = s[e[k]] BY <1>7
  <1>12. KeptBy(e, s, I) BY <1>4, <1>9, <1>10, <1>11 DEF KeptBy
  <1> QED BY <1>9, <1>12

\* A sequence without its entry at i.
LEMMA RemoveAtIs ==
  ASSUME NEW S, NEW s \in Seq(S), NEW i \in 1..Len(s)
  PROVE  /\ RemoveAt(s, i) \in Seq(S) /\ Len(RemoveAt(s, i)) = Len(s) - 1
         /\ \A k \in 1..(Len(s) - 1) : RemoveAt(s, i)[k] = IF k < i THEN s[k] ELSE s[k + 1]
  <1> DEFINE f == SubSeq(s, 1, i - 1)
             t == SubSeq(s, i + 1, Len(s))
  <1>1. Len(s) \in Nat OBVIOUS
  <1>2. /\ f \in Seq(S) /\ Len(f) = i - 1 /\ \A k \in 1..(i - 1) : f[k] = s[k]
    BY <1>1, SubSeqProperties
  <1>3. t \in Seq(S) /\ Len(t) = Len(s) - i /\ \A k \in 1..(Len(s) - i) : t[k] = s[i + k]
    BY <1>1
  <1> HIDE DEF f, t
  <1>4. f \o t \in Seq(S) /\ Len(f \o t) = Len(s) - 1
        /\ \A k \in 1..(Len(s) - 1) : (f \o t)[k] = IF k < i THEN s[k] ELSE s[k + 1]
    <2>1. f \o t \in Seq(S) /\ Len(f \o t) = Len(s) - 1
      <3>1. Len(f \o t) = Len(f) + Len(t) BY <1>2, <1>3, ConcatProperties
      <3> QED BY <1>1, <1>2, <1>3, <3>1, ConcatProperties
    <2>2. ASSUME NEW k \in 1..(Len(s) - 1)
          PROVE  (f \o t)[k] = IF k < i THEN f[k] ELSE t[k - (i - 1)]
      BY <1>1, <1>2, <1>3, <2>2
    <2>3. ASSUME NEW k \in 1..(Len(s) - 1)
          PROVE  (f \o t)[k] = IF k < i THEN s[k] ELSE s[k + 1]
      <3>1. CASE k < i BY <1>1, <1>2, <2>2, <3>1
      <3>2. CASE ~(k < i)
        <4>1. k - (i - 1) \in 1..(Len(s) - i) /\ i + (k - (i - 1)) = k + 1 BY <1>1, <3>2
        <4>2. t[k - (i - 1)] = s[k + 1] BY <1>3, <4>1
        <4> QED BY <2>2, <3>2, <4>2
      <3> QED BY <3>1, <3>2
    <2> QED BY <2>1, <2>3
  <1> QED BY <1>4 DEF RemoveAt, f, t

\* t is entries of s in their order.
Picked(t, s) ==
  \E e \in [1..Len(t) -> 1..Len(s)] :
    /\ \A k, l \in 1..Len(t) : k < l => e[k] < e[l]
    /\ \A k \in 1..Len(t) : t[k] = s[e[k]]

LEMMA KeptPicked ==
  ASSUME NEW S, NEW s \in Seq(S), NEW I, I \subseteq DOMAIN s
  PROVE  Kept(s, I) \in Seq(S) /\ Len(Kept(s, I)) <= Len(s) /\ Picked(Kept(s, I), s)
  <1>1. Kept(s, I) \in Seq(S) /\ \E x : KeptBy(x, s, I) BY KeptIs
  <1> DEFINE e == CHOOSE x : KeptBy(x, s, I)
  <1>0. KeptBy(e, s, I) BY <1>1
  <1> HIDE DEF e
  <1>2. I \subseteq 1..Len(s) /\ Len(s) \in Nat OBVIOUS
  <1>3. e \in [1..Len(Kept(s, I)) -> 1..Len(s)] BY <1>0, <1>2 DEF KeptBy
  <1>4. Cardinality(I) <= Len(s)
    <2>1. IsFiniteSet(1..Len(s)) /\ Cardinality(1..Len(s)) = Len(s) BY <1>2, Initial
    <2> QED BY <1>2, <2>1, FS_Subset
  <1>5. Picked(Kept(s, I), s) BY <1>0, <1>3 DEF Picked, KeptBy
  <1>6. Len(Kept(s, I)) <= Len(s) BY <1>0, <1>4 DEF KeptBy
  <1> QED BY <1>1, <1>5, <1>6

LEMMA RemovePicked ==
  ASSUME NEW S, NEW s \in Seq(S), NEW i \in 1..Len(s)
  PROVE  Picked(RemoveAt(s, i), s)
  <1> DEFINE t == RemoveAt(s, i)
             e == [k \in 1..Len(t) |-> IF k < i THEN k ELSE k + 1]
  <1>1. Len(s) \in Nat OBVIOUS
  <1>2. /\ Len(t) = Len(s) - 1
        /\ \A k \in 1..Len(t) : t[k] = IF k < i THEN s[k] ELSE s[k + 1]
    BY RemoveAtIs
  <1> HIDE DEF t
  <1>3. e \in [1..Len(t) -> 1..Len(s)] BY <1>1, <1>2
  <1>4. \A k, l \in 1..Len(t) : k < l => e[k] < e[l] BY <1>1, <1>2
  <1>5. \A k \in 1..Len(t) : t[k] = s[e[k]] BY <1>2
  <1> HIDE DEF e
  <1>6. Picked(t, s) BY <1>3, <1>4, <1>5 DEF Picked
  <1> QED BY <1>6 DEF t

LEMMA SubSeqPicked ==
  ASSUME NEW S, NEW s \in Seq(S), NEW m \in 1..(Len(s) + 1), NEW n \in 0..Len(s)
  PROVE  SubSeq(s, m, n) \in Seq(S) /\ Picked(SubSeq(s, m, n), s)
  <1> DEFINE t == SubSeq(s, m, n)
             e == [k \in 1..Len(t) |-> m - 1 + k]
  <1>1. Len(s) \in Nat OBVIOUS
  <1>2. /\ t \in Seq(S) /\ Len(t) = (IF m <= n THEN n - m + 1 ELSE 0)
        /\ \A k \in 1..Len(t) : t[k] = s[m - 1 + k]
    BY <1>1
  <1> HIDE DEF t
  <1>3. e \in [1..Len(t) -> 1..Len(s)] BY <1>1, <1>2
  <1>4. \A k, l \in 1..Len(t) : k < l => e[k] < e[l] BY <1>1, <1>2
  <1>5. \A k \in 1..Len(t) : t[k] = s[e[k]] BY <1>2
  <1> HIDE DEF e
  <1>6. Picked(t, s) BY <1>3, <1>4, <1>5 DEF Picked
  <1> QED BY <1>2, <1>6 DEF t

LEMMA ConcatIs ==
  ASSUME NEW S, NEW s \in Seq(S), NEW t \in Seq(S)
  PROVE  /\ s \o t \in Seq(S) /\ Len(s \o t) = Len(s) + Len(t)
         /\ \A k \in 1..(Len(s) + Len(t)) : (s \o t)[k] = IF k <= Len(s) THEN s[k] ELSE t[k - Len(s)]
  BY ConcatProperties

LEMMA First ==
  ASSUME NEW I \in SUBSET Nat, I # {}
  PROVE  Min(I) \in I /\ \A i \in I : Min(I) <= i
  BY Least DEF Min

-----------------------------------------------------------------------------
(***************************************************************************)
(* The query cache.  LruInv adds to the properties that the keys differ:   *)
(* then a key is found in one place, and moving it to the end keeps the order *)
(* of the others.  Entries that expired or are of an older version may stand *)
(* anywhere; no key leads to them.                                         *)
(***************************************************************************)

LEMMA LruCopies ==
  /\ \A S : Lru!Cardinality(S) = Cardinality(S)
  /\ \A s, i : Lru!RemoveAt(s, i) = RemoveAt(s, i)
  /\ \A s, I : Lru!Kept(s, I) = Kept(s, I)
  <1>1. \A S : Lru!Cardinality(S) = Cardinality(S) BY DEF Lru!Cardinality, Cardinality
  <1>2. \A s, i : Lru!RemoveAt(s, i) = RemoveAt(s, i) BY DEF Lru!RemoveAt, RemoveAt
  <1>3. \A s, I : Lru!Kept(s, I) = Kept(s, I)
    BY DEF Lru!Kept, Lru!Arranged, Lru!Cardinality, Kept, Arranged, Cardinality
  <1> QED BY <1>1, <1>2, <1>3

\* The entries of the cache: the keys differ, those of the current version hold the last
\* result, and stand in the order of their use.
CacheEntry == [key : Name \X Nat, val : Val, expires : Nat]
CacheIs(s, v, results, used) ==
  /\ s \in Seq(CacheEntry)
  /\ \A i \in DOMAIN s : s[i].key[2] <= v
  /\ \A i, j \in DOMAIN s : s[i].key = s[j].key => i = j
  /\ \A i \in DOMAIN s : s[i].key[2] = v => s[i].val = results[s[i].key[1]]
  /\ \A i, j \in DOMAIN s : i < j /\ s[i].key[2] = v /\ s[j].key[2] = v
                              => used[s[i].key[1]] < used[s[j].key[1]]
LruInv ==
  /\ version \in Nat /\ uses \in Nat /\ now \in Nat
  /\ latest \in [Name -> Val \cup {NoVal}]
  /\ useAt \in [Name -> Nat] /\ \A n \in Name : useAt[n] <= uses
  /\ CacheIs(store, version, latest, useAt) /\ Len(store) <= MaxSize

\* Fewer entries in the same order are as good.
LEMMA FewerEntries ==
  ASSUME NEW s, NEW t, NEW v, NEW results, NEW used,
         CacheIs(s, v, results, used), t \in Seq(CacheEntry), Picked(t, s)
  PROVE  CacheIs(t, v, results, used)
  <1>1. s \in Seq(CacheEntry) BY DEF CacheIs
  <1>2. PICK e \in [1..Len(t) -> 1..Len(s)] :
          /\ \A k, l \in 1..Len(t) : k < l => e[k] < e[l]
          /\ \A k \in 1..Len(t) : t[k] = s[e[k]]
    BY DEF Picked
  <1>3. Len(t) \in Nat /\ Len(s) \in Nat /\ DOMAIN t = 1..Len(t) /\ DOMAIN s = 1..Len(s) BY <1>1
  <1>4. \A k \in 1..Len(t) : e[k] \in 1..Len(s) /\ t[k] = s[e[k]] BY <1>2
  <1>5. ASSUME NEW k \in 1..Len(t), NEW l \in 1..Len(t), t[k].key = t[l].key PROVE k = l
    <2>1. e[k] = e[l] BY <1>3, <1>4, <1>5 DEF CacheIs
    <2>2. ~(k < l) /\ ~(l < k) BY <1>2, <1>3, <1>4, <2>1
    <2> QED BY <1>3, <2>2
  <1>6. ASSUME NEW k \in 1..Len(t), NEW l \in 1..Len(t), k < l, t[k].key[2] = v, t[l].key[2] = v
        PROVE  used[t[k].key[1]] < used[t[l].key[1]]
    <2>1. e[k] < e[l] BY <1>2, <1>6
    <2> QED BY <1>3, <1>4, <1>6, <2>1 DEF CacheIs
  <1>7. \A k \in 1..Len(t) : /\ t[k].key[2] <= v
                             /\ t[k].key[2] = v => t[k].val = results[t[k].key[1]]
    BY <1>3, <1>4 DEF CacheIs
  <1> QED BY <1>3, <1>5, <1>6, <1>7 DEF CacheIs

\* A key is found at its place.
LEMMA LruPosition ==
  ASSUME NEW k, store \in Seq(CacheEntry)
  PROVE  /\ Lru!Position(k) \in 0..Len(store)
         /\ Lru!Position(k) = 0 => \A i \in DOMAIN store : store[i].key # k
         /\ Lru!Position(k) # 0 => store[Lru!Position(k)].key = k
  <1> DEFINE I == {i \in 1..Len(store) : store[i].key = k}
  <1>1. Lru!Position(k) = IF I # {} THEN Min(I) ELSE 0
    BY DEF Lru!Position, Lru!SelectInSeq, Lru!Min, Min
  <1>2. I \in SUBSET Nat /\ I \subseteq 1..Len(store) /\ DOMAIN store = 1..Len(store) OBVIOUS
  <1>3. I # {} => Min(I) \in I BY <1>2, First
  <1> QED BY <1>1, <1>2, <1>3

\* What is left without a key.
LEMMA LruWithout ==
  ASSUME NEW k, NEW v, NEW results, NEW used, CacheIs(store, v, results, used)
  PROVE  /\ CacheIs(Lru!Without(k), v, results, used)
         /\ Len(Lru!Without(k)) <= Len(store)
         /\ Lru!Position(k) # 0 => Len(Lru!Without(k)) = Len(store) - 1
         /\ \A i \in DOMAIN Lru!Without(k) : Lru!Without(k)[i].key # k
  <1>1. store \in Seq(CacheEntry) BY DEF CacheIs
  <1>2. CASE Lru!Position(k) = 0
    <2>1. Lru!Without(k) = store BY <1>2 DEF Lru!Without
    <2> QED BY <1>1, <1>2, <2>1, LruPosition
  <1>3. CASE Lru!Position(k) # 0
    <2> DEFINE p == Lru!Position(k)
    <2>1. p \in 1..Len(store) /\ store[p].key = k BY <1>1, <1>3, LruPosition
    <2> HIDE DEF p
    <2>2. Lru!Without(k) = RemoveAt(store, p) BY <1>3, LruCopies DEF Lru!Without, p
    <2>3. /\ RemoveAt(store, p) \in Seq(CacheEntry) /\ Picked(RemoveAt(store, p), store)
          /\ Len(RemoveAt(store, p)) = Len(store) - 1
          /\ \A i \in 1..(Len(store) - 1) :
               RemoveAt(store, p)[i] = IF i < p THEN store[i] ELSE store[i + 1]
      BY <1>1, <2>1, RemoveAtIs, RemovePicked
    <2>4. CacheIs(RemoveAt(store, p), v, results, used) BY <2>3, FewerEntries
    <2>5. \A i \in 1..Len(store) : store[i].key = k => i = p BY <1>1, <2>1 DEF CacheIs
    <2>6. ASSUME NEW i \in 1..(Len(store) - 1) PROVE RemoveAt(store, p)[i].key # k
      <3>1. CASE i < p
        <4>1. i \in 1..Len(store) /\ i # p BY <1>1, <2>1, <3>1
        <4> QED BY <2>3, <2>5, <3>1, <4>1
      <3>2. CASE ~(i < p)
        <4>1. i + 1 \in 1..Len(store) /\ i + 1 # p BY <1>1, <2>1, <3>2
        <4> QED BY <2>3, <2>5, <3>2, <4>1
      <3> QED BY <3>1, <3>2
    <2>7. DOMAIN RemoveAt(store, p) = 1..(Len(store) - 1) BY <2>3
    <2>8. Len(store) \in Nat BY <1>1
    <2> QED BY <2>2, <2>3, <2>4, <2>6, <2>7, <2>8
  <1> QED BY <1>2, <1>3

\* An entry at the end that is used last.
LEMMA EntryAtEnd ==
  ASSUME NEW s, NEW v \in Nat, NEW results, NEW used \in [Name -> Nat], NEW u \in Nat,
         CacheIs(s, v, results, used), \A n \in Name : used[n] <= u,
         NEW n \in Name, NEW x \in Val, NEW expires \in Nat, results \in [Name -> Val \cup {NoVal}],
         \A i \in DOMAIN s : s[i].key # <<n, v>>
  PROVE  CacheIs(Append(s, [key |-> <<n, v>>, val |-> x, expires |-> expires]), v,
                 [results EXCEPT ![n] = x], [used EXCEPT ![n] = u + 1])
  <1> DEFINE e == [key |-> <<n, v>>, val |-> x, expires |-> expires]
             t == Append(s, e)
             m == Len(s)
             r2 == [results EXCEPT ![n] = x]
             u2 == [used EXCEPT ![n] = u + 1]
  <1>1. s \in Seq(CacheEntry) /\ m \in Nat /\ DOMAIN s = 1..m BY DEF CacheIs
  <1>2. e \in CacheEntry /\ e.key = <<n, v>> /\ e.key[1] = n /\ e.key[2] = v /\ e.val = x
    BY DEF CacheEntry
  <1> HIDE DEF e
  <1>3. /\ t \in Seq(CacheEntry) /\ Len(t) = m + 1 /\ t[m + 1] = e /\ DOMAIN t = 1..(m + 1)
        /\ \A i \in 1..m : t[i] = s[i]
    BY <1>1, <1>2
  <1>4. \A i \in 1..m : /\ s[i].key \in Name \X Nat /\ s[i].key[1] \in Name /\ s[i].key[2] \in Nat
                        /\ s[i].key = <<s[i].key[1], s[i].key[2]>>
    <2> SUFFICES ASSUME NEW i \in 1..m PROVE s[i].key \in Name \X Nat OBVIOUS
    <2>1. s[i] \in CacheEntry BY <1>1
    <2> QED BY <2>1 DEF CacheEntry
  <1>5. ASSUME NEW i \in 1..m, s[i].key[2] = v
        PROVE  s[i].key[1] # n /\ r2[s[i].key[1]] = results[s[i].key[1]] /\ u2[s[i].key[1]] = used[s[i].key[1]]
    <2>1. s[i].key # <<n, v>> BY <1>1
    <2>2. s[i].key[1] # n BY <1>4, <1>5, <2>1
    <2> QED BY <1>4, <2>2
  <1>6. r2[n] = x /\ u2[n] = u + 1 OBVIOUS
  <1> HIDE DEF t, m, r2, u2
  <1>7. \A i \in 1..(m + 1) : i \in 1..m \/ i = m + 1 BY <1>1
  <1>8. \A i \in 1..(m + 1) : t[i].key[2] <= v
    <2>1. \A i \in 1..m : s[i].key[2] <= v BY <1>1 DEF CacheIs
    <2> QED BY <1>2, <1>3, <1>7, <2>1
  <1>9. ASSUME NEW i \in 1..(m + 1), NEW j \in 1..(m + 1), t[i].key = t[j].key PROVE i = j
    <2>1. \A k, l \in 1..m : s[k].key = s[l].key => k = l BY <1>1 DEF CacheIs
    <2>2. \A k \in 1..m : s[k].key # e.key BY <1>1, <1>2
    <2> QED BY <1>3, <1>7, <1>9, <2>1, <2>2
  <1>10. ASSUME NEW i \in 1..(m + 1), t[i].key[2] = v PROVE t[i].val = r2[t[i].key[1]]
    <2>1. CASE i = m + 1 BY <1>2, <1>3, <1>6, <2>1
    <2>2. CASE i \in 1..m
      <3>1. s[i].val = results[s[i].key[1]] BY <1>1, <1>3, <1>10, <2>2 DEF CacheIs
      <3> QED BY <1>3, <1>5, <1>10, <2>2, <3>1
    <2> QED BY <1>7, <2>1, <2>2
  <1>11. ASSUME NEW i \in 1..(m + 1), NEW j \in 1..(m + 1), i < j, t[i].key[2] = v, t[j].key[2] = v
         PROVE  u2[t[i].key[1]] < u2[t[j].key[1]]
    <2>1. i \in 1..m BY <1>1, <1>11
    <2>2. u2[t[i].key[1]] = used[s[i].key[1]] BY <1>3, <1>5, <1>11, <2>1
    <2>3. CASE j = m + 1
      <3>1. used[s[i].key[1]] <= u /\ used[s[i].key[1]] \in Nat BY <1>4, <2>1
      <3>2. u2[t[j].key[1]] = u + 1 BY <1>2, <1>3, <1>6, <2>3
      <3> QED BY <2>2, <3>1, <3>2
    <2>4. CASE j \in 1..m
      <3>1. u2[t[j].key[1]] = used[s[j].key[1]] BY <1>3, <1>5, <1>11, <2>4
      <3>2. used[s[i].key[1]] < used[s[j].key[1]] BY <1>1, <1>3, <1>11, <2>1, <2>4 DEF CacheIs
      <3> QED BY <2>2, <3>1, <3>2
    <2> QED BY <1>7, <2>3, <2>4
  <1>12. CacheIs(t, v, r2, u2) BY <1>3, <1>8, <1>9, <1>10, <1>11 DEF CacheIs
  <1> QED BY <1>12 DEF t, r2, u2, e

LEMMA LruInit == ASSUME Lru!Init, MaxSize \in Nat PROVE LruInv
  <1>1. store \in Seq(CacheEntry) /\ Len(store) = 0 BY DEF Lru!Init
  <1>2. DOMAIN store = {} BY DEF Lru!Init
  <1>3. CacheIs(store, version, latest, useAt) BY <1>1, <1>2 DEF CacheIs
  <1> QED BY <1>1, <1>3 DEF Lru!Init, LruInv

LEMMA LruStep == ASSUME LruInv, Lru!Next, CacheAssumption PROVE LruInv'
  <1> USE DEF LruInv
  <1>1. store \in Seq(CacheEntry) /\ Len(store) \in Nat /\ DOMAIN store = 1..Len(store)
    BY DEF CacheIs
  <1>2. ASSUME NEW n \in Name, Lru!Get(n) PROVE LruInv'
    <2> DEFINE k == <<n, version>>
               p == Lru!Position(k)
    <2>0. k = Lru!KeyOf(n) BY DEF Lru!KeyOf
    <2> HIDE DEF k
    <2>1. k = Lru!KeyOf(n) /\ p \in 1..Len(store) /\ store[p].key = k
      <3>1. p # 0 BY <1>2, <2>0 DEF Lru!Get
      <3> HIDE DEF p
      <3>2. p \in 0..Len(store) /\ store[p].key = k BY <1>1, <3>1, LruPosition DEF p
      <3> QED BY <1>1, <2>0, <3>1, <3>2
    <2>2. /\ CacheIs(Lru!Without(k), version, latest, useAt)
          /\ Len(Lru!Without(k)) = Len(store) - 1
          /\ \A i \in DOMAIN Lru!Without(k) : Lru!Without(k)[i].key # k
      <3>1. p # 0 BY <1>1, <2>1
      <3> QED BY <3>1, LruWithout
    <2>3. CASE Lru!Fresh(k) /\ store' = Append(Lru!Without(k), store[p]) /\ Lru!Use(n)
      <3> DEFINE e == store[p]
      <3>1. e \in CacheEntry /\ e.val = latest[n]
        <4>1. store[p].key[2] = version /\ store[p].key[1] = n BY <2>1 DEF k
        <4> HIDE DEF p
        <4> QED BY <1>1, <2>1, <4>1 DEF CacheIs
      <3>2. e = [key |-> <<n, version>>, val |-> e.val, expires |-> e.expires]
            /\ e.val \in Val /\ e.expires \in Nat
        <4>1. e.key = <<n, version>> BY <2>1 DEF k
        <4> HIDE DEF e
        <4> QED BY <3>1, <4>1 DEF CacheEntry
      <3> HIDE DEF e, p
      <3>3. latest = [latest EXCEPT ![n] = e.val] BY <3>1
      <3>4. CacheIs(Append(Lru!Without(k), e), version, latest, [useAt EXCEPT ![n] = uses + 1])
        <4>1. \A i \in DOMAIN Lru!Without(k) : Lru!Without(k)[i].key # <<n, version>> BY <2>2 DEF k
        <4>2. CacheIs(Append(Lru!Without(k), [key |-> <<n, version>>, val |-> e.val, expires |-> e.expires]),
                      version, [latest EXCEPT ![n] = e.val], [useAt EXCEPT ![n] = uses + 1])
          BY <2>2, <3>2, <4>1, EntryAtEnd
        <4> QED BY <3>2, <3>3, <4>2
      <3>5. /\ store' = Append(Lru!Without(k), e) /\ uses' = uses + 1
            /\ useAt' = [useAt EXCEPT ![n] = uses + 1] /\ UNCHANGED <<now, version, latest>>
        BY <1>2, <2>3 DEF Lru!Get, Lru!Use, e
      <3>6. CacheIs(store', version', latest', useAt') BY <3>4, <3>5
      <3>7. Len(store') <= MaxSize
        <4>1. Lru!Without(k) \in Seq(CacheEntry) BY <2>2 DEF CacheIs
        <4>2. Len(store') = Len(Lru!Without(k)) + 1 BY <3>5, <4>1
        <4>3. Len(store') = Len(store) BY <1>1, <2>2, <4>2
        <4> QED BY <4>3
      <3> QED BY <3>5, <3>6, <3>7
    <2>4. CASE store' = Lru!Without(k) /\ UNCHANGED <<useAt, uses>>
      <3>1. UNCHANGED <<now, version, latest>> BY <1>2 DEF Lru!Get
      <3>2. Len(store') <= MaxSize BY <1>1, <2>2, <2>4, CacheAssumption
      <3> QED BY <2>2, <2>4, <3>1, <3>2
    <2> QED BY <1>2, <2>1, <2>3, <2>4 DEF Lru!Get
  <1>3. ASSUME NEW n \in Name, Lru!Invalidate(n) PROVE LruInv'
    <2> DEFINE k == <<n, version>>
               gone == [latest EXCEPT ![n] = NoVal]
               t == Lru!Without(k)
    <2>1. /\ store' = t /\ latest' = gone /\ UNCHANGED <<now, version, useAt, uses>>
      BY <1>3 DEF Lru!Invalidate, Lru!KeyOf
    <2>2. /\ CacheIs(t, version, latest, useAt) /\ Len(t) <= Len(store)
          /\ \A i \in DOMAIN t : t[i].key # k
      BY LruWithout
    <2> HIDE DEF t
    <2>3. t \in Seq(CacheEntry) BY <2>2 DEF CacheIs
    <2>4. ASSUME NEW i \in DOMAIN t, t[i].key[2] = version PROVE t[i].val = gone[t[i].key[1]]
      <3>1. t[i] \in CacheEntry BY <2>3
      <3>2. t[i].key \in Name \X Nat /\ t[i].key # <<n, version>> BY <2>2, <3>1 DEF CacheEntry
      <3>3. t[i].key[1] # n /\ t[i].key[1] \in Name BY <2>4, <3>2
      <3>4. t[i].val = latest[t[i].key[1]] BY <2>2, <2>4 DEF CacheIs
      <3> QED BY <3>3, <3>4
    <2>5. CacheIs(t, version, gone, useAt) BY <2>2, <2>4 DEF CacheIs
    <2>6. gone \in [Name -> Val \cup {NoVal}] OBVIOUS
    <2>7. Len(t) <= MaxSize BY <1>1, <2>2, <2>3, CacheAssumption
    <2> HIDE DEF gone
    <2> QED BY <2>1, <2>5, <2>6, <2>7
  <1>4. ASSUME NEW n \in Name, NEW x \in Val, NEW ttl \in Ttl, Lru!Set(n, x, ttl) PROVE LruInv'
    <2> DEFINE k == <<n, version>>
               s == Lru!Without(k)
               e == [key |-> k, val |-> x, expires |-> now + ttl]
               t == Append(s, e)
    <2>1. /\ store' = Lru!Evict(t) /\ latest' = [latest EXCEPT ![n] = x] /\ uses' = uses + 1
          /\ useAt' = [useAt EXCEPT ![n] = uses + 1] /\ UNCHANGED <<now, version>>
      BY <1>4 DEF Lru!Set, Lru!KeyOf, Lru!Use
    <2>2. /\ CacheIs(s, version, latest, useAt)
          /\ \A i \in DOMAIN s : s[i].key # k
      BY LruWithout
    <2>3. now + ttl \in Nat BY CacheAssumption
    <2> HIDE DEF s
    <2>4. CacheIs(t, version, latest', useAt')
      <3>1. \A i \in DOMAIN s : s[i].key # <<n, version>> BY <2>2
      <3> QED BY <2>1, <2>2, <2>3, <3>1, EntryAtEnd
    <2> HIDE DEF t, e
    <2>5. t \in Seq(CacheEntry) /\ Len(t) \in Nat BY <2>4 DEF CacheIs
    <2>6. /\ store' = SubSeq(t, 1 + (IF Len(t) > MaxSize THEN Len(t) - MaxSize ELSE 0), Len(t))
      BY <2>1 DEF Lru!Evict
    <2>7. store' \in Seq(CacheEntry) /\ Picked(store', t) /\ Len(store') <= MaxSize
      <3> DEFINE m == 1 + (IF Len(t) > MaxSize THEN Len(t) - MaxSize ELSE 0)
      <3>1. m \in 1..(Len(t) + 1) /\ Len(t) \in 0..Len(t) BY <2>5, CacheAssumption
      <3>2. Len(t) - m + 1 <= MaxSize BY <2>5, CacheAssumption
      <3> HIDE DEF m
      <3>3. store' = SubSeq(t, m, Len(t)) BY <2>6 DEF m
      <3>4. SubSeq(t, m, Len(t)) \in Seq(CacheEntry) /\ Picked(SubSeq(t, m, Len(t)), t)
        BY <2>5, <3>1, SubSeqPicked
      <3>5. Len(SubSeq(t, m, Len(t))) = IF m <= Len(t) THEN Len(t) - m + 1 ELSE 0 BY <2>5, <3>1
      <3> QED BY <2>5, <3>1, <3>2, <3>3, <3>4, <3>5, CacheAssumption
    <2>8. CacheIs(store', version', latest', useAt') BY <2>1, <2>4, <2>7, FewerEntries
    <2>9. \A m \in Name : useAt'[m] <= uses' BY <2>1
    <2> QED BY <2>1, <2>7, <2>8, <2>9
  <1>5. ASSUME Lru!InvalidateCollection PROVE LruInv'
    <2>1. version' = version + 1 /\ latest' = [n \in Name |-> NoVal] /\ UNCHANGED <<store, now, useAt, uses>>
      BY <1>5 DEF Lru!InvalidateCollection
    <2>2. \A i \in DOMAIN store : store[i].key[2] <= version /\ store[i].key[2] \in Nat
      <3>1. \A i \in DOMAIN store : store[i] \in CacheEntry BY <1>1
      <3> QED BY <3>1 DEF CacheIs, CacheEntry
    <2>3. \A i \in DOMAIN store : store[i].key[2] <= version' /\ store[i].key[2] # version' BY <2>1, <2>2
    <2>4. CacheIs(store', version', latest', useAt') BY <1>1, <2>1, <2>3 DEF CacheIs
    <2> QED BY <2>1, <2>4
  <1>6. ASSUME Lru!CleanupExpired PROVE LruInv'
    <2> DEFINE I == {i \in DOMAIN store : ~Lru!Expired(store[i])}
    <2>1. store' = Kept(store, I) /\ UNCHANGED <<now, version, latest, useAt, uses>>
      BY <1>6, LruCopies DEF Lru!CleanupExpired
    <2>2. I \subseteq DOMAIN store OBVIOUS
    <2> HIDE DEF I
    <2>3. store' \in Seq(CacheEntry) /\ Len(store') <= Len(store) /\ Picked(store', store)
      BY <1>1, <2>1, <2>2, KeptPicked
    <2>4. CacheIs(store', version', latest', useAt') BY <2>1, <2>3, FewerEntries
    <2>5. Len(store') <= MaxSize BY <1>1, <2>3, CacheAssumption
    <2> QED BY <2>1, <2>4, <2>5
  <1>7. ASSUME Lru!Clear PROVE LruInv'
    <2>1. store' = <<>> /\ UNCHANGED <<now, version, latest, useAt, uses>> BY <1>7 DEF Lru!Clear
    <2>2. DOMAIN store' = {} /\ store' \in Seq(CacheEntry) /\ Len(store') = 0 BY <2>1
    <2>3. CacheIs(store', version', latest', useAt') BY <2>2 DEF CacheIs
    <2> QED BY <2>1, <2>2, <2>3, CacheAssumption
  <1>8. ASSUME Lru!Tick PROVE LruInv'
    BY <1>8 DEF Lru!Tick, CacheIs
  <1> QED BY <1>2, <1>3, <1>4, <1>5, <1>6, <1>7, <1>8 DEF Lru!Next

\* The properties, from the invariant.
LEMMA LruHolds ==
  ASSUME LruInv PROVE Lru!AnswersAreLatest /\ Lru!OrderIsRecency /\ Lru!WithinLimit
  <1>1. store \in Seq(CacheEntry) BY DEF LruInv, CacheIs
  <1>2. ASSUME NEW n \in Name PROVE Lru!Lookup(Lru!KeyOf(n)) \in {latest[n], NoVal}
    <2> DEFINE k == <<n, version>>
               p == Lru!Position(k)
    <2>1. k = Lru!KeyOf(n) BY DEF Lru!KeyOf
    <2>2. CASE p = 0 BY <2>1, <2>2 DEF Lru!Lookup, Lru!Fresh
    <2>3. CASE p # 0
      <3>1. p \in DOMAIN store /\ store[p].key = k BY <1>1, <2>3, LruPosition
      <3>2. store[p].key[2] = version /\ store[p].key[1] = n BY <3>1
      <3>3. store[p].val = latest[n] BY <3>1, <3>2 DEF LruInv, CacheIs
      <3> QED BY <2>1, <3>3 DEF Lru!Lookup
    <2> QED BY <2>2, <2>3
  <1>3. Lru!AnswersAreLatest BY <1>2 DEF Lru!AnswersAreLatest
  <1>4. Lru!OrderIsRecency BY DEF Lru!OrderIsRecency, LruInv, CacheIs
  <1>5. Lru!WithinLimit BY DEF Lru!WithinLimit, LruInv, CacheIs
  <1> QED BY <1>3, <1>4, <1>5

-----------------------------------------------------------------------------
(***************************************************************************)
(* The pages.  That a read gives what was written needs that each page is in *)
(* the cache once, that its entry differs from the file only by a change not *)
(* flushed yet, and that no such change is missing from the cache: eviction, *)
(* flush and reopening then write or drop the right bytes.                 *)
(***************************************************************************)

LEMMA PagedCopies ==
  /\ \A S : Paged!Cardinality(S) = Cardinality(S)
  /\ \A s, i : Paged!RemoveAt(s, i) = RemoveAt(s, i)
  /\ \A s, I : Paged!Kept(s, I) = Kept(s, I)
  /\ \A S : Paged!Max(S) = Max(S)
  /\ \A s : Paged!ToSet(s) = {s[i] : i \in DOMAIN s}
  /\ \A s : Paged!Last(s) = s[Len(s)] /\ Paged!Front(s) = SubSeq(s, 1, Len(s) - 1)
  <1>1. \A S : Paged!Cardinality(S) = Cardinality(S) BY DEF Paged!Cardinality, Cardinality
  <1>2. \A s, i : Paged!RemoveAt(s, i) = RemoveAt(s, i) BY DEF Paged!RemoveAt, RemoveAt
  <1>3. \A s, I : Paged!Kept(s, I) = Kept(s, I)
    BY DEF Paged!Kept, Paged!Arranged, Paged!Cardinality, Kept, Arranged, Cardinality
  <1>4. \A S : Paged!Max(S) = Max(S) BY DEF Paged!Max, Max
  <1>5. \A s : Paged!ToSet(s) = {s[i] : i \in DOMAIN s} BY DEF Paged!ToSet
  <1>6. \A s : Paged!Last(s) = s[Len(s)] /\ Paged!Front(s) = SubSeq(s, 1, Len(s) - 1)
    BY DEF Paged!Last, Paged!Front
  <1> QED BY <1>1, <1>2, <1>3, <1>4, <1>5, <1>6

PageId == 0..(Pages - 1)
Contents == Val \cup {Zero}
Page == [id : PageId, val : Contents, dirty : BOOLEAN]

\* The cache c over the file d, with the changes made and not flushed: a page is there
\* once, the file has it, and it differs from the file only by its change.
PagesAre(c, d, changes) ==
  /\ c \in Seq(Page) /\ d \in Seq(Contents) /\ changes \in [PageId -> Val \cup {NoVal}]
  /\ \A i, j \in DOMAIN c : c[i].id = c[j].id => i = j
  /\ \A i \in DOMAIN c :
       /\ c[i].id < Len(d)
       /\ IF c[i].dirty THEN changes[c[i].id] # NoVal /\ c[i].val = changes[c[i].id]
          ELSE changes[c[i].id] = NoVal /\ c[i].val = d[c[i].id + 1]
  /\ \A p \in PageId : changes[p] # NoVal => \E i \in DOMAIN c : c[i].id = p

\* What was written is in the file.
WrittenIs(w, d) ==
  /\ w \in [PageId -> Contents \cup {NoVal}]
  /\ \A p \in PageId : w[p] # NoVal => p < Len(d) /\ d[p + 1] = w[p]

\* The pages in use, the free ones and those not made yet are apart.
UseIs(f, o, n) ==
  /\ f \in Seq(PageId) /\ o \subseteq PageId /\ n \in Nat
  /\ \A p \in o : p < n
  /\ \A i \in DOMAIN f : f[i] < n /\ f[i] \notin o
  /\ \A i, j \in DOMAIN f : f[i] = f[j] => i = j

PagesInv ==
  /\ header = nextPage /\ UseIs(free, owned, nextPage)
  /\ PagesAre(cache, disk, pending) /\ WrittenIs(stored, disk)

\* A cache made of pages of the old one, and of pages at P that are as in the new file.
PagesFollow(c, d, changes, c2, d2, changes2, P) ==
  /\ c2 \in Seq(Page) /\ d2 \in Seq(Contents) /\ P \in SUBSET PageId
  /\ \A i, j \in DOMAIN c2 : c2[i].id = c2[j].id => i = j
  /\ Len(d) <= Len(d2) /\ \A p \in PageId \ P : p < Len(d) => d2[p + 1] = d[p + 1]
  /\ \A i \in DOMAIN c2 :
       IF c2[i].id \in P
       THEN c2[i].id < Len(d2) /\ ~c2[i].dirty /\ c2[i].val = d2[c2[i].id + 1]
       ELSE \E j \in DOMAIN c : c2[i] = c[j]
  /\ changes2 = [p \in PageId |-> IF p \notin P /\ \E i \in DOMAIN c2 : c2[i].id = p
                                  THEN changes[p] ELSE NoVal]

LEMMA PagesFrom ==
  ASSUME NEW c, NEW d, NEW changes, PagesAre(c, d, changes),
         NEW c2, NEW d2, NEW changes2, NEW P, PagesFollow(c, d, changes, c2, d2, changes2, P)
  PROVE  PagesAre(c2, d2, changes2)
  <1> USE DEF PagesFollow
  <1>1. /\ c \in Seq(Page) /\ d \in Seq(Contents) /\ changes \in [PageId -> Val \cup {NoVal}]
        /\ Len(d) \in Nat /\ Len(d2) \in Nat
    BY DEF PagesAre
  <1>2. changes2 \in [PageId -> Val \cup {NoVal}] BY <1>1
  <1>3. \A p \in PageId : changes2[p] # NoVal => \E i \in DOMAIN c2 : c2[i].id = p OBVIOUS
  <1>4. ASSUME NEW i \in DOMAIN c2
        PROVE  /\ c2[i].id < Len(d2)
               /\ IF c2[i].dirty THEN changes2[c2[i].id] # NoVal /\ c2[i].val = changes2[c2[i].id]
                  ELSE changes2[c2[i].id] = NoVal /\ c2[i].val = d2[c2[i].id + 1]
    <2>1. c2[i] \in Page OBVIOUS
    <2>2. c2[i].id \in PageId /\ c2[i].id \in Int BY <2>1 DEF Page, PageId
    <2>3. CASE c2[i].id \in P BY <2>2, <2>3
    <2>4. CASE c2[i].id \notin P
      <3>1. PICK j \in DOMAIN c : c2[i] = c[j] BY <2>4
      <3>2. /\ c[j].id < Len(d)
            /\ IF c[j].dirty THEN changes[c[j].id] # NoVal /\ c[j].val = changes[c[j].id]
               ELSE changes[c[j].id] = NoVal /\ c[j].val = d[c[j].id + 1]
        BY DEF PagesAre
      <3>3. changes2[c2[i].id] = changes[c2[i].id] BY <2>2, <2>4
      <3>4. d2[c2[i].id + 1] = d[c2[i].id + 1] BY <2>2, <2>4, <3>1, <3>2
      <3>5. c2[i].id < Len(d2) BY <1>1, <2>2, <3>1, <3>2
      <3> QED BY <3>1, <3>2, <3>3, <3>4, <3>5
    <2> QED BY <2>3, <2>4
  <1> QED BY <1>2, <1>3, <1>4 DEF PagesAre

LEMMA PagePosition ==
  ASSUME NEW p, cache \in Seq(Page)
  PROVE  /\ Paged!Position(p) \in 0..Len(cache)
         /\ Paged!Position(p) = 0 => \A i \in DOMAIN cache : cache[i].id # p
         /\ Paged!Position(p) # 0 => cache[Paged!Position(p)].id = p
  <1> DEFINE I == {i \in 1..Len(cache) : cache[i].id = p}
  <1>1. Paged!Position(p) = IF I # {} THEN Min(I) ELSE 0
    BY DEF Paged!Position, Paged!SelectInSeq, Paged!Min, Min
  <1>2. I \in SUBSET Nat /\ I \subseteq 1..Len(cache) /\ DOMAIN cache = 1..Len(cache) OBVIOUS
  <1>3. I # {} => Min(I) \in I BY <1>2, First
  <1> QED BY <1>1, <1>2, <1>3

\* The cache without a page.
LEMMA PagesWithout ==
  ASSUME NEW p, NEW d, NEW changes, PagesAre(cache, d, changes)
  PROVE  /\ Paged!Without(p) \in Seq(Page)
         /\ \A i, j \in DOMAIN Paged!Without(p) : Paged!Without(p)[i].id = Paged!Without(p)[j].id => i = j
         /\ \A i \in DOMAIN Paged!Without(p) :
              /\ Paged!Without(p)[i].id # p
              /\ \E j \in DOMAIN cache : Paged!Without(p)[i] = cache[j]
         /\ \A j \in DOMAIN cache : cache[j].id # p =>
              \E i \in DOMAIN Paged!Without(p) : Paged!Without(p)[i] = cache[j]
  <1>1. /\ cache \in Seq(Page) /\ Len(cache) \in Nat /\ DOMAIN cache = 1..Len(cache)
        /\ \A i, j \in 1..Len(cache) : cache[i].id = cache[j].id => i = j
    BY DEF PagesAre
  <1>2. CASE Paged!Position(p) = 0
    <2>1. Paged!Without(p) = cache BY <1>2 DEF Paged!Without
    <2> QED BY <1>1, <1>2, <2>1, PagePosition
  <1>3. CASE Paged!Position(p) # 0
    <2> DEFINE n == Paged!Position(p)
               t == RemoveAt(cache, n)
               m == Len(cache)
    <2>1. n \in 1..m /\ cache[n].id = p BY <1>1, <1>3, PagePosition
    <2>2. Paged!Without(p) = t BY <1>3, PagedCopies DEF Paged!Without
    <2> HIDE DEF n
    <2>3. /\ t \in Seq(Page) /\ Len(t) = m - 1
          /\ \A i \in 1..(m - 1) : t[i] = IF i < n THEN cache[i] ELSE cache[i + 1]
      BY <1>1, <2>1, RemoveAtIs
    <2> HIDE DEF t
    <2>4. DOMAIN t = 1..(m - 1) /\ m \in Nat BY <1>1, <2>3
    <2>5. ASSUME NEW i \in 1..(m - 1)
          PROVE  \E k \in 1..m : k # n /\ t[i] = cache[k] /\ k = IF i < n THEN i ELSE i + 1
      <3>1. CASE i < n BY <1>1, <2>1, <2>3, <3>1
      <3>2. CASE ~(i < n) BY <1>1, <2>1, <2>3, <3>2
      <3> QED BY <3>1, <3>2
    <2>6. ASSUME NEW i \in 1..(m - 1), NEW j \in 1..(m - 1), t[i].id = t[j].id PROVE i = j
      <3>1. PICK k \in 1..m : t[i] = cache[k] /\ k = IF i < n THEN i ELSE i + 1 BY <2>5
      <3>2. PICK l \in 1..m : t[j] = cache[l] /\ l = IF j < n THEN j ELSE j + 1 BY <2>5
      <3>3. k = l BY <1>1, <2>6, <3>1, <3>2
      <3> QED BY <2>1, <3>1, <3>2, <3>3
    <2>7. ASSUME NEW i \in 1..(m - 1) PROVE t[i].id # p /\ \E k \in 1..m : t[i] = cache[k]
      BY <1>1, <2>1, <2>5
    <2>8. ASSUME NEW k \in 1..m, cache[k].id # p PROVE \E i \in 1..(m - 1) : t[i] = cache[k]
      <3>1. k # n BY <2>1, <2>8
      <3>2. CASE k < n
        <4>1. k \in 1..(m - 1) BY <1>1, <2>1, <3>2
        <4> QED BY <2>3, <3>2, <4>1
      <3>3. CASE k > n
        <4>1. k - 1 \in 1..(m - 1) /\ ~(k - 1 < n) /\ (k - 1) + 1 = k BY <1>1, <2>1, <3>3
        <4>2. t[k - 1] = cache[k] BY <2>3, <4>1
        <4> QED BY <4>1, <4>2
      <3> QED BY <1>1, <2>1, <3>1, <3>2, <3>3
    <2> QED BY <1>1, <2>2, <2>3, <2>4, <2>6, <2>7, <2>8
  <1> QED BY <1>1, <1>2, <1>3, PagePosition

\* A page put at the end of the cache, which then drops the first one if it is too long.
LEMMA PagesPut ==
  ASSUME NEW p \in PageId, NEW v \in Contents, NEW d, NEW changes, PagesAre(cache, d, changes)
  PROVE  LET c == Paged!Put(p, v, FALSE)
         IN /\ c \in Seq(Page)
            /\ \A i, j \in DOMAIN c : c[i].id = c[j].id => i = j
            /\ \A i \in DOMAIN c :
                 IF c[i].id = p THEN c[i] = [id |-> p, val |-> v, dirty |-> FALSE]
                 ELSE \E j \in DOMAIN cache : c[i] = cache[j]
  <1> DEFINE x == [id |-> p, val |-> v, dirty |-> FALSE]
             s == Paged!Without(p)
             t == Append(s, x)
             m == Len(s)
             c == Paged!Put(p, v, FALSE)
  <1>1. x \in Page /\ x.id = p BY DEF Page
  <1>2. /\ s \in Seq(Page) /\ m \in Nat /\ DOMAIN s = 1..m
        /\ \A i, j \in 1..m : s[i].id = s[j].id => i = j
        /\ \A i \in 1..m : s[i].id # p /\ \E j \in DOMAIN cache : s[i] = cache[j]
    <2>1. s \in Seq(Page) BY PagesWithout
    <2>2. m \in Nat /\ DOMAIN s = 1..m BY <2>1
    <2>3. /\ \A i, j \in DOMAIN s : s[i].id = s[j].id => i = j
          /\ \A i \in DOMAIN s : s[i].id # p /\ \E j \in DOMAIN cache : s[i] = cache[j]
      BY PagesWithout
    <2> QED BY <2>1, <2>2, <2>3
  <1> HIDE DEF s, x
  <1>3. /\ t \in Seq(Page) /\ Len(t) = m + 1 /\ t[m + 1] = x
        /\ \A i \in 1..m : t[i] = s[i]
    BY <1>1, <1>2
  <1> HIDE DEF t, m
  <1>4. \A i \in 1..(m + 1) : i \in 1..m \/ i = m + 1 BY <1>2
  <1>5. \A i, j \in 1..(m + 1) : t[i].id = t[j].id => i = j BY <1>1, <1>2, <1>3, <1>4
  <1>6. \A i \in 1..(m + 1) : IF t[i].id = p THEN t[i] = x ELSE \E j \in DOMAIN cache : t[i] = cache[j]
    BY <1>1, <1>2, <1>3, <1>4
  <1>7. c = IF Len(t) > MaxPages THEN Tail(t) ELSE t BY DEF Paged!Put, Paged!Fit, t, s, x
  <1> HIDE DEF c
  <1>8. /\ c \in Seq(Page)
        /\ \E k \in {0, 1} : Len(c) = m + 1 - k /\ \A i \in 1..Len(c) : c[i] = t[i + k]
    <2>1. CASE Len(t) > MaxPages
      <3>1. c = Tail(t) BY <1>7, <2>1
      <3>2. t # <<>> BY <1>2, <1>3
      <3>3. c \in Seq(Page) /\ Len(c) = m /\ \A i \in 1..m : c[i] = t[i + 1]
        BY <1>2, <1>3, <3>1, <3>2, HeadTailProperties
      <3> QED BY <1>2, <3>3
    <2>2. CASE ~(Len(t) > MaxPages) BY <1>2, <1>3, <1>7, <2>2
    <2> QED BY <2>1, <2>2
  <1>9. PICK k \in {0, 1} : Len(c) = m + 1 - k /\ \A i \in 1..Len(c) : c[i] = t[i + k] BY <1>8
  <1>10. DOMAIN c = 1..(m + 1 - k) BY <1>8, <1>9
  <1>11. \A i \in 1..(m + 1 - k) : i + k \in 1..(m + 1) /\ c[i] = t[i + k] BY <1>2, <1>9
  <1>12. \A i, j \in DOMAIN c : c[i].id = c[j].id => i = j
    <2> SUFFICES ASSUME NEW i \in 1..(m + 1 - k), NEW j \in 1..(m + 1 - k), c[i].id = c[j].id
                 PROVE  i = j BY <1>10
    <2>1. i + k = j + k BY <1>5, <1>11
    <2> QED BY <1>2, <2>1
  <1>13. \A i \in DOMAIN c : IF c[i].id = p THEN c[i] = x ELSE \E j \in DOMAIN cache : c[i] = cache[j]
    BY <1>6, <1>10, <1>11
  <1> QED BY <1>8, <1>12, <1>13 DEF c, x

LEMMA FileWritten ==
  ASSUME NEW d \in Seq(Contents), NEW p \in PageId, NEW v \in Contents
  PROVE  LET d2 == Paged!WriteAt(d, p, v)
         IN /\ d2 \in Seq(Contents) /\ Len(d) <= Len(d2) /\ p < Len(d2) /\ d2[p + 1] = v
            /\ \A q \in PageId \ {p} : q < Len(d) => d2[q + 1] = d[q + 1]
  <1> DEFINE n == IF Len(d) >= p + 1 THEN Len(d) ELSE p + 1
             d2 == Paged!WriteAt(d, p, v)
  <1>1. p \in Nat /\ Len(d) \in Nat /\ n \in Nat /\ n >= Len(d) /\ n >= p + 1
        /\ n \in {Len(d), p + 1}
    BY DEF PageId
  <1>2. Max({Len(d), p + 1}) = n BY <1>1 DEF Max
  <1> HIDE DEF n
  <1>3. d2 = [i \in 1..n |-> IF i = p + 1 THEN v ELSE IF i <= Len(d) THEN d[i] ELSE Zero]
    BY <1>2, PagedCopies DEF Paged!WriteAt
  <1> HIDE DEF d2
  <1>4. \A i \in 1..n : d2[i] \in Contents
    <2>1. Zero \in Contents BY DEF Contents
    <2>2. \A i \in 1..n : i <= Len(d) => d[i] \in Contents BY <1>1
    <2> QED BY <1>3, <2>1, <2>2
  <1>5. d2 \in Seq(Contents) /\ Len(d2) = n BY <1>1, <1>3, <1>4
  <1>6. d2[p + 1] = v BY <1>1, <1>3
  <1>7. ASSUME NEW q \in PageId \ {p}, q < Len(d) PROVE d2[q + 1] = d[q + 1]
    <2>1. q + 1 \in 1..n /\ q + 1 # p + 1 /\ q + 1 <= Len(d) BY <1>1, <1>7 DEF PageId
    <2> QED BY <1>3, <2>1
  <1>8. Len(d) <= Len(d2) /\ p < Len(d2) BY <1>1, <1>5
  <1> QED BY <1>5, <1>6, <1>7, <1>8 DEF d2

LEMMA PagesInit == ASSUME Paged!Init PROVE PagesInv
  <1>1. cache = <<>> /\ disk = <<>> /\ free = <<>> /\ header = 0 /\ nextPage = 0 /\ owned = {}
        /\ stored = [p \in PageId |-> NoVal] /\ pending = [p \in PageId |-> NoVal]
    BY DEF Paged!Init, Paged!Id, PageId
  <1>2. UseIs(free, owned, nextPage) BY <1>1 DEF UseIs
  <1>3. PagesAre(cache, disk, pending) BY <1>1 DEF PagesAre
  <1>4. WrittenIs(stored, disk) BY <1>1 DEF WrittenIs
  <1> QED BY <1>1, <1>2, <1>3, <1>4 DEF PagesInv

LEMMA PagesAllocate == ASSUME PagesInv, Paged!AllocatePage, PagesAssumption PROVE PagesInv'
  <1> USE DEF PagesInv
  <1>1. /\ free \in Seq(PageId) /\ nextPage \in Nat /\ owned \subseteq PageId /\ Len(free) \in Nat
        /\ DOMAIN free = 1..Len(free) /\ (\A p \in owned : p < nextPage)
        /\ (\A i \in 1..Len(free) : free[i] < nextPage /\ free[i] \notin owned)
        /\ (\A i, j \in 1..Len(free) : free[i] = free[j] => i = j)
    BY DEF UseIs
  <1>2. CASE free # <<>> /\ free' = Paged!Front(free) /\ owned' = owned \cup {Paged!Last(free)}
             /\ UNCHANGED <<disk, header, nextPage, cache, stored, pending>>
    <2> DEFINE n == Len(free)
    <2>1. n \in Nat \ {0} BY <1>1, <1>2
    <2>2. owned' = owned \cup {free[n]} /\ free' = SubSeq(free, 1, n - 1) BY <1>2, PagedCopies
    <2>3. free' \in Seq(PageId) /\ Len(free') = n - 1 /\ \A i \in 1..(n - 1) : free'[i] = free[i]
      BY <1>1, <2>1, <2>2
    <2>4. DOMAIN free' = 1..(n - 1) BY <2>3
    <2>5. free[n] \in PageId /\ free[n] < nextPage BY <1>1, <2>1
    <2> HIDE DEF n
    <2>6. \A i \in 1..(n - 1) : i \in 1..Len(free) /\ i # n /\ n \in 1..Len(free) BY <2>1 DEF n
    <2>7. \A i \in DOMAIN free' : free'[i] < nextPage /\ free'[i] \notin owned'
      BY <1>1, <2>2, <2>3, <2>4, <2>6
    <2>8. \A i, j \in DOMAIN free' : free'[i] = free'[j] => i = j BY <1>1, <2>3, <2>4, <2>6
    <2>9. UseIs(free', owned', nextPage) BY <1>1, <2>2, <2>3, <2>5, <2>7, <2>8 DEF UseIs
    <2> QED BY <1>2, <2>9
  <1>3. CASE nextPage < Pages /\ nextPage' = nextPage + 1 /\ header' = nextPage + 1
             /\ owned' = owned \cup {nextPage}
             /\ UNCHANGED <<disk, free, cache, stored, pending>>
    <2>1. nextPage \in PageId BY <1>1, <1>3, PagesAssumption DEF PageId
    <2>2. \A p \in PageId : p < nextPage => p < nextPage + 1 /\ p # nextPage BY <1>1 DEF PageId
    <2>3. \A i \in 1..Len(free) : free[i] \in PageId BY <1>1
    <2>4. owned' \subseteq PageId /\ \A p \in owned' : p < nextPage' BY <1>1, <1>3, <2>1, <2>2
    <2>5. \A i \in DOMAIN free' : free'[i] < nextPage' /\ free'[i] \notin owned'
      BY <1>1, <1>3, <2>2, <2>3
    <2>6. UseIs(free', owned', nextPage') BY <1>1, <1>3, <2>4, <2>5 DEF UseIs
    <2> QED BY <1>3, <2>6
  <1> QED BY <1>2, <1>3 DEF Paged!AllocatePage

LEMMA PagesFree == ASSUME PagesInv, NEW p \in PageId, Paged!FreePage(p) PROVE PagesInv'
  <1> USE DEF PagesInv
  <1>1. /\ p \in owned /\ owned' = owned \ {p} /\ free' = Append(free, p)
        /\ cache' = Paged!Without(p) /\ pending' = [pending EXCEPT ![p] = NoVal]
        /\ UNCHANGED <<disk, header, nextPage, stored>>
    BY DEF Paged!FreePage
  <1>2. UseIs(free', owned', nextPage')
    <2>1. /\ free \in Seq(PageId) /\ Len(free) \in Nat /\ DOMAIN free = 1..Len(free)
          /\ \A i \in 1..Len(free) : free[i] < nextPage /\ free[i] \notin owned
          /\ \A i, j \in 1..Len(free) : free[i] = free[j] => i = j
      BY DEF UseIs
    <2>2. /\ free' \in Seq(PageId) /\ DOMAIN free' = 1..(Len(free) + 1)
          /\ free'[Len(free) + 1] = p /\ \A i \in 1..Len(free) : free'[i] = free[i]
      BY <1>1, <2>1
    <2>3. \A i \in 1..(Len(free) + 1) : i \in 1..Len(free) \/ i = Len(free) + 1 BY <2>1
    <2>4. p < nextPage /\ p \in owned BY <1>1 DEF UseIs
    <2>5. \A i \in DOMAIN free' : free'[i] < nextPage /\ free'[i] \notin owned'
      BY <1>1, <2>1, <2>2, <2>3, <2>4
    <2>6. \A i, j \in DOMAIN free' : free'[i] = free'[j] => i = j BY <1>1, <2>1, <2>2, <2>3, <2>4
    <2> QED BY <1>1, <2>2, <2>5, <2>6 DEF UseIs
  <1>3. PagesAre(cache', disk', pending')
    <2>1. /\ pending \in [PageId -> Val \cup {NoVal}] /\ disk \in Seq(Contents)
          /\ \A q \in PageId : pending[q] # NoVal => \E i \in DOMAIN cache : cache[i].id = q
      BY DEF PagesAre
    <2>2. /\ cache' \in Seq(Page)
          /\ \A i, j \in DOMAIN cache' : cache'[i].id = cache'[j].id => i = j
          /\ \A i \in DOMAIN cache' : cache'[i].id # p /\ \E j \in DOMAIN cache : cache'[i] = cache[j]
          /\ \A j \in DOMAIN cache : cache[j].id # p => \E i \in DOMAIN cache' : cache'[i] = cache[j]
      BY <1>1, PagesWithout
    <2>3. pending' = [q \in PageId |-> IF q \notin {} /\ \E i \in DOMAIN cache' : cache'[i].id = q
                                       THEN pending[q] ELSE NoVal]
      <3>1. ASSUME NEW q \in PageId
            PROVE  pending'[q] = IF \E i \in DOMAIN cache' : cache'[i].id = q THEN pending[q] ELSE NoVal
        <4>1. CASE q = p BY <1>1, <2>1, <2>2, <4>1
        <4>2. CASE q # p
          <5>1. pending'[q] = pending[q] BY <1>1, <2>1, <4>2
          <5>2. pending[q] # NoVal => \E i \in DOMAIN cache' : cache'[i].id = q BY <2>1, <2>2, <4>2
          <5> QED BY <5>1, <5>2
        <4> QED BY <4>1, <4>2
      <3>2. pending' = [q \in PageId |-> pending'[q]] BY <1>1, <2>1
      <3> QED BY <3>1, <3>2
    <2>4. Len(disk) \in Nat BY <2>1
    <2>5. {} \in SUBSET PageId OBVIOUS
    <2>6. PagesFollow(cache, disk, pending, cache', disk, pending', {})
      BY <2>1, <2>2, <2>3, <2>4, <2>5 DEF PagesFollow
    <2>7. PagesAre(cache', disk, pending') BY <2>6, PagesFrom
    <2> QED BY <1>1, <2>7
  <1> QED BY <1>1, <1>2, <1>3

LEMMA PagesWrite ==
  ASSUME PagesInv, NEW p \in PageId, NEW v \in Val, Paged!WritePage(p, v) PROVE PagesInv'
  <1> USE DEF PagesInv
  <1>1. /\ p \in owned \/ p >= nextPage
        /\ nextPage' = Paged!Max({nextPage, p + 1})
        /\ header' = IF p >= nextPage THEN p + 1 ELSE header
        /\ disk' = Paged!WriteAt(disk, p, v) /\ cache' = Paged!Put(p, v, FALSE)
        /\ owned' = owned \cup {p} /\ stored' = [stored EXCEPT ![p] = v]
        /\ pending' = [Paged!KeptIn(cache') EXCEPT ![p] = NoVal] /\ UNCHANGED free
    BY DEF Paged!WritePage
  <1>2. /\ cache \in Seq(Page) /\ disk \in Seq(Contents) /\ pending \in [PageId -> Val \cup {NoVal}]
        /\ Len(disk) \in Nat /\ v \in Contents
    BY DEF PagesAre, Contents
  <1>3. /\ disk' \in Seq(Contents) /\ Len(disk) <= Len(disk') /\ p < Len(disk') /\ disk'[p + 1] = v
        /\ \A q \in PageId \ {p} : q < Len(disk) => disk'[q + 1] = disk[q + 1]
    <2> DEFINE d2 == Paged!WriteAt(disk, p, v)
    <2>1. /\ d2 \in Seq(Contents) /\ Len(disk) <= Len(d2) /\ p < Len(d2) /\ d2[p + 1] = v
          /\ \A q \in PageId \ {p} : q < Len(disk) => d2[q + 1] = disk[q + 1]
      BY <1>2, FileWritten
    <2>2. disk' = d2 BY <1>1
    <2> HIDE DEF d2
    <2> QED BY <2>1, <2>2
  <1>4. UseIs(free', owned', nextPage') /\ header' = nextPage'
    <2>1. /\ free \in Seq(PageId) /\ nextPage \in Nat /\ owned \subseteq PageId
          /\ (\A q \in owned : q < nextPage)
          /\ (\A i \in DOMAIN free : free[i] < nextPage /\ free[i] \notin owned)
          /\ (\A i, j \in DOMAIN free : free[i] = free[j] => i = j)
      BY DEF UseIs
    <2>2. p \in Nat BY DEF PageId
    <2>3. Max({nextPage, p + 1}) = IF p >= nextPage THEN p + 1 ELSE nextPage
      BY <2>1, <2>2 DEF Max
    <2>4. nextPage' = IF p >= nextPage THEN p + 1 ELSE nextPage BY <1>1, <2>3, PagedCopies
    <2>5. nextPage' \in Nat /\ nextPage' >= nextPage /\ p < nextPage'
      BY <1>1, <2>1, <2>2, <2>4
    <2>6. \A q \in PageId : q < nextPage => q < nextPage' BY <2>1, <2>5 DEF PageId
    <2>7. \A i \in DOMAIN free : free[i] \in PageId BY <2>1
    <2>8. \A i \in DOMAIN free' : free'[i] < nextPage' /\ free'[i] \notin owned'
      <3>1. ASSUME NEW i \in DOMAIN free PROVE free[i] # p
        <4>1. free[i] < nextPage /\ free[i] \notin owned BY <2>1
        <4>2. p \in owned \/ ~(p < nextPage) BY <1>1, <2>1, <2>2
        <4> QED BY <4>1, <4>2
      <3> QED BY <1>1, <2>1, <2>6, <2>7, <3>1
    <2>9. owned' \subseteq PageId /\ \A q \in owned' : q < nextPage' BY <1>1, <2>1, <2>5, <2>6
    <2>10. UseIs(free', owned', nextPage') BY <1>1, <2>1, <2>5, <2>8, <2>9 DEF UseIs
    <2> QED BY <1>1, <2>4, <2>10
  <1>5. PagesAre(cache', disk', pending')
    <2>1. /\ cache' \in Seq(Page)
          /\ \A i, j \in DOMAIN cache' : cache'[i].id = cache'[j].id => i = j
          /\ \A i \in DOMAIN cache' :
               IF cache'[i].id = p THEN cache'[i] = [id |-> p, val |-> v, dirty |-> FALSE]
               ELSE \E j \in DOMAIN cache : cache'[i] = cache[j]
      BY <1>1, <1>2, PagesPut
    <2>2. \A i \in DOMAIN cache' :
            IF cache'[i].id \in {p}
            THEN cache'[i].id < Len(disk') /\ ~cache'[i].dirty /\ cache'[i].val = disk'[cache'[i].id + 1]
            ELSE \E j \in DOMAIN cache : cache'[i] = cache[j]
      BY <1>3, <2>1
    <2>3. pending' = [q \in PageId |-> IF q \notin {p} /\ \E i \in DOMAIN cache' : cache'[i].id = q
                                       THEN pending[q] ELSE NoVal]
      <3>1. \A q : (\E e \in Paged!ToSet(cache') : e.id = q) <=> \E i \in DOMAIN cache' : cache'[i].id = q
        BY PagedCopies
      <3>2. Paged!KeptIn(cache') = [q \in PageId |-> IF \E i \in DOMAIN cache' : cache'[i].id = q
                                                     THEN pending[q] ELSE NoVal]
        BY <3>1 DEF Paged!KeptIn, Paged!Id, PageId
      <3> QED BY <1>1, <3>2
    <2>4. {p} \in SUBSET PageId OBVIOUS
    <2>5. PagesFollow(cache, disk, pending, cache', disk', pending', {p})
      BY <1>3, <2>1, <2>2, <2>3, <2>4 DEF PagesFollow
    <2> QED BY <2>5, PagesFrom
  <1>6. WrittenIs(stored', disk')
    <2>1. /\ stored \in [PageId -> Contents \cup {NoVal}]
          /\ \A q \in PageId : stored[q] # NoVal => q < Len(disk) /\ disk[q + 1] = stored[q]
      BY DEF WrittenIs
    <2>2. ASSUME NEW q \in PageId, stored'[q] # NoVal
          PROVE  q < Len(disk') /\ disk'[q + 1] = stored'[q]
      <3>1. CASE q = p BY <1>1, <1>3, <2>1, <3>1
      <3>2. CASE q # p
        <4>1. stored'[q] = stored[q] BY <1>1, <2>1, <3>2
        <4>2. q < Len(disk) /\ disk[q + 1] = stored[q] /\ q \in Nat BY <2>1, <2>2, <4>1 DEF PageId
        <4>3. q < Len(disk') BY <1>2, <1>3, <4>2
        <4> QED BY <1>3, <3>2, <4>1, <4>2, <4>3
      <3> QED BY <3>1, <3>2
    <2>3. stored' \in [PageId -> Contents \cup {NoVal}] BY <1>1, <1>2, <2>1
    <2> QED BY <2>2, <2>3 DEF WrittenIs
  <1> QED BY <1>4, <1>5, <1>6

LEMMA PagesRead ==
  ASSUME PagesInv, NoVal \notin Contents, NEW p \in PageId, Paged!ReadPage(p) PROVE PagesInv'
  <1> USE DEF PagesInv
  <1>1. /\ Paged!Content(p) # NoVal
        /\ cache' = IF Paged!Position(p) # 0 THEN Append(Paged!Without(p), cache[Paged!Position(p)])
                    ELSE Paged!Put(p, Paged!OnDisk(p), FALSE)
        /\ pending' = Paged!KeptIn(cache')
        /\ UNCHANGED <<disk, header, nextPage, free, owned, stored>>
    BY DEF Paged!ReadPage
  <1>2. /\ cache \in Seq(Page) /\ disk \in Seq(Contents) /\ pending \in [PageId -> Val \cup {NoVal}]
        /\ Len(disk) \in Nat /\ p \in Nat
    BY DEF PagesAre, PageId
  <1>3. pending' = [q \in PageId |-> IF \E i \in DOMAIN cache' : cache'[i].id = q
                                     THEN pending[q] ELSE NoVal]
    <2>1. \A q : (\E e \in Paged!ToSet(cache') : e.id = q) <=> \E i \in DOMAIN cache' : cache'[i].id = q
      BY PagedCopies
    <2> QED BY <1>1, <2>1 DEF Paged!KeptIn, Paged!Id, PageId
  <1>4. CASE Paged!Position(p) # 0
    <2> DEFINE s == Paged!Without(p)
               x == cache[Paged!Position(p)]
               m == Len(s)
    <2>1. Paged!Position(p) \in DOMAIN cache /\ x.id = p /\ x \in Page
      BY <1>2, <1>4, PagePosition
    <2>2. /\ s \in Seq(Page) /\ m \in Nat /\ DOMAIN s = 1..m
          /\ \A i, j \in 1..m : s[i].id = s[j].id => i = j
          /\ \A i \in 1..m : s[i].id # p /\ \E j \in DOMAIN cache : s[i] = cache[j]
      <3>1. s \in Seq(Page) BY PagesWithout
      <3>2. m \in Nat /\ DOMAIN s = 1..m BY <3>1
      <3>3. /\ \A i, j \in DOMAIN s : s[i].id = s[j].id => i = j
            /\ \A i \in DOMAIN s : s[i].id # p /\ \E j \in DOMAIN cache : s[i] = cache[j]
        BY PagesWithout
      <3> QED BY <3>1, <3>2, <3>3
    <2>3. cache' = Append(s, x) BY <1>1, <1>4
    <2> HIDE DEF s, x
    <2>4. /\ cache' \in Seq(Page) /\ DOMAIN cache' = 1..(m + 1) /\ cache'[m + 1] = x
          /\ \A i \in 1..m : cache'[i] = s[i]
      BY <2>1, <2>2, <2>3
    <2> HIDE DEF m
    <2>5. \A i \in 1..(m + 1) : i \in 1..m \/ i = m + 1 BY <2>2
    <2>6. \A i, j \in DOMAIN cache' : cache'[i].id = cache'[j].id => i = j
      BY <2>1, <2>2, <2>4, <2>5
    <2>7. \A i \in DOMAIN cache' : \E j \in DOMAIN cache : cache'[i] = cache[j]
      <3>1. \E j \in DOMAIN cache : x = cache[j] BY <2>1 DEF x
      <3> QED BY <2>2, <2>4, <2>5, <3>1
    <2>8. PagesFollow(cache, disk, pending, cache', disk, pending', {})
      BY <1>2, <1>3, <2>4, <2>6, <2>7 DEF PagesFollow
    <2>9. PagesAre(cache', disk, pending') BY <2>8, PagesFrom
    <2> QED BY <1>1, <2>9
  <1>5. CASE Paged!Position(p) = 0
    <2>1. Paged!OnDisk(p) # NoVal BY <1>1, <1>5 DEF Paged!Content
    <2>2. p < Len(disk) /\ Paged!OnDisk(p) = disk[p + 1] BY <2>1 DEF Paged!OnDisk
    <2>3. disk[p + 1] \in Contents BY <1>2, <2>2
    <2>4. cache' = Paged!Put(p, disk[p + 1], FALSE) BY <1>1, <1>5, <2>2
    <2>5. /\ cache' \in Seq(Page)
          /\ \A i, j \in DOMAIN cache' : cache'[i].id = cache'[j].id => i = j
          /\ \A i \in DOMAIN cache' :
               IF cache'[i].id = p THEN cache'[i] = [id |-> p, val |-> disk[p + 1], dirty |-> FALSE]
               ELSE \E j \in DOMAIN cache : cache'[i] = cache[j]
      <3> DEFINE v == disk[p + 1]
      <3>1. v \in Contents /\ cache' = Paged!Put(p, v, FALSE) BY <2>3, <2>4
      <3> HIDE DEF v
      <3>2. /\ cache' \in Seq(Page)
            /\ \A i, j \in DOMAIN cache' : cache'[i].id = cache'[j].id => i = j
            /\ \A i \in DOMAIN cache' :
                 IF cache'[i].id = p THEN cache'[i] = [id |-> p, val |-> v, dirty |-> FALSE]
                 ELSE \E j \in DOMAIN cache : cache'[i] = cache[j]
        BY <3>1, PagesPut
      <3> QED BY <3>2 DEF v
    <2>6. \A i \in DOMAIN cache' :
            IF cache'[i].id \in {p}
            THEN cache'[i].id < Len(disk) /\ ~cache'[i].dirty /\ cache'[i].val = disk[cache'[i].id + 1]
            ELSE \E j \in DOMAIN cache : cache'[i] = cache[j]
      BY <2>2, <2>5
    <2>7. pending[p] = NoVal BY <1>2, <1>5, PagePosition DEF PagesAre
    <2>8. pending' = [q \in PageId |-> IF q \notin {p} /\ \E i \in DOMAIN cache' : cache'[i].id = q
                                       THEN pending[q] ELSE NoVal]
      BY <1>3, <2>7
    <2>9. {p} \in SUBSET PageId OBVIOUS
    <2>10. PagesFollow(cache, disk, pending, cache', disk, pending', {p})
      BY <1>2, <2>5, <2>6, <2>8, <2>9 DEF PagesFollow
    <2>11. PagesAre(cache', disk, pending') BY <2>10, PagesFrom
    <2> QED BY <1>1, <2>11
  <1> QED BY <1>4, <1>5

LEMMA PagesModify ==
  ASSUME PagesInv, NoVal \notin Val, NEW p \in PageId, NEW v \in Val, Paged!Modify(p, v)
  PROVE  PagesInv'
  <1> USE DEF PagesInv
  <1> DEFINE n == Paged!Position(p)
  <1>1. /\ n # 0 /\ pending' = [pending EXCEPT ![p] = v]
        /\ cache' = [cache EXCEPT ![n].val = v, ![n].dirty = TRUE]
        /\ UNCHANGED <<disk, header, nextPage, free, owned, stored>>
    BY DEF Paged!Modify
  <1>2. /\ cache \in Seq(Page) /\ disk \in Seq(Contents) /\ pending \in [PageId -> Val \cup {NoVal}]
        /\ v \in Contents
    BY DEF PagesAre, Contents
  <1>3. n \in DOMAIN cache /\ cache[n].id = p BY <1>1, <1>2, PagePosition
  <1> HIDE DEF n
  <1>4. \A i \in DOMAIN cache : cache[i] \in Page BY <1>2
  <1> DEFINE x == [id |-> p, val |-> v, dirty |-> TRUE]
  <1>5. cache' = [cache EXCEPT ![n] = x]
    <2>1. cache[n] \in Page BY <1>3, <1>4
    <2>2. ASSUME NEW y \in Page, y.id = p
          PROVE  [[y EXCEPT !.val = v] EXCEPT !.dirty = TRUE] = x
      <3> DEFINE z == [y EXCEPT !.val = v]
      <3>1. z \in Page /\ z.id = p /\ z.val = v BY <1>2, <2>2 DEF Page
      <3> HIDE DEF z
      <3>2. [z EXCEPT !.dirty = TRUE] \in Page /\ [z EXCEPT !.dirty = TRUE].id = p
            /\ [z EXCEPT !.dirty = TRUE].val = v /\ [z EXCEPT !.dirty = TRUE].dirty
        BY <3>1 DEF Page
      <3>3. x \in Page /\ x.id = p /\ x.val = v /\ x.dirty BY <1>2 DEF Page
      <3>4. \A r, q \in Page : r.id = q.id /\ r.val = q.val /\ r.dirty /\ q.dirty => r = q
        BY DEF Page
      <3> HIDE DEF x
      <3>5. [z EXCEPT !.dirty = TRUE] = x BY <3>2, <3>3, <3>4
      <3> QED BY <3>5 DEF z
    <2>3. [[cache[n] EXCEPT !.val = v] EXCEPT !.dirty = TRUE] = x BY <1>3, <2>1, <2>2
    <2> QED BY <1>1, <1>3, <2>3
  <1>6. x \in Page /\ x.id = p /\ x.val = v /\ x.dirty BY <1>2 DEF Page
  <1> HIDE DEF x
  <1>7. /\ cache' \in Seq(Page) /\ DOMAIN cache' = DOMAIN cache /\ cache'[n] = x
        /\ \A i \in DOMAIN cache : i # n => cache'[i] = cache[i]
    <2>1. n \in 1..Len(cache) BY <1>2, <1>3
    <2>2. [cache EXCEPT ![n] = x] \in Seq(Page) BY <1>2, <1>6, <2>1, ExceptSeq
    <2> QED BY <1>3, <1>5, <2>2
  <1>8. \A i \in DOMAIN cache : cache'[i].id = cache[i].id BY <1>3, <1>6, <1>7
  <1>9. \A i, j \in DOMAIN cache : cache[i].id = cache[j].id => i = j BY DEF PagesAre
  <1>10. ASSUME NEW i \in DOMAIN cache
         PROVE  /\ cache'[i].id < Len(disk)
                /\ IF cache'[i].dirty THEN pending'[cache'[i].id] # NoVal /\ cache'[i].val = pending'[cache'[i].id]
                   ELSE pending'[cache'[i].id] = NoVal /\ cache'[i].val = disk[cache'[i].id + 1]
    <2>1. cache[i].id < Len(disk) BY DEF PagesAre
    <2>2. CASE i = n
      <3>1. cache'[i].id = p /\ cache'[i].dirty /\ cache'[i].val = v BY <1>6, <1>7, <2>2
      <3>2. pending'[p] = v /\ v # NoVal BY <1>1, <1>2
      <3> QED BY <1>3, <2>1, <2>2, <3>1, <3>2
    <2>3. CASE i # n
      <3>1. cache[i].id # p BY <1>3, <1>9, <2>3
      <3>2. cache[i].id \in PageId BY <1>4 DEF Page
      <3>3. pending'[cache[i].id] = pending[cache[i].id] BY <1>1, <1>2, <3>1, <3>2
      <3> QED BY <1>7, <2>3, <3>3 DEF PagesAre
    <2> QED BY <2>2, <2>3
  <1>11. \A q \in PageId : pending'[q] # NoVal => \E i \in DOMAIN cache' : cache'[i].id = q
    <2> SUFFICES ASSUME NEW q \in PageId, pending'[q] # NoVal
                 PROVE  \E i \in DOMAIN cache : cache[i].id = q
      BY <1>7, <1>8
    <2>1. CASE q = p BY <1>3, <2>1
    <2>2. CASE q # p BY <1>1, <1>2, <2>2 DEF PagesAre
    <2> QED BY <2>1, <2>2
  <1>12. pending' \in [PageId -> Val \cup {NoVal}] BY <1>1, <1>2
  <1>13. PagesAre(cache', disk, pending')
    BY <1>2, <1>7, <1>8, <1>9, <1>10, <1>11, <1>12 DEF PagesAre
  <1> QED BY <1>1, <1>13

\* The cache after a flush: the pages that were as in the file, then the others.
LEMMA PagesFlushed ==
  ASSUME NEW d, NEW changes, PagesAre(cache, d, changes),
         NEW t, t = Kept(cache, DOMAIN cache \ Paged!Dirty) \o Paged!Clean(Kept(cache, Paged!Dirty))
  PROVE  /\ t \in Seq(Page)
         /\ \A k, l \in DOMAIN t : t[k].id = t[l].id => k = l
         /\ \A k \in DOMAIN t : \E i \in DOMAIN cache : t[k] = [cache[i] EXCEPT !.dirty = FALSE]
  <1> DEFINE D == Paged!Dirty
             C == DOMAIN cache \ D
             m == Cardinality(C)
             n == Cardinality(D)
             f == CHOOSE e : KeptBy(e, cache, C)
             g == CHOOSE e : KeptBy(e, cache, D)
             cl == Paged!Clean(Kept(cache, D))
             at == [k \in 1..(m + n) |-> IF k <= m THEN f[k] ELSE g[k - m]]
  <1>1. /\ cache \in Seq(Page) /\ Len(cache) \in Nat /\ DOMAIN cache = 1..Len(cache)
        /\ \A i, j \in 1..Len(cache) : cache[i].id = cache[j].id => i = j
        /\ D \subseteq DOMAIN cache /\ C \subseteq DOMAIN cache /\ C \cap D = {}
        /\ \A i \in C : ~cache[i].dirty
    BY DEF PagesAre, Paged!Dirty
  <1> HIDE DEF C, D
  <1>2. m \in Nat /\ n \in Nat
    <2>1. IsFiniteSet(1..Len(cache)) BY <1>1, Initial
    <2>2. IsFiniteSet(C) /\ IsFiniteSet(D) BY <1>1, <2>1, FS_Subset
    <2> QED BY <2>2, FS_CardinalityType
  <1>3. Kept(cache, C) \in Seq(Page) /\ Kept(cache, D) \in Seq(Page) BY <1>1, KeptIs
  <1>4. KeptBy(f, cache, C) /\ KeptBy(g, cache, D)
    <2>1. (\E e : KeptBy(e, cache, C)) /\ (\E e : KeptBy(e, cache, D)) BY <1>1, KeptIs
    <2> QED BY <2>1
  <1> HIDE DEF f, g, m, n
  <1>5. /\ f \in [1..m -> C] /\ Len(Kept(cache, C)) = m
        /\ \A k \in 1..m : Kept(cache, C)[k] = cache[f[k]]
        /\ \A k, l \in 1..m : k < l => f[k] < f[l]
    BY <1>4 DEF KeptBy, m
  <1>6. /\ g \in [1..n -> D] /\ Len(Kept(cache, D)) = n
        /\ \A k \in 1..n : Kept(cache, D)[k] = cache[g[k]]
        /\ \A k, l \in 1..n : k < l => g[k] < g[l]
    BY <1>4 DEF KeptBy, n
  <1>7. /\ cl \in Seq(Page) /\ Len(cl) = n
        /\ \A k \in 1..n : cl[k] = [cache[g[k]] EXCEPT !.dirty = FALSE]
    <2> DEFINE s == Kept(cache, D)
    <2>1. cl = [k \in 1..n |-> [s[k] EXCEPT !.dirty = FALSE]] BY <1>3, <1>6 DEF Paged!Clean
    <2>2. \A k \in 1..n : [s[k] EXCEPT !.dirty = FALSE] \in Page
      <3>1. \A k \in 1..n : s[k] \in Page BY <1>3, <1>6
      <3>2. \A x \in Page : [x EXCEPT !.dirty = FALSE] \in Page BY DEF Page
      <3> QED BY <3>1, <3>2
    <2> HIDE DEF cl
    <2>3. \A k \in 1..n : cl[k] = [cache[g[k]] EXCEPT !.dirty = FALSE] BY <1>6, <2>1
    <2>4. \A k \in 1..n : cl[k] \in Page BY <2>1, <2>2
    <2> HIDE DEF s
    <2>5. cl \in Seq(Page) /\ Len(cl) = n BY <1>2, <2>1, <2>4
    <2> QED BY <2>3, <2>5
  <1> HIDE DEF cl
  <1>8. /\ t \in Seq(Page) /\ Len(t) = m + n
        /\ \A k \in 1..(m + n) : t[k] = IF k <= m THEN Kept(cache, C)[k] ELSE cl[k - m]
    <2>1. t = Kept(cache, C) \o cl BY DEF C, D, cl
    <2> DEFINE u == Kept(cache, C)
    <2> HIDE DEF u
    <2>2. u \in Seq(Page) /\ Len(u) = m /\ cl \in Seq(Page) /\ Len(cl) = n BY <1>3, <1>5, <1>7 DEF u
    <2>3. /\ t \in Seq(Page) /\ Len(t) = m + n
          /\ \A k \in 1..(m + n) : t[k] = IF k <= m THEN u[k] ELSE cl[k - m]
      <3>1. t = u \o cl BY <2>1 DEF u
      <3>2. /\ u \o cl \in Seq(Page) /\ Len(u \o cl) = Len(u) + Len(cl)
            /\ \A k \in 1..(Len(u) + Len(cl)) :
                 (u \o cl)[k] = IF k <= Len(u) THEN u[k] ELSE cl[k - Len(u)]
        BY <2>2, ConcatIs
      <3> QED BY <2>2, <3>1, <3>2
    <2> QED BY <2>3 DEF u
  <1> DEFINE Comes(k) == /\ at[k] \in 1..Len(cache)
                         /\ t[k] = [cache[at[k]] EXCEPT !.dirty = FALSE]
                         /\ IF k <= m THEN at[k] = f[k] /\ k \in 1..m /\ f[k] \in C
                            ELSE at[k] = g[k - m] /\ k - m \in 1..n /\ g[k - m] \in D
  <1>9. ASSUME NEW k \in 1..(m + n)
        PROVE  Comes(k)
    <2>1. CASE k <= m
      <3>1. k \in 1..m /\ at[k] = f[k] /\ f[k] \in C BY <1>2, <1>5, <2>1
      <3>2. t[k] = cache[f[k]] BY <1>5, <1>8, <2>1, <3>1
      <3>3. \A x \in Page : ~x.dirty => x = [x EXCEPT !.dirty = FALSE] BY DEF Page
      <3>4. cache[f[k]] \in Page /\ ~cache[f[k]].dirty BY <1>1, <3>1
      <3> QED BY <1>1, <2>1, <3>1, <3>2, <3>3, <3>4
    <2>2. CASE ~(k <= m)
      <3>1. k - m \in 1..n /\ at[k] = g[k - m] BY <1>2, <2>2
      <3>2. g[k - m] \in D BY <1>6, <3>1
      <3>3. t[k] = [cache[g[k - m]] EXCEPT !.dirty = FALSE] BY <1>7, <1>8, <2>2, <3>1
      <3> QED BY <1>1, <2>2, <3>1, <3>2, <3>3
    <2> QED BY <2>1, <2>2
  <1> HIDE DEF at
  <1>10. ASSUME NEW k \in 1..(m + n), NEW l \in 1..(m + n), at[k] = at[l] PROVE k = l
    <2>0. Comes(k) /\ Comes(l) BY <1>9
    <2>1. CASE k <= m /\ l <= m
      <3>1. k \in 1..m /\ l \in 1..m /\ f[k] = f[l] BY <2>0, <1>10, <2>1
      <3>2. ~(f[k] < f[l]) /\ ~(f[l] < f[k])
        <4>1. f[k] \in Int BY <1>1, <1>5, <3>1
        <4> QED BY <3>1, <4>1
      <3> QED BY <1>2, <1>5, <3>1, <3>2
    <2>2. CASE ~(k <= m) /\ ~(l <= m)
      <3>1. k - m \in 1..n /\ l - m \in 1..n /\ g[k - m] = g[l - m] BY <2>0, <1>10, <2>2
      <3>2. ~(g[k - m] < g[l - m]) /\ ~(g[l - m] < g[k - m])
        <4>1. g[k - m] \in Int BY <1>1, <1>6, <3>1
        <4> QED BY <3>1, <4>1
      <3>3. k - m = l - m BY <1>2, <1>6, <3>1, <3>2
      <3> QED BY <1>2, <3>3
    <2>3. CASE k <= m /\ ~(l <= m) BY <1>1, <2>0, <1>10, <2>3
    <2>4. CASE ~(k <= m) /\ l <= m BY <1>1, <2>0, <1>10, <2>4
    <2> QED BY <2>1, <2>2, <2>3, <2>4
  <1>11. DOMAIN t = 1..(m + n) BY <1>8
  <1>12. ASSUME NEW k \in 1..(m + n), NEW l \in 1..(m + n), t[k].id = t[l].id PROVE k = l
    <2>1. \A x \in Page : [x EXCEPT !.dirty = FALSE].id = x.id BY DEF Page
    <2>0. Comes(k) /\ Comes(l) BY <1>9
    <2>2. at[k] \in 1..Len(cache) /\ at[l] \in 1..Len(cache) BY <2>0
    <2>3. cache[at[k]] \in Page /\ cache[at[l]] \in Page BY <1>1, <2>2
    <2>4. t[k].id = cache[at[k]].id /\ t[l].id = cache[at[l]].id BY <2>0, <2>1, <2>3
    <2>5. at[k] = at[l] BY <1>1, <1>12, <2>2, <2>4
    <2> QED BY <1>10, <2>5
  <1>13. ASSUME NEW k \in 1..(m + n) PROVE \E i \in DOMAIN cache : t[k] = [cache[i] EXCEPT !.dirty = FALSE]
    <2>1. Comes(k) BY <1>9
    <2> QED BY <1>1, <2>1
  <1> QED BY <1>8, <1>11, <1>12, <1>13

\* The file after a flush.
LEMMA FileFlushed ==
  ASSUME NEW changes, PagesAre(cache, disk, changes),
         NEW S, S = {cache[i].id : i \in Paged!Dirty}
  PROVE  LET d2 == Paged!WriteAll(disk, S)
         IN /\ d2 \in Seq(Contents) /\ Len(d2) = Len(disk) /\ S \in SUBSET PageId
            /\ \A p \in S : p < Len(disk)
            /\ \A p \in PageId : p < Len(disk) =>
                 d2[p + 1] = IF p \in S THEN cache[Paged!Position(p)].val ELSE disk[p + 1]
            /\ \A p \in S : Paged!Position(p) \in Paged!Dirty /\ cache[Paged!Position(p)].id = p
  <1> DEFINE d2 == Paged!WriteAll(disk, S)
             n == Len(disk)
             X == {n} \cup {p + 1 : p \in S}
  <1>1. /\ cache \in Seq(Page) /\ disk \in Seq(Contents) /\ n \in Nat
        /\ \A i, j \in DOMAIN cache : cache[i].id = cache[j].id => i = j
        /\ \A i \in DOMAIN cache : cache[i].id < n
        /\ Paged!Dirty \subseteq DOMAIN cache
    BY DEF PagesAre, Paged!Dirty
  <1>2. S \in SUBSET PageId
    <2>1. \A x \in Page : x.id \in PageId BY DEF Page
    <2> QED BY <1>1, <2>1
  <1>3. \A p \in S : p \in Nat /\ p < n BY <1>1, <1>2 DEF PageId
  <1>4. Max(X) = n
    <2>1. \A x \in X : n >= x /\ x \in Int BY <1>1, <1>3
    <2>2. n \in X OBVIOUS
    <2> HIDE DEF X
    <2>3. \A y \in X : (\A x \in X : y >= x) => y = n BY <1>1, <2>1, <2>2
    <2> QED BY <2>1, <2>2, <2>3 DEF Max
  <1>5. d2 = [i \in 1..n |-> IF i - 1 \in S THEN cache[Paged!Position(i - 1)].val
                             ELSE IF i <= n THEN disk[i] ELSE Zero]
    BY <1>4, PagedCopies DEF Paged!WriteAll
  <1> HIDE DEF d2
  <1>6. ASSUME NEW p \in S PROVE Paged!Position(p) \in Paged!Dirty /\ cache[Paged!Position(p)].id = p
    <2>1. PICK i \in Paged!Dirty : cache[i].id = p OBVIOUS
    <2>2. Paged!Position(p) # 0 BY <1>1, <2>1, PagePosition
    <2>3. Paged!Position(p) \in DOMAIN cache /\ cache[Paged!Position(p)].id = p
      BY <1>1, <2>2, PagePosition
    <2>4. Paged!Position(p) = i BY <1>1, <2>1, <2>3
    <2> QED BY <2>1, <2>3, <2>4
  <1>7. \A i \in 1..n : d2[i] \in Contents
    <2>1. \A p \in S : cache[Paged!Position(p)].val \in Contents
      <3>1. \A x \in Page : x.val \in Contents BY DEF Page
      <3> QED BY <1>1, <1>6, <3>1
    <2>2. \A i \in 1..n : i <= n /\ disk[i] \in Contents BY <1>1
    <2> QED BY <1>5, <2>1, <2>2
  <1> HIDE DEF n
  <1>8. d2 \in Seq(Contents) /\ Len(d2) = n BY <1>1, <1>5, <1>7
  <1>9. ASSUME NEW p \in PageId, p < n
        PROVE  d2[p + 1] = IF p \in S THEN cache[Paged!Position(p)].val ELSE disk[p + 1]
    <2>1. p + 1 \in 1..n /\ (p + 1) - 1 = p /\ p + 1 <= n BY <1>1, <1>9 DEF PageId
    <2> QED BY <1>5, <2>1
  <1> QED BY <1>2, <1>3, <1>6, <1>8, <1>9 DEF d2, n

LEMMA PagesFlush ==
  ASSUME PagesInv, Paged!Flush
  PROVE  /\ PagesInv'
         /\ \A p \in owned : Paged!OnDisk(p) # NoVal \/ pending[p] # NoVal =>
              disk'[p + 1] = IF pending[p] # NoVal THEN Paged!Content(p) ELSE Paged!OnDisk(p)
  <1> USE DEF PagesInv
  <1> DEFINE S == {cache[i].id : i \in Paged!Dirty}
  <1>1. /\ disk' = Paged!WriteAll(disk, S)
        /\ cache' = Kept(cache, DOMAIN cache \ Paged!Dirty) \o Paged!Clean(Kept(cache, Paged!Dirty))
        /\ stored' = [p \in PageId |-> IF p \in S THEN Paged!Content(p) ELSE stored[p]]
        /\ pending' = [p \in PageId |-> IF p \in S THEN NoVal ELSE pending[p]]
        /\ UNCHANGED <<header, nextPage, free, owned>>
    BY PagedCopies DEF Paged!Flush, Paged!Id, PageId
  <1>2. /\ cache \in Seq(Page) /\ disk \in Seq(Contents) /\ pending \in [PageId -> Val \cup {NoVal}]
        /\ Len(disk) \in Nat /\ owned \subseteq PageId
        /\ Paged!Dirty = {i \in DOMAIN cache : cache[i].dirty}
    BY DEF PagesAre, Paged!Dirty, UseIs
  <1>3. /\ disk' \in Seq(Contents) /\ Len(disk') = Len(disk) /\ S \in SUBSET PageId
        /\ \A p \in S : p < Len(disk)
        /\ \A p \in PageId : p < Len(disk) =>
             disk'[p + 1] = IF p \in S THEN cache[Paged!Position(p)].val ELSE disk[p + 1]
        /\ \A p \in S : Paged!Position(p) \in Paged!Dirty /\ cache[Paged!Position(p)].id = p
    <2> DEFINE d2 == Paged!WriteAll(disk, S)
    <2>1. /\ d2 \in Seq(Contents) /\ Len(d2) = Len(disk) /\ S \in SUBSET PageId
          /\ \A p \in S : p < Len(disk)
          /\ \A p \in PageId : p < Len(disk) =>
               d2[p + 1] = IF p \in S THEN cache[Paged!Position(p)].val ELSE disk[p + 1]
          /\ \A p \in S : Paged!Position(p) \in Paged!Dirty /\ cache[Paged!Position(p)].id = p
      <3> HIDE DEF PagesInv
      <3>1. PagesAre(cache, disk, pending) BY DEF PagesInv
      <3> QED BY <3>1, FileFlushed
    <2>2. disk' = d2 BY <1>1
    <2> HIDE DEF d2, S
    <2> QED BY <2>1, <2>2
  <1>4. /\ cache' \in Seq(Page)
        /\ \A k, l \in DOMAIN cache' : cache'[k].id = cache'[l].id => k = l
        /\ \A k \in DOMAIN cache' : \E i \in DOMAIN cache : cache'[k] = [cache[i] EXCEPT !.dirty = FALSE]
    BY <1>1, PagesFlushed
  <1>5. \A p \in S : pending[p] # NoVal /\ Paged!Content(p) = cache[Paged!Position(p)].val
    <2> SUFFICES ASSUME NEW p \in S
                 PROVE  pending[p] # NoVal /\ Paged!Content(p) = cache[Paged!Position(p)].val OBVIOUS
    <2>1. Paged!Position(p) \in DOMAIN cache /\ cache[Paged!Position(p)].dirty
          /\ cache[Paged!Position(p)].id = p BY <1>2, <1>3
    <2>2. pending[p] # NoVal BY <2>1 DEF PagesAre
    <2>3. Paged!Position(p) # 0 BY <1>2, <2>1
    <2> QED BY <2>2, <2>3 DEF Paged!Content
  <1>6. \A p \in PageId \ S : pending[p] = NoVal
    <2> SUFFICES ASSUME NEW p \in PageId, pending[p] # NoVal PROVE p \in S OBVIOUS
    <2>1. PICK i \in DOMAIN cache : cache[i].id = p BY DEF PagesAre
    <2>2. cache[i].dirty BY <2>1 DEF PagesAre
    <2> QED BY <1>2, <2>1, <2>2
  <1>7. PagesAre(cache', disk', pending')
    <2>1. ASSUME NEW k \in DOMAIN cache'
          PROVE  IF cache'[k].id \in S
                 THEN cache'[k].id < Len(disk') /\ ~cache'[k].dirty /\ cache'[k].val = disk'[cache'[k].id + 1]
                 ELSE \E j \in DOMAIN cache : cache'[k] = cache[j]
      <3>1. PICK i \in DOMAIN cache : cache'[k] = [cache[i] EXCEPT !.dirty = FALSE] BY <1>4
      <3>2. cache[i] \in Page BY <1>2
      <3>3. /\ cache'[k].id = cache[i].id /\ cache'[k].val = cache[i].val /\ ~cache'[k].dirty
            /\ cache[i].id \in PageId
        BY <3>1, <3>2 DEF Page
      <3>4. CASE cache[i].id \in S
        <4> DEFINE p == cache[i].id
        <4>1. Paged!Position(p) \in DOMAIN cache /\ cache[Paged!Position(p)].id = p
          BY <1>2, <1>3, <3>4
        <4>2. Paged!Position(p) = i BY <4>1 DEF PagesAre
        <4>3. p < Len(disk) BY <1>3, <3>4
        <4>4. disk'[p + 1] = cache[i].val BY <1>3, <3>3, <3>4, <4>2, <4>3
        <4> QED BY <1>3, <3>3, <3>4, <4>3, <4>4
      <3>5. CASE cache[i].id \notin S
        <4>1. ~cache[i].dirty BY <1>2, <3>5
        <4>2. cache'[k] = cache[i] BY <3>1, <3>2, <4>1 DEF Page
        <4> QED BY <3>3, <3>5, <4>2
      <3> QED BY <3>4, <3>5
    <2>2. pending' = [p \in PageId |-> IF p \notin S /\ \E i \in DOMAIN cache' : cache'[i].id = p
                                       THEN pending[p] ELSE NoVal]
      BY <1>1, <1>6
    <2>3. \A p \in PageId \ S : p < Len(disk) => disk'[p + 1] = disk[p + 1] BY <1>3
    <2> HIDE DEF S
    <2>4. PagesFollow(cache, disk, pending, cache', disk', pending', S)
      BY <1>2, <1>3, <1>4, <2>1, <2>2, <2>3 DEF PagesFollow
    <2> QED BY <2>4, PagesFrom
  <1>8. WrittenIs(stored', disk')
    <2>1. /\ stored \in [PageId -> Contents \cup {NoVal}]
          /\ \A p \in PageId : stored[p] # NoVal => p < Len(disk) /\ disk[p + 1] = stored[p]
      BY DEF WrittenIs
    <2>2. \A p \in S : cache[Paged!Position(p)].val \in Contents
      <3>1. \A x \in Page : x.val \in Contents BY DEF Page
      <3> QED BY <1>2, <1>3, <3>1
    <2> HIDE DEF S
    <2>3. stored' \in [PageId -> Contents \cup {NoVal}] BY <1>1, <1>5, <2>1, <2>2
    <2>4. ASSUME NEW p \in PageId, stored'[p] # NoVal
          PROVE  p < Len(disk') /\ disk'[p + 1] = stored'[p]
      <3>1. CASE p \in S
        <4>1. stored'[p] = cache[Paged!Position(p)].val BY <1>1, <1>5, <3>1
        <4> QED BY <1>3, <3>1, <4>1
      <3>2. CASE p \notin S
        <4>1. stored'[p] = stored[p] BY <1>1, <3>2
        <4> QED BY <1>3, <2>1, <2>4, <3>2, <4>1
      <3> QED BY <3>1, <3>2
    <2> QED BY <2>3, <2>4 DEF WrittenIs
  <1>9. ASSUME NEW p \in owned, Paged!OnDisk(p) # NoVal \/ pending[p] # NoVal
        PROVE  disk'[p + 1] = IF pending[p] # NoVal THEN Paged!Content(p) ELSE Paged!OnDisk(p)
    <2>1. CASE p \in S
      <3>1. p < Len(disk) BY <1>3, <2>1
      <3> QED BY <1>2, <1>3, <1>5, <2>1, <3>1
    <2>2. CASE p \notin S
      <3>1. pending[p] = NoVal BY <1>2, <1>6, <2>2
      <3>2. p < Len(disk) /\ Paged!OnDisk(p) = disk[p + 1] BY <1>9, <3>1 DEF Paged!OnDisk
      <3> QED BY <1>2, <1>3, <2>2, <3>1, <3>2
    <2> QED BY <2>1, <2>2
  <1> QED BY <1>1, <1>7, <1>8, <1>9

LEMMA PagesReopen == ASSUME PagesInv, Paged!Reopen PROVE PagesInv'
  <1> USE DEF PagesInv
  <1>1. /\ nextPage' = header /\ free' = <<>> /\ cache' = <<>>
        /\ pending' = [p \in PageId |-> NoVal] /\ UNCHANGED <<disk, header, owned, stored>>
    BY DEF Paged!Reopen, Paged!Id, PageId
  <1>2. UseIs(free', owned', nextPage') BY <1>1 DEF UseIs
  <1>3. PagesAre(cache', disk', pending') BY <1>1 DEF PagesAre
  <1> QED BY <1>1, <1>2, <1>3

LEMMA PagesStep ==
  ASSUME PagesInv, Paged!Next, ValAssumption, PagesAssumption PROVE PagesInv'
  <1>1. NoVal \notin Val /\ NoVal \notin Contents BY ValAssumption DEF Contents
  <1>2. CASE Paged!AllocatePage BY <1>2, PagesAllocate
  <1>3. CASE Paged!Flush BY <1>3, PagesFlush
  <1>4. CASE Paged!Reopen BY <1>4, PagesReopen
  <1>5. ASSUME NEW p \in PageId, Paged!FreePage(p) \/ Paged!ReadPage(p) PROVE PagesInv'
    BY <1>1, <1>5, PagesFree, PagesRead
  <1>6. ASSUME NEW p \in PageId, NEW v \in Val, Paged!WritePage(p, v) \/ Paged!Modify(p, v) PROVE PagesInv'
    BY <1>1, <1>6, PagesWrite, PagesModify
  <1> QED BY <1>2, <1>3, <1>4, <1>5, <1>6 DEF Paged!Next, Paged!Id, PageId

LEMMA PagesHold ==
  ASSUME PagesInv PROVE Paged!ReadsWhatWasWritten /\ Paged!OwnedPagesSafe
  <1> USE DEF PagesInv
  <1>1. ASSUME NEW p \in owned
        PROVE  IF pending[p] # NoVal THEN Paged!Content(p) = pending[p]
               ELSE stored[p] # NoVal => Paged!Content(p) = stored[p]
    <2>1. cache \in Seq(Page) /\ p \in PageId BY DEF PagesAre, UseIs
    <2> DEFINE n == Paged!Position(p)
    <2>2. CASE n = 0
      <3>1. pending[p] = NoVal BY <2>1, <2>2, PagePosition DEF PagesAre
      <3>2. Paged!Content(p) = Paged!OnDisk(p) BY <2>2 DEF Paged!Content
      <3> QED BY <2>1, <3>1, <3>2 DEF Paged!OnDisk, WrittenIs
    <2>3. CASE n # 0
      <3>1. n \in DOMAIN cache /\ cache[n].id = p BY <2>1, <2>3, PagePosition
      <3>2. Paged!Content(p) = cache[n].val BY <2>3 DEF Paged!Content
      <3>3. IF pending[p] # NoVal THEN cache[n].val = pending[p] ELSE cache[n].val = disk[p + 1]
        BY <3>1 DEF PagesAre
      <3> QED BY <2>1, <3>2, <3>3 DEF WrittenIs
    <2> QED BY <2>2, <2>3
  <1>2. Paged!ReadsWhatWasWritten BY <1>1 DEF Paged!ReadsWhatWasWritten
  <1>3. owned \cap Paged!ToSet(free) = {} BY PagedCopies DEF UseIs
  <1>4. Paged!OwnedPagesSafe BY <1>3 DEF Paged!OwnedPagesSafe, UseIs
  <1> QED BY <1>2, <1>4

-----------------------------------------------------------------------------
(***************************************************************************)
(* The transaction with savepoints.  Applied is a recursive function, so what *)
(* it does one operation at a time comes first (AppliedSteps).  A commit under *)
(* way has made the data what its first operations make of what the callers *)
(* agreed on, while no other user has come in between.                     *)
(***************************************************************************)

LEMMA PointsCopies ==
  /\ \A s, i : Points!RemoveAt(s, i) = RemoveAt(s, i)
  /\ \A S : Points!Min(S) = Min(S)
  BY DEF Points!RemoveAt, RemoveAt, Points!Min, Min

\* f is the records after 0, 1, ..., n of the operations os.
After(m, os, n, f) ==
  f = [k \in 0..n |-> IF k = 0 THEN m ELSE Points!Apply(f[k - 1], os[k])]

LEMMA AfterExists ==
  ASSUME NEW m, NEW os, NEW n \in Nat PROVE \E f : After(m, os, n, f)
  <1> DEFINE T == {k \in Nat : ~ \E f : After(m, os, k, f)}
  <1> SUFFICES ASSUME T # {} PROVE FALSE OBVIOUS
  <1>1. PICK k \in T : \A l \in T : k <= l BY Least
  <1>2. k \in Nat /\ ~ \E f : After(m, os, k, f) OBVIOUS
  <1>3. CASE k = 0
    <2> DEFINE f == [l \in 0..0 |-> m]
    <2>1. \A l \in 0..0 : l = 0 OBVIOUS
    <2>2. f = [l \in 0..0 |-> IF l = 0 THEN m ELSE Points!Apply(f[l - 1], os[l])] BY <2>1
    <2> HIDE DEF f
    <2>3. After(m, os, 0, f) BY <2>2 DEF After
    <2> QED BY <1>2, <1>3, <2>3
  <1>4. CASE k # 0
    <2>1. k - 1 \in Nat /\ ~(k <= k - 1) BY <1>2, <1>4
    <2>2. PICK f : After(m, os, k - 1, f) BY <1>1, <2>1
    <2> DEFINE g == [l \in 0..k |-> IF l = k THEN Points!Apply(f[k - 1], os[k]) ELSE f[l]]
    <2>3. ASSUME NEW l \in 0..k
          PROVE  g[l] = IF l = 0 THEN m ELSE Points!Apply(g[l - 1], os[l])
      <3>1. CASE l = k
        <4>1. k - 1 \in 0..k /\ k - 1 # k BY <2>1
        <4> QED BY <1>4, <3>1, <4>1
      <3>2. CASE l # k
        <4>1. l \in 0..(k - 1) BY <1>2, <3>2
        <4>2. f[l] = IF l = 0 THEN m ELSE Points!Apply(f[l - 1], os[l])
          BY <2>2, <4>1 DEF After
        <4>3. l # 0 => l - 1 \in 0..k /\ l - 1 # k BY <1>2, <3>2, <4>1
        <4> QED BY <3>2, <4>2, <4>3
      <3> QED BY <3>1, <3>2
    <2>4. g = [l \in 0..k |-> g[l]] OBVIOUS
    <2> HIDE DEF g
    <2>5. g = [l \in 0..k |-> IF l = 0 THEN m ELSE Points!Apply(g[l - 1], os[l])] BY <2>3, <2>4
    <2>6. After(m, os, k, g) BY <2>5 DEF After
    <2> QED BY <1>2, <2>6
  <1> QED BY <1>3, <1>4

\* Operations that begin alike lead to the same records.
AlikeUpTo(n, m, os, os2, n2, f, g) ==
  /\ n \in Nat /\ n2 \in Nat /\ n <= n2 /\ \A k \in 1..n : os[k] = os2[k]
  /\ After(m, os, n, f) /\ After(m, os2, n2, g)

LEMMA AfterAgree ==
  ASSUME NEW m, NEW os, NEW os2, NEW n, NEW n2, NEW f, NEW g, AlikeUpTo(n, m, os, os2, n2, f, g)
  PROVE  \A k \in 0..n : f[k] = g[k]
  <1> USE DEF AlikeUpTo
  <1> DEFINE T == {k \in 0..n : f[k] # g[k]}
  <1> SUFFICES ASSUME T # {} PROVE FALSE OBVIOUS
  <1>1. T \in SUBSET Nat OBVIOUS
  <1>2. PICK k \in T : \A l \in T : k <= l BY <1>1, Least
  <1>3. k \in 0..n /\ k \in 0..n2 /\ f[k] # g[k] OBVIOUS
  <1>4. f[k] = IF k = 0 THEN m ELSE Points!Apply(f[k - 1], os[k]) BY <1>3 DEF After
  <1>5. g[k] = IF k = 0 THEN m ELSE Points!Apply(g[k - 1], os2[k]) BY <1>3 DEF After
  <1>6. k # 0 BY <1>3, <1>4, <1>5
  <1>7. k - 1 \in 0..n /\ ~(k <= k - 1) /\ k \in 1..n BY <1>3, <1>6
  <1>8. f[k - 1] = g[k - 1] BY <1>2, <1>7
  <1> QED BY <1>3, <1>4, <1>5, <1>6, <1>7, <1>8

\* What the first k operations do, one after the other.
LEMMA AppliedIs ==
  ASSUME NEW m, NEW S, NEW os \in Seq(S), NEW k \in 0..Len(os), NEW f, After(m, os, Len(os), f)
  PROVE  Points!Applied(m, SubSeq(os, 1, k)) = f[k]
  <1> DEFINE s == SubSeq(os, 1, k)
             g == CHOOSE h : After(m, s, k, h)
  <1>1. Len(os) \in Nat /\ k \in Nat /\ Len(s) = k /\ (\A i \in 1..k : s[i] = os[i]) BY SubSeqProperties
  <1> HIDE DEF s
  <1>2. After(m, s, k, g) BY <1>1, AfterExists
  <1>3. Points!Applied(m, s) = g[k] BY <1>1 DEF Points!Applied, After
  <1> HIDE DEF g
  <1>4. \A i \in 0..k : g[i] = f[i]
    <2>1. \A i \in 1..k : s[i] = os[i] BY <1>1
    <2>2. k <= Len(os) BY <1>1
    <2>3. AlikeUpTo(k, m, s, os, Len(os), g, f) BY <1>1, <1>2, <2>1, <2>2 DEF AlikeUpTo
    <2> QED BY <2>3, AfterAgree
  <1> QED BY <1>1, <1>3, <1>4 DEF s

AppliedTo(m, os, k) == Points!Applied(m, SubSeq(os, 1, k))
                         = Points!Apply(Points!Applied(m, SubSeq(os, 1, k - 1)), os[k])

LEMMA AppliedSteps ==
  ASSUME NEW m, NEW S, NEW os \in Seq(S)
  PROVE  /\ Points!Applied(m, SubSeq(os, 1, 0)) = m
         /\ \A k \in 1..Len(os) : AppliedTo(m, os, k)
         /\ Points!Applied(m, SubSeq(os, 1, Len(os))) = Points!Applied(m, os)
  <1>1. Len(os) \in Nat OBVIOUS
  <1>2. PICK f : After(m, os, Len(os), f) BY <1>1, AfterExists
  <1>3. \A k \in 0..Len(os) : Points!Applied(m, SubSeq(os, 1, k)) = f[k] BY <1>2, AppliedIs
  <1>4. \A k \in 0..Len(os) : f[k] = IF k = 0 THEN m ELSE Points!Apply(f[k - 1], os[k])
    BY <1>1, <1>2 DEF After
  <1>5. \A k \in 1..Len(os) : k \in 0..Len(os) /\ k - 1 \in 0..Len(os) /\ k # 0 BY <1>1
  <1>6. Points!Applied(m, SubSeq(os, 1, 0)) = m BY <1>1, <1>3, <1>4
  <1>7. \A k \in 1..Len(os) : Points!Applied(m, SubSeq(os, 1, k))
          = Points!Apply(Points!Applied(m, SubSeq(os, 1, k - 1)), os[k])
    BY <1>3, <1>4, <1>5
  <1>8. SubSeq(os, 1, Len(os)) = os BY SubSeqFull
  <1> QED BY <1>6, <1>7, <1>8 DEF AppliedTo

Records == [Key -> Val \cup {NoVal}]
Point == [name : Label, count : Nat, mark : Seq(Points!Op)]

\* A savepoint stands for the operations it was set after.
Remember(sp, os) ==
  /\ sp \in Seq(Point) /\ os \in Seq(Points!Op)
  /\ \A i \in DOMAIN sp : sp[i].count <= Len(os) /\ SubSeq(os, 1, sp[i].count) = sp[i].mark
  /\ \A i, j \in DOMAIN sp : j < i => sp[j].count <= sp[i].count

\* While nobody has interfered, the data are what the callers know, and what the first
\* operations of a commit under way have made of it.
PointsInv ==
  /\ data \in Records /\ initial \in Records \cup {NoVal} /\ pos \in Nat
  /\ active \in BOOLEAN /\ crossed \in BOOLEAN
  /\ Remember(savepoints, ops)
  /\ active <=> initial # NoVal
  /\ ~crossed /\ active => initial = agreed
  /\ ~crossed /\ pos = 0 => data = agreed
  /\ ~crossed /\ pos > 0 => /\ active /\ pos <= Len(ops) + 1
                            /\ data = Points!Applied(agreed, SubSeq(ops, 1, pos - 1))

LEMMA ApplyType ==
  ASSUME NEW m \in Records, NEW o \in Points!Op PROVE Points!Apply(m, o) \in Records
  <1>1. o.op = "insert" => o.val \in Val BY DEF Points!Op
  <1>2. o.op = "update" => o.val \in Val BY DEF Points!Op
  <1>3. \A x, v : v \in Val \cup {NoVal} => [m EXCEPT ![x] = v] \in Records BY DEF Records
  <1>4. CASE o.op = "insert" BY <1>1, <1>3, <1>4 DEF Points!Apply
  <1>5. CASE o.op = "update" /\ m[o.id] # NoVal BY <1>2, <1>3, <1>5 DEF Points!Apply
  <1>6. CASE o.op = "delete" BY <1>3, <1>6 DEF Points!Apply
  <1>7. CASE o.op # "insert" /\ ~(o.op = "update" /\ m[o.id] # NoVal) /\ o.op # "delete"
    BY <1>7 DEF Points!Apply
  <1> QED BY <1>4, <1>5, <1>6, <1>7

LEMMA FirstPoint ==
  ASSUME NEW n, savepoints \in Seq(Point), Points!First(n) # 0
  PROVE  Points!First(n) \in 1..Len(savepoints)
  <1> DEFINE I == {i \in 1..Len(savepoints) : savepoints[i].name = n}
  <1>1. Points!First(n) = IF I # {} THEN Min(I) ELSE 0
    BY DEF Points!First, Points!SelectInSeq, Points!Min, Min
  <1>2. I \in SUBSET Nat /\ I \subseteq 1..Len(savepoints) OBVIOUS
  <1>3. I # {} => Min(I) \in I BY <1>2, First
  <1> QED BY <1>1, <1>2, <1>3

\* Fewer savepoints remember as well.
LEMMA RememberFewer ==
  ASSUME NEW sp, NEW os, Remember(sp, os), NEW t \in Seq(Point), Picked(t, sp)
  PROVE  Remember(t, os)
  <1>1. sp \in Seq(Point) BY DEF Remember
  <1>2. PICK e \in [1..Len(t) -> 1..Len(sp)] :
          /\ \A k, l \in 1..Len(t) : k < l => e[k] < e[l]
          /\ \A k \in 1..Len(t) : t[k] = sp[e[k]]
    BY DEF Picked
  <1>3. Len(t) \in Nat /\ Len(sp) \in Nat /\ DOMAIN t = 1..Len(t) /\ DOMAIN sp = 1..Len(sp) BY <1>1
  <1>4. \A k \in 1..Len(t) : e[k] \in 1..Len(sp) /\ t[k] = sp[e[k]] BY <1>2
  <1> QED BY <1>2, <1>3, <1>4 DEF Remember

\* The savepoints before one, over the operations it was set after.
LEMMA RememberBefore ==
  ASSUME NEW sp, NEW os, Remember(sp, os), NEW n \in 1..Len(sp)
  PROVE  Remember(SubSeq(sp, 1, n - 1), SubSeq(os, 1, sp[n].count))
  <1> DEFINE t == SubSeq(sp, 1, n - 1)
             c == sp[n].count
             q == SubSeq(os, 1, c)
  <1>1. sp \in Seq(Point) /\ os \in Seq(Points!Op) /\ Len(sp) \in Nat /\ DOMAIN sp = 1..Len(sp)
        /\ Len(os) \in Nat
    BY DEF Remember
  <1>2. /\ t \in Seq(Point) /\ Len(t) = n - 1 /\ DOMAIN t = 1..(n - 1)
        /\ \A i \in 1..(n - 1) : t[i] = sp[i]
    BY <1>1
  <1>3. sp[n] \in Point BY <1>1
  <1>4. c \in 0..Len(os)
    <2>1. c \in Nat BY <1>3 DEF Point
    <2> QED BY <1>1, <2>1 DEF Remember
  <1> HIDE DEF c, t
  <1>5. q \in Seq(Points!Op) /\ Len(q) = c /\ (\A i \in 1..c : q[i] = os[i]) BY <1>1, <1>4, SubSeqProperties
  <1>6. ASSUME NEW i \in 1..(n - 1)
        PROVE  t[i].count <= Len(q) /\ SubSeq(q, 1, t[i].count) = t[i].mark
    <2>1. i \in 1..Len(sp) /\ i < n BY <1>1
    <2>2. sp[i] \in Point BY <1>1, <2>1
    <2>3. sp[i].count \in Nat BY <2>2 DEF Point
    <2>4. sp[i].count <= c BY <1>1, <2>1 DEF Remember, c
    <2>5. SubSeq(os, 1, sp[i].count) = sp[i].mark BY <1>1, <2>1 DEF Remember
    <2>6. SubSeq(q, 1, sp[i].count) = SubSeq(os, 1, sp[i].count)
      <3> DEFINE d == sp[i].count
      <3>1. d \in 0..c BY <1>4, <2>3, <2>4
      <3> HIDE DEF d, q
      <3>2. /\ SubSeq(q, 1, d) \in Seq(Points!Op) /\ Len(SubSeq(q, 1, d)) = d
            /\ \A k \in 1..d : SubSeq(q, 1, d)[k] = q[k]
        BY <1>4, <1>5, <3>1, SubSeqProperties
      <3>3. /\ SubSeq(os, 1, d) \in Seq(Points!Op) /\ Len(SubSeq(os, 1, d)) = d
            /\ \A k \in 1..d : SubSeq(os, 1, d)[k] = os[k]
        BY <1>1, <1>4, <3>1, SubSeqProperties
      <3>4. \A k \in 1..d : k \in 1..c BY <1>4, <3>1
      <3>5. SubSeq(q, 1, d) = SubSeq(os, 1, d) BY <1>5, <3>2, <3>3, <3>4, SeqEqual
      <3> QED BY <3>5 DEF d
    <2> QED BY <1>2, <1>5, <2>4, <2>5, <2>6
  <1>7. \A i, j \in 1..(n - 1) : j < i => t[j].count <= t[i].count
    <2>1. \A i \in 1..(n - 1) : i \in 1..Len(sp) BY <1>1
    <2> QED BY <1>1, <1>2, <2>1 DEF Remember
  <1>8. Remember(t, q) BY <1>2, <1>5, <1>6, <1>7 DEF Remember
  <1> QED BY <1>8 DEF t, q, c

LEMMA RememberAppend ==
  ASSUME NEW sp, NEW os, Remember(sp, os), NEW o \in Points!Op
  PROVE  Remember(sp, Append(os, o))
  <1>1. sp \in Seq(Point) /\ os \in Seq(Points!Op) /\ Len(os) \in Nat BY DEF Remember
  <1> DEFINE q == Append(os, o)
  <1>2. q \in Seq(Points!Op) /\ Len(q) = Len(os) + 1 /\ \A k \in 1..Len(os) : q[k] = os[k] BY <1>1
  <1> HIDE DEF q
  <1>3. ASSUME NEW i \in DOMAIN sp
        PROVE  sp[i].count <= Len(q) /\ SubSeq(q, 1, sp[i].count) = sp[i].mark
    <2> DEFINE d == sp[i].count
    <2>1. sp[i] \in Point BY <1>1
    <2>2. d \in 0..Len(os)
      <3>1. d \in Nat BY <2>1 DEF Point
      <3> QED BY <1>1, <3>1 DEF Remember
    <2> HIDE DEF d
    <2>3. /\ SubSeq(q, 1, d) \in Seq(Points!Op) /\ Len(SubSeq(q, 1, d)) = d
          /\ \A k \in 1..d : SubSeq(q, 1, d)[k] = q[k]
      <3>1. d \in 0..Len(q) BY <1>1, <1>2, <2>2
      <3> QED BY <1>2, <2>2, <3>1, SubSeqProperties
    <2>4. /\ SubSeq(os, 1, d) \in Seq(Points!Op) /\ Len(SubSeq(os, 1, d)) = d
          /\ \A k \in 1..d : SubSeq(os, 1, d)[k] = os[k]
      BY <1>1, <2>2, SubSeqProperties
    <2>5. \A k \in 1..d : k \in 1..Len(os) BY <1>1, <2>2
    <2>6. SubSeq(q, 1, d) = SubSeq(os, 1, d) BY <1>2, <2>3, <2>4, <2>5, SeqEqual
    <2>7. SubSeq(os, 1, d) = sp[i].mark BY DEF Remember, d
    <2>8. d <= Len(q) BY <1>1, <1>2, <2>2
    <2> QED BY <2>6, <2>7, <2>8 DEF d
  <1>4. Remember(sp, q) BY <1>1, <1>2, <1>3 DEF Remember
  <1> QED BY <1>4 DEF q

LEMMA RememberSet ==
  ASSUME NEW sp, NEW os, Remember(sp, os), NEW n \in Label
  PROVE  Remember(Append(sp, [name |-> n, count |-> Len(os), mark |-> os]), os)
  <1> DEFINE x == [name |-> n, count |-> Len(os), mark |-> os]
             t == Append(sp, x)
             m == Len(sp)
  <1>1. sp \in Seq(Point) /\ os \in Seq(Points!Op) /\ Len(os) \in Nat /\ m \in Nat /\ DOMAIN sp = 1..m
    BY DEF Remember
  <1>2. x \in Point /\ x.count = Len(os) /\ x.mark = os BY <1>1 DEF Point
  <1> HIDE DEF x
  <1>3. /\ t \in Seq(Point) /\ DOMAIN t = 1..(m + 1) /\ t[m + 1] = x /\ \A i \in 1..m : t[i] = sp[i]
    BY <1>1, <1>2
  <1> HIDE DEF t, m
  <1>4. \A i \in 1..(m + 1) : i \in 1..m \/ i = m + 1 BY <1>1
  <1>5. SubSeq(os, 1, Len(os)) = os BY <1>1, SubSeqFull
  <1>6. \A i \in 1..m : sp[i].count <= Len(os) /\ SubSeq(os, 1, sp[i].count) = sp[i].mark
    BY <1>1 DEF Remember
  <1>7. \A i \in 1..(m + 1) : t[i].count <= Len(os) /\ SubSeq(os, 1, t[i].count) = t[i].mark
    BY <1>1, <1>2, <1>3, <1>4, <1>5, <1>6
  <1>8. ASSUME NEW i \in 1..(m + 1), NEW j \in 1..(m + 1), j < i PROVE t[j].count <= t[i].count
    <2>1. j \in 1..m BY <1>1, <1>8
    <2>2. CASE i = m + 1 BY <1>2, <1>3, <1>6, <2>1, <2>2
    <2>3. CASE i \in 1..m BY <1>1, <1>3, <1>8, <2>1, <2>3 DEF Remember
    <2> QED BY <1>4, <2>2, <2>3
  <1>9. Remember(t, os) BY <1>1, <1>3, <1>7, <1>8 DEF Remember
  <1> QED BY <1>9 DEF t, x

LEMMA RememberNothing == Remember(<<>>, <<>>)
  BY DEF Remember

LEMMA PointsInit == ASSUME Points!Init PROVE PointsInv
  <1>1. /\ data = [i \in Key |-> NoVal] /\ agreed = data /\ initial = NoVal /\ active = FALSE
        /\ ops = <<>> /\ savepoints = <<>> /\ pos = 0 /\ crossed = FALSE
    BY DEF Points!Init
  <1>2. data \in Records BY <1>1 DEF Records
  <1>3. Remember(savepoints, ops) BY <1>1, RememberNothing
  <1>4. active \in BOOLEAN /\ crossed \in BOOLEAN BY <1>1
  <1>5. active <=> initial # NoVal BY <1>1
  <1>6. ~active /\ ~crossed BY <1>1
  <1>7. pos \in Nat /\ ~(pos > 0) BY <1>1
  <1>8. /\ ~crossed /\ active => initial = agreed
        /\ ~crossed /\ pos = 0 => data = agreed
        /\ ~crossed /\ pos > 0 => /\ active /\ pos <= Len(ops) + 1
                                  /\ data = Points!Applied(agreed, SubSeq(ops, 1, pos - 1))
    BY <1>1, <1>6, <1>7
  <1> QED BY <1>1, <1>2, <1>3, <1>4, <1>5, <1>8 DEF PointsInv

LEMMA PointsStep == ASSUME PointsInv, Points!Next, KeyAssumption PROVE PointsInv'
  <1> USE DEF PointsInv, Points!Committing
  <1>1. NoVal \notin Records /\ ops \in Seq(Points!Op) /\ Len(ops) \in Nat /\ savepoints \in Seq(Point)
    BY KeyAssumption DEF Records, Remember
  <1>2. CASE Points!Begin
    <2>1. /\ pos = 0 /\ initial' = data /\ active' = TRUE /\ ops' = <<>> /\ savepoints' = <<>>
          /\ crossed' = FALSE /\ agreed' = (IF crossed THEN data ELSE agreed) /\ UNCHANGED <<data, pos>>
      BY <1>2 DEF Points!Begin
    <2>2. Remember(savepoints', ops') BY <2>1, RememberNothing
    <2>3. active' /\ ~crossed' /\ active' \in BOOLEAN /\ crossed' \in BOOLEAN BY <2>1
    <2>4. initial' = agreed' /\ data' = agreed' BY <2>1
    <2>5. initial' \in Records /\ initial' # NoVal /\ data' \in Records /\ pos' = 0 BY <1>1, <2>1
    <2> QED BY <2>2, <2>3, <2>4, <2>5
  <1>3. CASE Points!CommitStart
    <2>1. SubSeq(ops, 1, 0) = SubSeq(ops', 1, pos' - 1) BY <1>3 DEF Points!CommitStart
    <2>2. Points!Applied(agreed, SubSeq(ops, 1, 0)) = agreed BY <1>1, AppliedSteps
    <2>3. /\ active /\ pos = 0 /\ pos' = 1
          /\ UNCHANGED <<data, active, ops, savepoints, initial, agreed, crossed>>
      BY <1>3 DEF Points!CommitStart
    <2> QED BY <1>1, <2>1, <2>2, <2>3
  <1>4. CASE Points!CommitApply
    <2>1. /\ pos > 0 /\ pos <= Len(ops) /\ data' = Points!Apply(data, ops[pos]) /\ pos' = pos + 1
          /\ UNCHANGED <<active, ops, savepoints, initial, agreed, crossed>>
      BY <1>4 DEF Points!CommitApply
    <2>2. pos \in 1..Len(ops) /\ ops[pos] \in Points!Op BY <1>1, <2>1
    <2>3. data' \in Records BY <2>1, <2>2, ApplyType
    <2>4. Points!Applied(agreed, SubSeq(ops, 1, pos))
            = Points!Apply(Points!Applied(agreed, SubSeq(ops, 1, pos - 1)), ops[pos])
      <3> DEFINE k == pos
      <3>1. k \in 1..Len(ops) BY <2>2
      <3> HIDE DEF PointsInv, k
      <3>2. AppliedTo(agreed, ops, k) BY <1>1, <3>1, AppliedSteps
      <3> QED BY <3>2 DEF k, AppliedTo
    <2>5. pos' - 1 = pos /\ pos' > 0 /\ pos' # 0 /\ pos' \in Nat /\ pos' <= Len(ops) + 1 BY <1>1, <2>1
    <2>6. ~crossed => data' = Points!Applied(agreed, SubSeq(ops, 1, pos)) BY <2>1, <2>4
    <2> QED BY <2>1, <2>3, <2>5, <2>6
  <1>5. CASE Points!CommitReturn
    <2>1. /\ pos > 0 /\ pos > Len(ops) /\ active' = FALSE /\ ops' = <<>> /\ savepoints' = <<>>
          /\ initial' = NoVal /\ pos' = 0 /\ agreed' = Points!Applied(agreed, ops)
          /\ UNCHANGED <<data, crossed>>
      BY <1>5 DEF Points!CommitReturn, Points!Cleanup
    <2>2. ~crossed => data = agreed'
      <3> SUFFICES ASSUME ~crossed PROVE data = agreed' OBVIOUS
      <3>1. pos - 1 = Len(ops) BY <1>1, <2>1
      <3>2. data = Points!Applied(agreed, SubSeq(ops, 1, Len(ops))) BY <2>1, <3>1
      <3>3. Points!Applied(agreed, SubSeq(ops, 1, Len(ops))) = Points!Applied(agreed, ops)
        BY <1>1, AppliedSteps
      <3> QED BY <2>1, <3>2, <3>3
    <2>3. Remember(savepoints', ops') BY <2>1, RememberNothing
    <2>4. ~active' /\ active' \in BOOLEAN BY <2>1
    <2>5. crossed' <=> crossed BY <2>1
    <2> QED BY <2>1, <2>2, <2>3, <2>4, <2>5
  <1>6. CASE Points!CommitFail
    <2>1. /\ pos > 0 /\ data' = Points!Restored /\ active' = FALSE /\ ops' = <<>> /\ savepoints' = <<>>
          /\ initial' = NoVal /\ pos' = 0 /\ UNCHANGED <<agreed, crossed>>
      BY <1>6 DEF Points!CommitFail, Points!Cleanup
    <2>2. data' \in Records /\ (~crossed => data' = agreed) BY <2>1 DEF Points!Restored
    <2>3. Remember(savepoints', ops') BY <2>1, RememberNothing
    <2>4. ~active' /\ active' \in BOOLEAN BY <2>1
    <2>5. crossed' <=> crossed BY <2>1
    <2> QED BY <2>1, <2>2, <2>3, <2>4, <2>5
  <1>7. CASE Points!Rollback
    <2>1. /\ initial # NoVal /\ data' = initial /\ active' = FALSE /\ ops' = <<>> /\ savepoints' = <<>>
          /\ initial' = NoVal /\ crossed' = (crossed \/ pos > 0) /\ UNCHANGED pos
          /\ agreed' = IF pos > 0 THEN Points!Applied(agreed, ops) ELSE agreed
      BY <1>7 DEF Points!Rollback, Points!Cleanup, Points!Restored
    <2>2. ~crossed' => ~crossed /\ pos = 0 /\ active BY <1>1, <2>1
    <2>3. Remember(savepoints', ops') BY <2>1, RememberNothing
    <2>4. ~active' /\ active' \in BOOLEAN /\ crossed' \in BOOLEAN BY <2>1
    <2>5. data' \in Records BY <1>1, <2>1
    <2>6. ~crossed' => data' = agreed' /\ pos' = 0 BY <2>1, <2>2
    <2> QED BY <2>1, <2>3, <2>4, <2>5, <2>6
  <1>8. ASSUME NEW o \in Points!Op, Points!Buffer(o) PROVE PointsInv'
    <2>1. /\ pos = 0 /\ ops' = Append(ops, o)
          /\ UNCHANGED <<data, active, savepoints, initial, pos, agreed, crossed>>
      BY <1>8 DEF Points!Buffer
    <2>2. Remember(savepoints, Append(ops, o)) BY RememberAppend
    <2> QED BY <2>1, <2>2
  <1>9. ASSUME NEW n \in Label, Points!SetSavepoint(n) PROVE PointsInv'
    <2>1. /\ savepoints' = Append(savepoints, [name |-> n, count |-> Len(ops), mark |-> ops])
          /\ UNCHANGED <<data, active, ops, initial, pos, agreed, crossed>>
      BY <1>9 DEF Points!SetSavepoint
    <2>2. Remember(savepoints', ops) BY <2>1, RememberSet
    <2> QED BY <2>1, <2>2
  <1>10. ASSUME NEW n \in Label, Points!RollbackTo(n) PROVE PointsInv'
    <2> DEFINE f == Points!First(n)
    <2>1. /\ pos = 0 /\ f # 0 /\ ops' = SubSeq(ops, 1, savepoints[f].count)
          /\ savepoints' = SubSeq(savepoints, 1, f - 1)
          /\ UNCHANGED <<data, active, initial, pos, agreed, crossed>>
      BY <1>10 DEF Points!RollbackTo
    <2>2. f \in 1..Len(savepoints) BY <1>1, <2>1, FirstPoint
    <2> HIDE DEF f
    <2>3. Remember(savepoints', ops') BY <2>1, <2>2, RememberBefore
    <2> QED BY <2>1, <2>3
  <1>11. ASSUME NEW n \in Label, Points!ReleaseSavepoint(n) PROVE PointsInv'
    <2> DEFINE f == Points!First(n)
    <2>1. /\ f # 0 /\ savepoints' = RemoveAt(savepoints, f)
          /\ UNCHANGED <<data, active, ops, initial, pos, agreed, crossed>>
      BY <1>11, PointsCopies DEF Points!ReleaseSavepoint
    <2>2. f \in 1..Len(savepoints) BY <1>1, <2>1, FirstPoint
    <2> HIDE DEF f
    <2>3. savepoints' \in Seq(Point) /\ Picked(savepoints', savepoints)
      BY <1>1, <2>1, <2>2, RemoveAtIs, RemovePicked
    <2>4. Remember(savepoints', ops) BY <2>3, RememberFewer
    <2> QED BY <2>1, <2>4
  <1> QED BY <1>2, <1>3, <1>4, <1>5, <1>6, <1>7, <1>8, <1>9, <1>10, <1>11 DEF Points!Next

LEMMA PointsHold ==
  ASSUME PointsInv PROVE Points!SavepointsRemember /\ Points!CommitTellsTruth
  <1>1. Points!CommitTellsTruth BY DEF Points!CommitTellsTruth, PointsInv, Points!Committing
  <1>2. Remember(savepoints, ops) BY DEF PointsInv
  <1>3. savepoints \in Seq(Point) BY <1>2 DEF Remember
  <1>4. ASSUME NEW i \in DOMAIN savepoints, NEW j \in 1..i
        PROVE  savepoints[j].count <= savepoints[i].count
    <2>1. i \in 1..Len(savepoints) /\ j \in 1..Len(savepoints) /\ DOMAIN savepoints = 1..Len(savepoints)
      BY <1>3
    <2>2. savepoints[i] \in Point BY <1>3
    <2>3. savepoints[i].count \in Nat BY <2>2 DEF Point
    <2>4. CASE j = i BY <2>3, <2>4
    <2>5. CASE j < i BY <1>2, <2>1, <2>5 DEF Remember
    <2> QED BY <2>1, <2>4, <2>5
  <1>5. Points!SavepointsRemember BY <1>2, <1>4 DEF Points!SavepointsRemember, Remember
  <1> QED BY <1>1, <1>5

-----------------------------------------------------------------------------
(***************************************************************************)
(* Versions: what is seen of a list of versions at a time, and what trimming *)
(* leaves of it.                                                           *)
(***************************************************************************)

\* k is the last version before the first one that is younger than ts.
SeenAt(vs, ts, k) ==
  /\ k \in 0..Len(vs) /\ \A j \in 1..k : vs[j].at <= ts
  /\ k < Len(vs) => ~(vs[k + 1].at <= ts)

LEMMA VisibleIs ==
  ASSUME NEW S, NEW vs \in Seq(S), NEW ts, NEW k, SeenAt(vs, ts, k)
  PROVE  VisibleIndex(vs, ts) = k
  <1>1. k \in 0..Len(vs) /\ k \in Nat /\ Len(vs) \in Nat /\ DOMAIN vs = 1..Len(vs) BY DEF SeenAt
  <1>2. {i \in DOMAIN vs : \A j \in 1..i : vs[j].at <= ts} = 1..k
    <2>1. ASSUME NEW i \in 1..k PROVE i \in DOMAIN vs /\ \A j \in 1..i : vs[j].at <= ts
      <3>1. \A j \in 1..i : j \in 1..k BY <1>1
      <3> QED BY <1>1, <3>1 DEF SeenAt
    <2>2. ASSUME NEW i \in DOMAIN vs, \A j \in 1..i : vs[j].at <= ts PROVE i \in 1..k
      <3> SUFFICES ASSUME ~(i <= k) PROVE FALSE BY <1>1
      <3>1. k + 1 \in 1..i /\ k < Len(vs) BY <1>1
      <3> QED BY <2>2, <3>1 DEF SeenAt
    <2> QED BY <2>1, <2>2
  <1> QED BY <1>1, <1>2, Initial DEF VisibleIndex

LEMMA Visible ==
  ASSUME NEW S, NEW vs \in Seq(S), NEW ts PROVE SeenAt(vs, ts, VisibleIndex(vs, ts))
  <1> DEFINE T == {k \in Nat : k >= Len(vs) \/ ~(vs[k + 1].at <= ts)}
  <1>1. Len(vs) \in T BY DEF SeenAt
  <1>2. PICK k \in T : \A l \in T : k <= l BY <1>1, Least
  <1>3. k \in 0..Len(vs) BY <1>1, <1>2
  <1>4. ASSUME NEW j \in 1..k PROVE vs[j].at <= ts
    <2>1. j - 1 \in Nat /\ ~(k <= j - 1) /\ (j - 1) + 1 = j BY <1>3
    <2>2. j - 1 \notin T BY <1>2, <2>1
    <2> QED BY <2>1, <2>2
  <1>5. SeenAt(vs, ts, k) BY <1>3, <1>4 DEF SeenAt
  <1> QED BY <1>5, VisibleIs

\* Trimming a sequence that is too long leaves the first version and the last ones.
TrimmedTo(t, vs, h) ==
  /\ h \in 1..(Len(vs) - 2) /\ Len(t) = h + 1 /\ t[1] = vs[1]
  /\ \A k \in 2..(h + 1) : t[k] = vs[Len(vs) - h + k - 1]

LEMMA TrimIs ==
  ASSUME NEW S, NEW vs \in Seq(S), NEW max \in Nat, max >= 2
  PROVE  /\ Trim(vs, max) \in Seq(S)
         /\ Len(vs) <= max => Trim(vs, max) = vs
         /\ Len(vs) > max => TrimmedTo(Trim(vs, max), vs, max \div 2)
  <1> DEFINE n == Len(vs)
             h == max \div 2
             t == Trim(vs, max)
  <1>1. n \in Nat /\ h \in Nat /\ h >= 1 /\ 2 * h <= max OBVIOUS
  <1>2. n <= max => t = vs BY <1>1 DEF Trim
  <1>3. ASSUME n > max PROVE t \in Seq(S) /\ TrimmedTo(t, vs, h)
    <2> DEFINE f == SubSeq(vs, 1, 1)
               l == SubSeq(vs, n - h + 1, n)
    <2>1. h \in 1..(n - 2) BY <1>1, <1>3
    <2>2. t = f \o l BY <1>1, <1>3 DEF Trim, LastOf
    <2>3. f \in Seq(S) /\ Len(f) = 1 /\ f[1] = vs[1] BY <1>1, <1>3
    <2>4. l \in Seq(S) /\ Len(l) = h /\ \A k \in 1..h : l[k] = vs[n - h + k]
      <3> HIDE DEF h
      <3>1. n - h + 1 \in 1..n BY <1>1, <2>1
      <3>2. l \in Seq(S) /\ Len(l) = n - (n - h + 1) + 1 BY <1>1, <2>1, <3>1
      <3>3. \A k \in 1..h : l[k] = vs[(n - h + 1) + k - 1] BY <1>1, <2>1, <3>1
      <3>4. \A k \in 1..h : (n - h + 1) + k - 1 = n - h + k BY <1>1
      <3>5. n - (n - h + 1) + 1 = h BY <1>1
      <3> QED BY <3>2, <3>3, <3>4, <3>5
    <2> HIDE DEF f, l, t, h
    <2>5. /\ f \o l \in Seq(S) /\ Len(f \o l) = Len(f) + Len(l)
          /\ \A k \in 1..(Len(f) + Len(l)) : (f \o l)[k] = IF k <= Len(f) THEN f[k] ELSE l[k - Len(f)]
      BY <2>3, <2>4, ConcatIs
    <2>6. t \in Seq(S) /\ Len(t) = h + 1 /\ t[1] = vs[1] BY <1>1, <2>2, <2>3, <2>4, <2>5
    <2>7. ASSUME NEW k \in 2..(h + 1) PROVE t[k] = vs[n - h + k - 1]
      <3>1. k - 1 \in 1..h /\ n - h + (k - 1) = n - h + k - 1 /\ k \in 1..(1 + h) /\ ~(k <= 1)
        BY <1>1
      <3>2. t[k] = l[k - 1] BY <2>2, <2>3, <2>4, <2>5, <3>1
      <3> QED BY <2>4, <3>1, <3>2
    <2> QED BY <2>1, <2>6, <2>7 DEF TrimmedTo
  <1>4. n <= max \/ n > max BY <1>1
  <1> QED BY <1>2, <1>3, <1>4

LEMMA TrimPicked ==
  ASSUME NEW S, NEW vs \in Seq(S), NEW max \in Nat, max >= 2
  PROVE  LET t == Trim(vs, max)
         IN t \in Seq(S) /\ Picked(t, vs) /\ (vs # <<>> => t # <<>> /\ t[Len(t)] = vs[Len(vs)])
  <1> DEFINE n == Len(vs)
             t == Trim(vs, max)
  <1>1. n \in Nat /\ t \in Seq(S) BY TrimIs
  <1>2. CASE n <= max
    <2>1. t = vs BY <1>2, TrimIs
    <2> DEFINE e == [k \in 1..n |-> k]
    <2>2. e \in [1..n -> 1..n] /\ (\A k, l \in 1..n : k < l => e[k] < e[l]) /\ \A k \in 1..n : vs[k] = vs[e[k]]
      OBVIOUS
    <2> HIDE DEF e
    <2>3. Picked(vs, vs) BY <2>2 DEF Picked
    <2> QED BY <1>1, <2>1, <2>3
  <1>3. CASE n > max
    <2> DEFINE h == max \div 2
               e == [k \in 1..(h + 1) |-> IF k = 1 THEN 1 ELSE n - h + k - 1]
    <2>1. TrimmedTo(t, vs, h) BY <1>3, TrimIs
    <2> HIDE DEF t, h
    <2>2. /\ h \in 1..(n - 2) /\ Len(t) = h + 1 /\ t[1] = vs[1]
          /\ \A k \in 2..(h + 1) : t[k] = vs[n - h + k - 1]
      BY <2>1 DEF TrimmedTo
    <2>3. e \in [1..(h + 1) -> 1..n] BY <1>1, <2>2
    <2>4. \A k, l \in 1..(h + 1) : k < l => e[k] < e[l] BY <1>1, <2>2
    <2>5. \A k \in 1..(h + 1) : t[k] = vs[e[k]] BY <1>1, <2>2
    <2> HIDE DEF e
    <2>6. Picked(t, vs) BY <2>2, <2>3, <2>4, <2>5 DEF Picked
    <2>7. t[Len(t)] = vs[n] /\ t # <<>>
      <3>1. h + 1 \in 2..(h + 1) /\ n - h + (h + 1) - 1 = n BY <1>1, <2>2
      <3>2. t[h + 1] = vs[n] BY <2>2, <3>1
      <3> QED BY <1>1, <2>2, <3>2
    <2> QED BY <1>1, <2>6, <2>7 DEF t
  <1> QED BY <1>1, <1>2, <1>3

-----------------------------------------------------------------------------
(***************************************************************************)
(* The multi-version store.  A chain is a choice of the versions written, in *)
(* their order, with the last of them; Arrange, which sorts the chain that gc *)
(* has put together, then changes nothing.  An id that was collected whole and *)
(* used again begins again with number 1, and is left out (again).         *)
(***************************************************************************)

Ver == [ver : Nat, val : Val \cup {NoVal}, at : Nat, dead : BOOLEAN]

LEMMA MvccCardinality == \A S : Mvcc!Cardinality(S) = Cardinality(S)
  BY DEF Mvcc!Cardinality, Cardinality

LEMMA MvccCopies ==
  /\ \A vs, max : Mvcc!Trim(vs, max) = Trim(vs, max)
  /\ \A vs, ts : Mvcc!VisibleIndex(vs, ts) = VisibleIndex(vs, ts)
  /\ \A vs, i, none : Mvcc!Shown(vs, i, none) = Shown(vs, i, none)
  /\ \A vs : Mvcc!Last(vs) = Last(vs)
  /\ \A vs, v : Mvcc!Contains(vs, v) = Contains(vs, v)
  /\ \A s, t : Mvcc!IsPrefix(s, t) = IsPrefix(s, t)
  /\ \A f : Mvcc!IsInjective(f) = IsInjective(f)
  <1>1. \A vs, max : Mvcc!Trim(vs, max) = Trim(vs, max)
    BY DEF Mvcc!Trim, Trim, Mvcc!LastOf, LastOf
  <1>2. \A vs, ts : Mvcc!VisibleIndex(vs, ts) = VisibleIndex(vs, ts)
    BY MvccCardinality DEF Mvcc!VisibleIndex, VisibleIndex
  <1>3. \A vs, i, none : Mvcc!Shown(vs, i, none) = Shown(vs, i, none) BY DEF Mvcc!Shown, Shown
  <1>4. \A vs : Mvcc!Last(vs) = Last(vs) BY DEF Mvcc!Last, Last
  <1>5. \A vs, v : Mvcc!Contains(vs, v) = Contains(vs, v) BY DEF Mvcc!Contains, Contains
  <1>6. \A s, t : Mvcc!IsPrefix(s, t) = IsPrefix(s, t) BY DEF Mvcc!IsPrefix, IsPrefix
  <1>7. \A f : Mvcc!IsInjective(f) = IsInjective(f) BY DEF Mvcc!IsInjective, IsInjective
  <1> QED BY <1>1, <1>2, <1>3, <1>4, <1>5, <1>6, <1>7

\* The order that gc sorts by, as a set of pairs of indices.
Place(vs, i) == IF i = Len(vs) THEN 0 ELSE i
Comes(vs, i, j) == \/ vs[i].ver < vs[j].ver
                   \/ vs[i].ver = vs[j].ver /\ Place(vs, i) < Place(vs, j)
ByNumber(vs, I) == {x \in I \X I : Comes(vs, x[1], x[2])}

LEMMA ArrangeIs ==
  ASSUME NEW vs \in Seq(Ver), NEW I, I \subseteq DOMAIN vs
  PROVE  /\ Mvcc!Arrange(vs, I) \in Seq(Ver)
         /\ \A k \in DOMAIN Mvcc!Arrange(vs, I) : \E i \in I : Mvcc!Arrange(vs, I)[k] = vs[i]
         /\ Mvcc!Arrange(vs, I) =
              [k \in 1..Cardinality(I) |->
                 vs[CHOOSE i \in I : Cardinality(Before(ByNumber(vs, I), I, i)) = k - 1]]
  <1> DEFINE n == Cardinality(I)
             R == ByNumber(vs, I)
             e == [k \in 1..n |-> CHOOSE i \in I : Cardinality(Before(R, I, i)) = k - 1]
             c(k) == CHOOSE i \in I : Cardinality({j \in I : Comes(vs, j, i)}) = k - 1
  <1>1. IsFiniteSet(I) /\ n \in Nat /\ I \subseteq Nat
    <2>1. DOMAIN vs = 1..Len(vs) /\ Len(vs) \in Nat OBVIOUS
    <2>2. IsFiniteSet(DOMAIN vs) BY <2>1, Initial
    <2>3. IsFiniteSet(I) BY <2>2, FS_Subset
    <2> QED BY <2>1, <2>3, FS_CardinalityType
  <1>2. ASSUME NEW i \in I PROVE vs[i] \in Ver /\ vs[i].ver \in Nat /\ Place(vs, i) \in Nat
    <2>1. vs[i] \in Ver OBVIOUS
    <2> QED BY <1>1, <2>1 DEF Ver, Place
  <1>3. \A i, j \in I : i # j => Place(vs, i) # Place(vs, j)
    <2>1. \A i \in I : i # 0 OBVIOUS
    <2> QED BY <2>1 DEF Place
  <1>4. Orders(R, I)
    <2> DEFINE v(i) == vs[i].ver
               p(i) == Place(vs, i)
    <2>1. \A i \in I : v(i) \in Nat /\ p(i) \in Nat BY <1>2
    <2>2. \A i, j \in I : <<i, j>> \in R <=> (v(i) < v(j) \/ (v(i) = v(j) /\ p(i) < p(j)))
      BY DEF ByNumber, Comes
    <2>3. \A i, j \in I : i # j => p(i) # p(j) BY <1>3
    <2> HIDE DEF R, v, p
    <2>4. \A i \in I : <<i, i>> \notin R BY <2>1, <2>2
    <2>5. \A i, j, k \in I : <<i, j>> \in R /\ <<j, k>> \in R => <<i, k>> \in R BY <2>1, <2>2
    <2>6. \A i, j \in I : i # j => <<i, j>> \in R \/ <<j, i>> \in R BY <2>1, <2>2, <2>3
    <2> QED BY <2>4, <2>5, <2>6 DEF Orders
  <1>5. e \in [1..n -> I]
    <2> HIDE DEF R
    <2> QED BY <1>1, <1>4, Ranks
  <1>6. \A i \in I : Before(R, I, i) = {j \in I : Comes(vs, j, i)} BY DEF Before, ByNumber
  <1>7. \A k \in 1..n : e[k] = c(k) BY <1>6
  <1>8. Mvcc!Arrange(vs, I) = [k \in 1..n |-> vs[c(k)]]
    <2>1. Mvcc!Arrange(vs, I) =
            [k \in 1..Mvcc!Cardinality(I) |->
               vs[CHOOSE i \in I : Mvcc!Cardinality({j \in I : Comes(vs, j, i)}) = k - 1]]
      BY Zenon DEF Mvcc!Arrange, Mvcc!Arranged, Place, Comes
    <2> QED BY <2>1, MvccCardinality
  <1> HIDE DEF c
  <1>9. Mvcc!Arrange(vs, I) = [k \in 1..n |-> vs[e[k]]]
    <2> HIDE DEF e
    <2> QED BY <1>7, <1>8
  <1>10. Mvcc!Arrange(vs, I) = [k \in 1..n |-> vs[CHOOSE i \in I : Cardinality(Before(R, I, i)) = k - 1]]
    BY <1>9
  <1> HIDE DEF e
  <1>11. \A k \in 1..n : e[k] \in I /\ vs[e[k]] \in Ver BY <1>2, <1>5
  <1>12. Mvcc!Arrange(vs, I) \in Seq(Ver) BY <1>1, <1>9, <1>11
  <1>13. \A k \in DOMAIN Mvcc!Arrange(vs, I) : \E i \in I : Mvcc!Arrange(vs, I)[k] = vs[i]
    <2>1. DOMAIN Mvcc!Arrange(vs, I) = 1..n BY <1>9
    <2>2. \A k \in 1..n : Mvcc!Arrange(vs, I)[k] = vs[e[k]] BY <1>9
    <2> QED BY <1>11, <2>1, <2>2
  <1> QED BY <1>10, <1>12, <1>13

\* Sorting versions by distinct numbers in ascending order only filters them.
Ascending(vs) ==
  \A i, j \in 1..Len(vs) : i < j => vs[i].ver < vs[j].ver /\ vs[i].at <= vs[j].at

LEMMA ArrangeKeeps ==
  ASSUME NEW vs \in Seq(Ver), Ascending(vs), NEW I, I \subseteq DOMAIN vs
  PROVE  Mvcc!Arrange(vs, I) = Kept(vs, I)
  <1>1. I \subseteq 1..Len(vs) /\ I \subseteq Nat OBVIOUS
  <1>2. \A i \in I : vs[i] \in Ver OBVIOUS
  <1>3. \A i \in I : vs[i].ver \in Nat BY <1>2 DEF Ver
  <1>4. \A i, j \in I : Comes(vs, j, i) <=> j < i
    <2>1. ASSUME NEW i \in I, NEW j \in I PROVE Comes(vs, j, i) <=> j < i
      <3>1. j < i => vs[j].ver < vs[i].ver BY <1>1 DEF Ascending
      <3>2. i < j => vs[i].ver < vs[j].ver BY <1>1 DEF Ascending
      <3>3. i = j \/ i < j \/ j < i BY <1>1
      <3>4. i = j => Place(vs, i) = Place(vs, j) OBVIOUS
      <3>5. Place(vs, i) \in Nat /\ Place(vs, j) \in Nat BY <1>1 DEF Place
      <3> QED BY <1>1, <1>3, <3>1, <3>2, <3>3, <3>4, <3>5 DEF Comes
    <2> QED BY <2>1
  <1>5. \A i \in I : Before(ByNumber(vs, I), I, i) = {j \in I : j < i} BY <1>4 DEF Before, ByNumber
  <1> DEFINE b(k) == CHOOSE i \in I : Cardinality(Before(ByNumber(vs, I), I, i)) = k - 1
             c(k) == CHOOSE i \in I : Cardinality({j \in I : j < i}) = k - 1
  <1>6. \A k \in 1..Cardinality(I) : b(k) = c(k) BY <1>5
  <1>7. Mvcc!Arrange(vs, I) = [k \in 1..Cardinality(I) |-> vs[b(k)]] BY ArrangeIs
  <1>8. Kept(vs, I) = [k \in 1..Cardinality(I) |-> vs[c(k)]] BY Zenon DEF Kept, Arranged
  <1> HIDE DEF b, c
  <1> QED BY <1>6, <1>7, <1>8

\* What gc leaves of any chain.
LEMMA CollectedIs ==
  ASSUME NEW vs \in Seq(Ver), NEW ts
  PROVE  LET t == Mvcc!Collected(vs, ts)
         IN t \in Seq(Ver) /\ \A k \in DOMAIN t : \E i \in DOMAIN vs : t[k] = vs[i]
  <1> DEFINE I == {i \in DOMAIN vs : i = Len(vs) \/ vs[i].at >= ts}
  <1>1. I \subseteq DOMAIN vs OBVIOUS
  <1>2. Mvcc!Collected(vs, ts) = IF Len(vs) <= 2 THEN vs ELSE Mvcc!Arrange(vs, I)
    BY DEF Mvcc!Collected
  <1> HIDE DEF I
  <1> QED BY <1>1, <1>2, ArrangeIs

LEMMA CollectedKeeps ==
  ASSUME NEW vs \in Seq(Ver), Ascending(vs), NEW ts
  PROVE  LET t == Mvcc!Collected(vs, ts)
         IN Picked(t, vs) /\ (vs # <<>> => t # <<>> /\ t[Len(t)] = vs[Len(vs)]) /\ (vs = <<>> => t = <<>>)
  <1> DEFINE I == {i \in DOMAIN vs : i = Len(vs) \/ vs[i].at >= ts}
             t == Mvcc!Collected(vs, ts)
             n == Len(vs)
  <1>1. I \subseteq DOMAIN vs /\ n \in Nat /\ DOMAIN vs = 1..n OBVIOUS
  <1>2. t = IF n <= 2 THEN vs ELSE Mvcc!Arrange(vs, I) BY DEF Mvcc!Collected
  <1>3. CASE n <= 2
    <2>1. t = vs BY <1>2, <1>3
    <2>2. Picked(vs, vs)
      <3> DEFINE e == [k \in 1..n |-> k]
      <3>1. e \in [1..n -> 1..n] /\ (\A k, l \in 1..n : k < l => e[k] < e[l]) /\ \A k \in 1..n : vs[k] = vs[e[k]]
        OBVIOUS
      <3> HIDE DEF e
      <3> QED BY <3>1 DEF Picked
    <2> QED BY <2>1, <2>2
  <1>4. CASE n > 2
    <2>0. n \in I BY <1>1, <1>4
    <2> HIDE DEF I
    <2>1. t = Kept(vs, I) BY <1>1, <1>2, <1>4, ArrangeKeeps
    <2>2. t \in Seq(Ver) /\ Picked(t, vs) BY <1>1, <2>1, KeptPicked
    <2>3. \E x : KeptBy(x, vs, I) BY <1>1, KeptIs
    <2> DEFINE e == CHOOSE x : KeptBy(x, vs, I)
    <2>4. KeptBy(e, vs, I) BY <2>3
    <2> HIDE DEF e, t
    <2>5. PICK k \in 1..Cardinality(I) : e[k] = n BY <2>0, <2>4 DEF KeptBy
    <2>6. Cardinality(I) = Len(t) /\ Len(t) \in Nat BY <2>1, <2>2, <2>4 DEF KeptBy
    <2>7. k = Len(t)
      <3> SUFFICES ASSUME k < Len(t) PROVE FALSE BY <2>6
      <3>1. Len(t) \in 1..Cardinality(I) BY <2>6
      <3>2. e[k] < e[Len(t)] /\ e[Len(t)] \in 1..n BY <1>1, <2>4, <3>1 DEF KeptBy
      <3> QED BY <1>1, <2>5, <3>2
    <2>8. t[Len(t)] = vs[n] BY <2>1, <2>4, <2>5, <2>7 DEF KeptBy
    <2>9. t # <<>> /\ vs # <<>> BY <1>4, <2>5, <2>6
    <2> QED BY <2>2, <2>8, <2>9 DEF t
  <1> QED BY <1>1, <1>3, <1>4

\* The versions vs are among those written, none of the future.
Among(vs, all) == \A i \in 1..Len(vs) : vs[i].at <= now /\ \E j \in 1..Len(all) : all[j] = vs[i]

\* They are in their order and end with the last write.
Ends(vs, all) ==
  /\ Ascending(vs)
  /\ vs = <<>> => all = <<>>
  /\ vs # <<>> => all # <<>> /\ vs[Len(vs)] = all[Len(all)]

MvccInv ==
  /\ now \in Nat
  /\ chains \in [Doc -> Seq(Ver)] /\ written \in [Doc -> Seq(Ver)]
  /\ \A r \in Doc : Among(chains[r], written[r])
  /\ \A r \in Doc \ again : Ends(chains[r], written[r])

\* What a step adds is of the present, and no id is forgotten to be used again.
MvccChange ==
  /\ again \subseteq again'
  /\ \A r \in Doc : \A k \in 1..Len(chains'[r]) :
       \/ \E i \in 1..Len(chains[r]) : chains'[r][k] = chains[r][i]
       \/ chains'[r][k].at = now

LEMMA MvccInit == ASSUME Mvcc!Init PROVE MvccInv
  <1>1. /\ chains = [r \in Doc |-> <<>>] /\ written = [r \in Doc |-> <<>>] /\ now = 0 /\ again = {}
    BY DEF Mvcc!Init
  <1>2. Among(<<>>, <<>>) /\ Ends(<<>>, <<>>) BY DEF Among, Ends, Ascending
  <1>3. chains \in [Doc -> Seq(Ver)] /\ written \in [Doc -> Seq(Ver)] /\ now \in Nat BY <1>1
  <1>4. \A r \in Doc : chains[r] = <<>> /\ written[r] = <<>> BY <1>1
  <1> QED BY <1>2, <1>3, <1>4 DEF MvccInv

\* What is picked of ascending versions is ascending.
LEMMA PickedAscends ==
  ASSUME NEW vs \in Seq(Ver), Ascending(vs), NEW t \in Seq(Ver), Picked(t, vs) PROVE Ascending(t)
  <1>1. PICK e \in [1..Len(t) -> 1..Len(vs)] :
          /\ \A k, l \in 1..Len(t) : k < l => e[k] < e[l]
          /\ \A k \in 1..Len(t) : t[k] = vs[e[k]]
    BY DEF Picked
  <1>2. ASSUME NEW i \in 1..Len(t), NEW j \in 1..Len(t), i < j
        PROVE  t[i].ver < t[j].ver /\ t[i].at <= t[j].at
    <2>1. e[i] \in 1..Len(vs) /\ e[j] \in 1..Len(vs) /\ e[i] < e[j] BY <1>1, <1>2
    <2>2. vs[e[i]].ver < vs[e[j]].ver /\ vs[e[i]].at <= vs[e[j]].at BY <2>1 DEF Ascending
    <2> QED BY <1>1, <2>2
  <1> QED BY <1>2 DEF Ascending

LEMMA AppendAscends ==
  ASSUME NEW vs \in Seq(Ver), Ascending(vs), NEW v \in Ver,
         \A i \in 1..Len(vs) : vs[i].at <= v.at,
         vs # <<>> => vs[Len(vs)].ver < v.ver
  PROVE  Ascending(Append(vs, v))
  <1> DEFINE n == Len(vs)
             t == Append(vs, v)
  <1>1. n \in Nat /\ Len(t) = n + 1 /\ t[n + 1] = v /\ \A k \in 1..n : t[k] = vs[k] OBVIOUS
  <1>2. \A k \in 1..n : vs[k] \in Ver OBVIOUS
  <1>3. v.ver \in Nat /\ \A k \in 1..n : vs[k].ver \in Nat BY <1>2 DEF Ver
  <1>4. ASSUME NEW k \in 1..n PROVE vs[k].ver < v.ver
    <2>1. n \in 1..n /\ vs # <<>> BY <1>1
    <2>2. k = n \/ vs[k].ver < vs[n].ver BY <1>1, <2>1 DEF Ascending
    <2> QED BY <1>3, <2>1, <2>2
  <1> HIDE DEF t
  <1>5. ASSUME NEW i \in 1..(n + 1), NEW j \in 1..(n + 1), i < j
        PROVE  t[i].ver < t[j].ver /\ t[i].at <= t[j].at
    <2>1. i \in 1..n BY <1>1, <1>5
    <2>2. CASE j = n + 1 BY <1>1, <1>4, <2>1, <2>2
    <2>3. CASE j # n + 1
      <3>1. j \in 1..n BY <1>1, <2>3
      <3> QED BY <1>1, <1>5, <2>1, <3>1 DEF Ascending
    <2> QED BY <2>2, <2>3
  <1>6. Ascending(t) BY <1>1, <1>5 DEF Ascending
  <1> QED BY <1>6 DEF t

\* A write: v is appended, and the record keeps the versions t.
MvccWrites(r, v, t) ==
  /\ v \in Ver /\ v.at = now
  /\ t \in Seq(Ver) /\ Picked(t, Append(chains[r], v)) /\ t # <<>> /\ t[Len(t)] = v
  /\ chains' = [chains EXCEPT ![r] = t]
  /\ written' = [written EXCEPT ![r] = Append(@, v)]
  /\ again \subseteq again' /\ now' = now
  /\ r \notin again' => (chains[r] # <<>> => chains[r][Len(chains[r])].ver < v.ver)

LEMMA MvccWrite ==
  ASSUME MvccInv, NEW r \in Doc, NEW v, NEW t, MvccWrites(r, v, t)
  PROVE  MvccInv' /\ MvccChange
  <1> USE DEF MvccWrites
  <1> DEFINE vs == chains[r]
             all == written[r]
             new == Append(vs, v)
             more == Append(all, v)
  <1>1. /\ vs \in Seq(Ver) /\ all \in Seq(Ver) /\ new \in Seq(Ver) /\ more \in Seq(Ver) /\ now \in Nat
        /\ Len(vs) \in Nat /\ Len(all) \in Nat
    BY DEF MvccInv
  <1>2. /\ Len(new) = Len(vs) + 1 /\ Len(more) = Len(all) + 1
        /\ new[Len(vs) + 1] = v /\ more[Len(all) + 1] = v
        /\ (\A k \in 1..Len(vs) : new[k] = vs[k]) /\ \A k \in 1..Len(all) : more[k] = all[k]
    BY <1>1
  <1>3. /\ chains' \in [Doc -> Seq(Ver)] /\ written' \in [Doc -> Seq(Ver)]
        /\ chains'[r] = t /\ written'[r] = more
        /\ \A q \in Doc : q # r => chains'[q] = chains[q] /\ written'[q] = written[q]
    BY <1>1 DEF MvccInv
  <1>4. Among(vs, all) BY DEF MvccInv
  <1> HIDE DEF new, more
  <1>5. ASSUME NEW k \in 1..Len(t)
        PROVE  \/ \E i \in 1..Len(vs) : t[k] = vs[i]
               \/ t[k] = v
    <2>1. PICK e \in [1..Len(t) -> 1..Len(new)] : \A l \in 1..Len(t) : t[l] = new[e[l]]
      BY DEF Picked, new
    <2>2. e[k] \in 1..Len(new) OBVIOUS
    <2>3. e[k] \in 1..Len(vs) \/ e[k] = Len(vs) + 1
      <3> HIDE DEF vs, MvccWrites
      <3> QED BY <1>1, <1>2, <2>2
    <2> QED BY <1>2, <2>1, <2>3
  <1>6. Among(t, more)
    <2>1. ASSUME NEW k \in 1..Len(t) PROVE t[k].at <= now /\ \E j \in 1..Len(more) : more[j] = t[k]
      <3>1. CASE t[k] = v
        <4>1. Len(all) + 1 \in 1..Len(more) BY <1>1, <1>2
        <4> QED BY <1>1, <1>2, <3>1, <4>1
      <3>2. ASSUME NEW i \in 1..Len(vs), t[k] = vs[i]
            PROVE  t[k].at <= now /\ \E j \in 1..Len(more) : more[j] = t[k]
        <4>1. PICK j \in 1..Len(all) : all[j] = vs[i] BY <1>4 DEF Among
        <4>2. j \in 1..Len(more) /\ more[j] = all[j] BY <1>1, <1>2
        <4>3. vs[i].at <= now BY <1>4 DEF Among
        <4> QED BY <3>2, <4>1, <4>2, <4>3
      <3> QED BY <1>5, <3>1, <3>2
    <2> QED BY <2>1 DEF Among
  <1>7. \A q \in Doc : Among(chains'[q], written'[q]) BY <1>3, <1>6 DEF MvccInv
  <1>8. \A q \in Doc : Among(chains[q], written[q])' BY <1>7 DEF Among
  <1>9. ASSUME r \notin again' PROVE Ends(t, more)
    <2>1. r \in Doc \ again BY <1>9
    <2>2. Ends(vs, all) BY <2>1 DEF MvccInv
    <2>3. \A i \in 1..Len(vs) : vs[i].at <= v.at BY <1>4 DEF Among
    <2>4. Ascending(new) BY <1>1, <1>9, <2>2, <2>3, AppendAscends DEF Ends, new
    <2>5. Ascending(t) BY <1>1, <2>4, PickedAscends DEF new
    <2>6. more # <<>> /\ more[Len(more)] = v BY <1>1, <1>2
    <2> QED BY <2>5, <2>6 DEF Ends
  <1>10. \A q \in Doc \ again' : Ends(chains'[q], written'[q])
    <2>1. ASSUME NEW q \in Doc \ again', q # r PROVE Ends(chains'[q], written'[q])
      <3>1. q \in Doc \ again OBVIOUS
      <3> QED BY <1>3, <2>1, <3>1 DEF MvccInv
    <2> QED BY <1>3, <1>9, <2>1
  <1>11. \A q \in Doc \ again' : Ends(chains[q], written[q])' BY <1>10 DEF Ends, Ascending
  <1>12. MvccInv' BY <1>1, <1>3, <1>8, <1>11 DEF MvccInv
  <1>13. MvccChange
    <2>1. ASSUME NEW q \in Doc, NEW k \in 1..Len(chains'[q])
          PROVE  (\E i \in 1..Len(chains[q]) : chains'[q][k] = chains[q][i]) \/ chains'[q][k].at = now
      BY <1>3, <1>5
    <2> QED BY <2>1 DEF MvccChange
  <1> QED BY <1>12, <1>13

LEMMA MvccStep ==
  ASSUME MvccInv, Mvcc!Next, ValAssumption, VersionsAssumption
  PROVE  MvccInv' /\ MvccChange
  <1>1. now \in Nat /\ chains \in [Doc -> Seq(Ver)] /\ written \in [Doc -> Seq(Ver)] BY DEF MvccInv
  <1>2. ASSUME NEW r \in Doc, NEW w \in Nat, NEW val \in Val \cup {NoVal}, NEW dead \in BOOLEAN
        PROVE  Mvcc!Version(w, val, dead) \in Ver /\ Mvcc!Version(w, val, dead).at = now
               /\ Mvcc!Version(w, val, dead).ver = w
    BY <1>1 DEF Mvcc!Version, Ver
  <1>3. ASSUME NEW r \in Doc, NEW v \in Ver
        PROVE  /\ Append(chains[r], v) \in Seq(Ver) /\ Picked(Append(chains[r], v), Append(chains[r], v))
               /\ Append(chains[r], v) # <<>> /\ Append(chains[r], v)[Len(Append(chains[r], v))] = v
    <2> DEFINE t == Append(chains[r], v)
               e == [k \in 1..Len(t) |-> k]
    <2>0. chains[r] \in Seq(Ver) BY <1>1
    <2>1. t \in Seq(Ver) /\ Len(t) \in Nat /\ t # <<>> /\ t[Len(t)] = v BY <2>0
    <2> HIDE DEF t
    <2>2. e \in [1..Len(t) -> 1..Len(t)] /\ (\A k, l \in 1..Len(t) : k < l => e[k] < e[l])
          /\ \A k \in 1..Len(t) : t[k] = t[e[k]]
      OBVIOUS
    <2> HIDE DEF e
    <2>3. Picked(t, t) BY <2>2 DEF Picked
    <2> QED BY <2>1, <2>3 DEF t
  <1>4. ASSUME NEW r \in Doc, NEW v \in Ver
        PROVE  LET t == Trim(Append(chains[r], v), MaxVersions)
               IN t \in Seq(Ver) /\ Picked(t, Append(chains[r], v)) /\ t # <<>> /\ t[Len(t)] = v
    <2> DEFINE n == Append(chains[r], v)
    <2>1. n \in Seq(Ver) /\ n # <<>> /\ n[Len(n)] = v BY <1>3
    <2> HIDE DEF n
    <2>2. LET t == Trim(n, MaxVersions)
          IN t \in Seq(Ver) /\ Picked(t, n) /\ (n # <<>> => t # <<>> /\ t[Len(t)] = n[Len(n)])
      BY <2>1, TrimPicked, VersionsAssumption
    <2> QED BY <2>1, <2>2 DEF n
  <1>5. ASSUME NEW r \in Doc, chains[r] # <<>>
        PROVE  chains[r][Len(chains[r])].ver \in Nat
    <2>1. Len(chains[r]) \in 1..Len(chains[r]) /\ chains[r] \in Seq(Ver) BY <1>1, <1>5
    <2>2. chains[r][Len(chains[r])] \in Ver BY <2>1
    <2> QED BY <2>2 DEF Ver
  <1>6. ASSUME NEW r \in Doc, NEW val \in Val, Mvcc!Insert(r, val) PROVE MvccInv' /\ MvccChange
    <2> DEFINE v == Mvcc!Version(1, val, FALSE)
               t == Append(chains[r], v)
    <2>1. /\ chains' = [chains EXCEPT ![r] = t] /\ written' = [written EXCEPT ![r] = Append(@, v)]
          /\ now' = now /\ again' = IF chains[r] = <<>> THEN again ELSE again \cup {r}
      BY <1>6 DEF Mvcc!Insert, Mvcc!Add
    <2>2. v \in Ver /\ v.at = now BY <1>2
    <2> HIDE DEF v
    <2>3. t \in Seq(Ver) /\ Picked(t, t) /\ t # <<>> /\ t[Len(t)] = v BY <1>3, <2>2
    <2>4. MvccWrites(r, v, t) BY <2>1, <2>2, <2>3 DEF MvccWrites
    <2> QED BY <2>4, MvccWrite
  <1>7. ASSUME NEW r \in Doc, NEW val \in Val, Mvcc!Update(r, val) PROVE MvccInv' /\ MvccChange
    <2> DEFINE last == chains[r][Len(chains[r])]
               v == Mvcc!Version(last.ver + 1, val, FALSE)
               t == Trim(Append(chains[r], v), MaxVersions)
    <2>1. /\ chains[r] # <<>>
          /\ chains' = [chains EXCEPT ![r] = t] /\ written' = [written EXCEPT ![r] = Append(@, v)]
          /\ now' = now /\ again' = again
      BY <1>7, MvccCopies DEF Mvcc!Update, Mvcc!Add, Last
    <2>2. last.ver \in Nat /\ last.ver + 1 \in Nat BY <1>5, <2>1
    <2>3. v \in Ver /\ v.at = now /\ v.ver = last.ver + 1 BY <1>2, <2>2
    <2> HIDE DEF v
    <2>4. last.ver < v.ver
      <3> HIDE DEF last
      <3> QED BY <2>2, <2>3
    <2>5. t \in Seq(Ver) /\ Picked(t, Append(chains[r], v)) /\ t # <<>> /\ t[Len(t)] = v BY <1>4, <2>3
    <2> HIDE DEF t
    <2>6. MvccWrites(r, v, t) BY <2>1, <2>3, <2>4, <2>5 DEF MvccWrites
    <2> QED BY <2>6, MvccWrite
  <1>8. ASSUME NEW r \in Doc, Mvcc!Delete(r) PROVE MvccInv' /\ MvccChange
    <2> DEFINE last == chains[r][Len(chains[r])]
               v == Mvcc!Version(last.ver + 1, NoVal, TRUE)
               t == Append(chains[r], v)
    <2>1. /\ chains[r] # <<>>
          /\ chains' = [chains EXCEPT ![r] = t] /\ written' = [written EXCEPT ![r] = Append(@, v)]
          /\ now' = now /\ again' = again
      BY <1>8, MvccCopies DEF Mvcc!Delete, Mvcc!Add, Last
    <2>2. last.ver \in Nat /\ last.ver + 1 \in Nat BY <1>5, <2>1
    <2>3. v \in Ver /\ v.at = now /\ v.ver = last.ver + 1 BY <1>2, <2>2
    <2> HIDE DEF v
    <2>4. last.ver < v.ver
      <3> HIDE DEF last
      <3> QED BY <2>2, <2>3
    <2>5. t \in Seq(Ver) /\ Picked(t, Append(chains[r], v)) /\ t # <<>> /\ t[Len(t)] = v BY <1>3, <2>3
    <2>6. MvccWrites(r, v, t) BY <2>1, <2>3, <2>4, <2>5 DEF MvccWrites
    <2> QED BY <2>6, MvccWrite
  <1>9. ASSUME NEW ts \in 0..now, Mvcc!Gc(ts) PROVE MvccInv' /\ MvccChange
    <2>1. /\ chains' = [r \in Doc |-> Mvcc!Collected(chains[r], ts)]
          /\ now' = now /\ written' = written /\ again' = again
      BY <1>9 DEF Mvcc!Gc
    <2>2. \A r \in Doc : chains'[r] = Mvcc!Collected(chains[r], ts) BY <2>1
    <2>3. ASSUME NEW r \in Doc
          PROVE  /\ chains'[r] \in Seq(Ver)
                 /\ \A k \in 1..Len(chains'[r]) : \E i \in 1..Len(chains[r]) : chains'[r][k] = chains[r][i]
      <3> DEFINE t == Mvcc!Collected(chains[r], ts)
      <3>1. t \in Seq(Ver) /\ \A k \in DOMAIN t : \E i \in DOMAIN chains[r] : t[k] = chains[r][i]
        BY <1>1, CollectedIs
      <3> HIDE DEF t
      <3>2. DOMAIN t = 1..Len(t) /\ DOMAIN chains[r] = 1..Len(chains[r]) BY <1>1, <3>1
      <3> QED BY <2>2, <3>1, <3>2 DEF t
    <2>4. chains' \in [Doc -> Seq(Ver)] BY <2>1, <2>3
    <2>5. MvccChange BY <2>1, <2>3 DEF MvccChange
    <2>6. ASSUME NEW r \in Doc PROVE Among(chains'[r], written[r])
      <3>1. Among(chains[r], written[r]) BY DEF MvccInv
      <3>2. ASSUME NEW k \in 1..Len(chains'[r])
            PROVE  chains'[r][k].at <= now /\ \E j \in 1..Len(written[r]) : written[r][j] = chains'[r][k]
        <4>1. PICK i \in 1..Len(chains[r]) : chains'[r][k] = chains[r][i] BY <2>3
        <4>2. chains[r][i].at <= now /\ \E j \in 1..Len(written[r]) : written[r][j] = chains[r][i]
          BY <3>1 DEF Among
        <4> QED BY <4>1, <4>2
      <3> QED BY <3>2 DEF Among
    <2>7. \A r \in Doc : Among(chains[r], written[r])' BY <2>1, <2>6 DEF Among
    <2>8. ASSUME NEW r \in Doc \ again PROVE Ends(chains'[r], written[r])
      <3> DEFINE vs == chains[r]
                 t == Mvcc!Collected(vs, ts)
      <3>1. Ends(vs, written[r]) /\ Ascending(vs) /\ vs \in Seq(Ver) BY <1>1 DEF MvccInv, Ends
      <3>2. Picked(t, vs) /\ (vs # <<>> => t # <<>> /\ t[Len(t)] = vs[Len(vs)]) /\ (vs = <<>> => t = <<>>)
        BY <3>1, CollectedKeeps
      <3>3. t \in Seq(Ver) BY <2>2, <2>3
      <3> HIDE DEF t
      <3>4. Ascending(t) BY <3>1, <3>2, <3>3, PickedAscends
      <3>5. Ends(t, written[r]) BY <3>1, <3>2, <3>4 DEF Ends
      <3> QED BY <2>2, <3>5 DEF t
    <2>9. \A r \in Doc \ again' : Ends(chains[r], written[r])' BY <2>1, <2>8 DEF Ends, Ascending
    <2>10. MvccInv' BY <1>1, <2>1, <2>4, <2>7, <2>9 DEF MvccInv
    <2> QED BY <2>5, <2>10
  <1>10. ASSUME Mvcc!Tick PROVE MvccInv' /\ MvccChange
    <2>1. now' = now + 1 /\ chains' = chains /\ written' = written /\ again' = again
      BY <1>10 DEF Mvcc!Tick
    <2>2. \A r \in Doc : Among(chains[r], written[r])'
      <3>1. ASSUME NEW r \in Doc, NEW i \in 1..Len(chains[r]) PROVE chains[r][i].at <= now + 1
        <4>1. chains[r][i].at <= now BY DEF MvccInv, Among
        <4>2. chains[r] \in Seq(Ver) BY <1>1
        <4>3. chains[r][i] \in Ver BY <4>2
        <4>4. chains[r][i].at \in Nat BY <4>3 DEF Ver
        <4> QED BY <1>1, <4>1, <4>4
      <3>2. \A r \in Doc : Among(chains[r], written[r]) BY DEF MvccInv
      <3> QED BY <2>1, <3>1, <3>2 DEF Among
    <2>3. \A r \in Doc \ again' : Ends(chains[r], written[r])' BY <2>1 DEF MvccInv, Ends, Ascending
    <2>4. MvccInv' BY <1>1, <2>1, <2>2, <2>3 DEF MvccInv
    <2>5. MvccChange BY <2>1 DEF MvccChange
    <2> QED BY <2>4, <2>5
  <1> QED BY <1>6, <1>7, <1>8, <1>9, <1>10 DEF Mvcc!Next

LEMMA MvccHolds ==
  ASSUME MvccInv
  PROVE  Mvcc!LatestIsLastWrite /\ Mvcc!ChainOrdered /\ Mvcc!SnapshotNeverGains
  <1>1. now \in Nat /\ chains \in [Doc -> Seq(Ver)] /\ written \in [Doc -> Seq(Ver)] BY DEF MvccInv
  <1>2. ASSUME NEW r \in Doc \ again
        PROVE  Mvcc!Latest(r) = Mvcc!Shown(written[r], Len(written[r]), NoVal)
    <2>1. Ends(chains[r], written[r]) /\ chains[r] \in Seq(Ver) /\ written[r] \in Seq(Ver)
      BY <1>1 DEF MvccInv
    <2>2. CASE chains[r] = <<>>
      <3>1. Len(chains[r]) = 0 /\ Len(written[r]) = 0 BY <2>1, <2>2 DEF Ends
      <3> QED BY <3>1 DEF Mvcc!Latest, Mvcc!Shown
    <2>3. CASE chains[r] # <<>>
      <3>1. Len(chains[r]) # 0 /\ Len(written[r]) # 0 BY <2>1, <2>3 DEF Ends
      <3>2. chains[r][Len(chains[r])] = written[r][Len(written[r])] BY <2>1, <2>3 DEF Ends
      <3> QED BY <3>1, <3>2 DEF Mvcc!Latest, Mvcc!Shown
    <2> QED BY <2>2, <2>3
  <1>3. Mvcc!LatestIsLastWrite BY <1>2 DEF Mvcc!LatestIsLastWrite
  <1>4. ASSUME NEW r \in Doc \ again
        PROVE  /\ IsInjective([i \in DOMAIN chains[r] |-> chains[r][i].ver])
               /\ \A i \in DOMAIN chains[r] :
                    /\ Contains(written[r], chains[r][i])
                    /\ i > 1 => /\ chains[r][i - 1].at <= chains[r][i].at
                                /\ chains[r][i - 1].ver < chains[r][i].ver
    <2> DEFINE vs == chains[r]
    <2>1. Ascending(vs) /\ vs \in Seq(Ver) BY <1>1 DEF MvccInv, Ends
    <2>2. DOMAIN vs = 1..Len(vs) /\ \A i \in 1..Len(vs) : vs[i] \in Ver BY <2>1
    <2>3. Among(vs, written[r]) BY DEF MvccInv
    <2> HIDE DEF vs
    <2>4. \A i \in 1..Len(vs) : vs[i].ver \in Nat BY <2>2 DEF Ver
    <2>5. \A i, j \in 1..Len(vs) : vs[i].ver = vs[j].ver => i = j
      <3> SUFFICES ASSUME NEW i \in 1..Len(vs), NEW j \in 1..Len(vs), i # j PROVE vs[i].ver # vs[j].ver
        OBVIOUS
      <3>1. i < j \/ j < i OBVIOUS
      <3>2. vs[i].ver < vs[j].ver \/ vs[j].ver < vs[i].ver BY <2>1, <3>1 DEF Ascending
      <3> QED BY <2>4, <3>2
    <2>6. IsInjective([i \in DOMAIN vs |-> vs[i].ver]) BY <2>2, <2>5 DEF IsInjective
    <2>7. ASSUME NEW i \in DOMAIN vs
          PROVE  /\ Contains(written[r], vs[i])
                 /\ i > 1 => vs[i - 1].at <= vs[i].at /\ vs[i - 1].ver < vs[i].ver
      <3>1. Contains(written[r], vs[i]) BY <2>2, <2>3 DEF Among, Contains
      <3>2. i > 1 => i - 1 \in 1..Len(vs) /\ i - 1 < i BY <2>2
      <3> QED BY <2>1, <2>2, <3>1, <3>2 DEF Ascending
    <2> QED BY <2>6, <2>7 DEF vs
  <1>5. Mvcc!ChainOrdered BY <1>4, MvccCopies DEF Mvcc!ChainOrdered
  <1>6. ASSUME NEW r \in Doc, NEW ts \in 0..now, Mvcc!GetAt(r, ts) # NoVal
        PROVE  \E i \in DOMAIN written[r] : written[r][i].at <= ts /\ written[r][i].val = Mvcc!GetAt(r, ts)
    <2> DEFINE vs == chains[r]
               k == VisibleIndex(vs, ts)
    <2>1. vs \in Seq(Ver) BY <1>1
    <2>2. SeenAt(vs, ts, k) BY <2>1, Visible
    <2>3. Mvcc!GetAt(r, ts) = IF k = 0 \/ vs[k].dead THEN NoVal ELSE vs[k].val
      BY MvccCopies DEF Mvcc!GetAt, Shown
    <2> HIDE DEF k
    <2>4. k # 0 /\ Mvcc!GetAt(r, ts) = vs[k].val BY <1>6, <2>3
    <2>5. k \in 1..Len(vs) /\ k \in 1..k BY <2>1, <2>2, <2>4 DEF SeenAt
    <2>6. vs[k].at <= ts BY <2>2, <2>5 DEF SeenAt
    <2>7. Among(vs, written[r]) BY DEF MvccInv
    <2>8. PICK i \in 1..Len(written[r]) : written[r][i] = vs[k] BY <2>5, <2>7 DEF Among
    <2>9. DOMAIN written[r] = 1..Len(written[r]) BY <1>1
    <2> QED BY <2>4, <2>6, <2>8, <2>9
  <1>7. Mvcc!SnapshotNeverGains BY <1>6 DEF Mvcc!SnapshotNeverGains
  <1> QED BY <1>3, <1>5, <1>7

\* What a step does to the snapshots of earlier times.
LEMMA MvccSnapshots ==
  ASSUME MvccInv, MvccInv', MvccChange,
         NEW r \in Doc \ again', NEW ts \in 0..(now - 1)
  PROVE  LET was == VisibleIndex(chains[r], ts)
             is == VisibleIndex(chains'[r], ts)
         IN IF IsPrefix(chains[r], chains'[r]) THEN was = is
            ELSE is # 0 => was # 0 /\ chains'[r][is].ver <= chains[r][was].ver
  <1> DEFINE c == chains[r]
             d == chains'[r]
             was == VisibleIndex(c, ts)
             is == VisibleIndex(d, ts)
  <1>1. /\ now \in Nat /\ c \in Seq(Ver) /\ d \in Seq(Ver) /\ Len(c) \in Nat /\ Len(d) \in Nat
    BY DEF MvccInv
  <1>2. Ascending(c) /\ Ascending(d)
    <2>1. r \in Doc \ again BY DEF MvccChange
    <2>2. Ascending(c)' <=> Ascending(d) BY DEF Ascending
    <2> QED BY <2>1, <2>2 DEF MvccInv, Ends
  <1>3. \A k \in 1..Len(d) : (\E i \in 1..Len(c) : d[k] = c[i]) \/ d[k].at = now BY DEF MvccChange
  <1>4. /\ \A i \in 1..Len(c) : c[i].ver \in Nat /\ c[i].at \in Nat
        /\ \A i \in 1..Len(d) : d[i].ver \in Nat /\ d[i].at \in Nat
    <2>1. (\A i \in 1..Len(c) : c[i] \in Ver) /\ \A i \in 1..Len(d) : d[i] \in Ver BY <1>1
    <2> QED BY <2>1 DEF Ver
  <1>5. SeenAt(c, ts, was) /\ SeenAt(d, ts, is) BY <1>1, Visible
  <1> HIDE DEF c, d, was, is
  <1>6. /\ was \in 0..Len(c) /\ is \in 0..Len(d)
        /\ (\A j \in 1..was : c[j].at <= ts) /\ \A j \in 1..is : d[j].at <= ts
        /\ was < Len(c) => ~(c[was + 1].at <= ts)
    BY <1>5 DEF SeenAt
  <1>7. ASSUME IsPrefix(c, d) PROVE was = is
    <2>1. Len(c) <= Len(d) /\ \A i \in 1..Len(c) : c[i] = d[i]
      <3>1. Len(c) <= Len(d) /\ SubSeq(c, 1, Len(c)) = SubSeq(d, 1, Len(c)) BY <1>7 DEF IsPrefix
      <3>2. \A i \in 1..Len(c) : SubSeq(c, 1, Len(c))[i] = c[i] BY <1>1
      <3>3. \A i \in 1..Len(c) : SubSeq(d, 1, Len(c))[i] = d[i] BY <1>1, <3>1
      <3> QED BY <3>1, <3>2, <3>3
    <2>2. was \in 0..Len(d) /\ \A j \in 1..was : d[j].at <= ts BY <1>1, <1>6, <2>1
    <2>3. ASSUME was < Len(d) PROVE ~(d[was + 1].at <= ts)
      <3>1. CASE was < Len(c) BY <1>1, <1>6, <2>1, <3>1
      <3>2. CASE ~(was < Len(c))
        <4>1. was = Len(c) /\ was + 1 \in 1..Len(d) BY <1>1, <1>6, <2>3, <3>2
        <4>2. ASSUME NEW i \in 1..Len(c) PROVE d[was + 1] # c[i]
          <5>1. i \in 1..Len(d) /\ i < was + 1 BY <1>1, <2>1, <4>1
          <5>2. d[i].ver < d[was + 1].ver BY <1>2, <4>1, <5>1 DEF Ascending
          <5> QED BY <1>4, <2>1, <4>1, <5>1, <5>2
        <4>3. d[was + 1].at = now BY <1>3, <4>1, <4>2
        <4> QED BY <1>1, <4>3
      <3> QED BY <3>1, <3>2
    <2>4. SeenAt(d, ts, was) BY <2>2, <2>3 DEF SeenAt
    <2> QED BY <1>1, <2>4, VisibleIs DEF is
  <1>8. ASSUME is # 0 PROVE was # 0 /\ d[is].ver <= c[was].ver
    <2>1. is \in 1..Len(d) /\ is \in 1..is BY <1>1, <1>6, <1>8
    <2>2. d[is].at <= ts /\ d[is].at # now BY <1>1, <1>6, <2>1
    <2>3. PICK i \in 1..Len(c) : d[is] = c[i] BY <1>3, <2>1, <2>2
    <2>4. i <= was
      <3> SUFFICES ASSUME was < i PROVE FALSE BY <1>1, <1>6
      <3>1. was + 1 \in 1..Len(c) /\ was < Len(c) /\ was + 1 <= i BY <1>1, <1>6
      <3>2. ~(c[was + 1].at <= ts) BY <1>6, <3>1
      <3>3. c[was + 1].at <= c[i].at
        <4>1. CASE was + 1 = i BY <1>4, <4>1
        <4>2. CASE was + 1 # i
          <5>1. was + 1 < i BY <1>1, <3>1, <4>2
          <5> QED BY <1>2, <3>1, <5>1 DEF Ascending
        <4> QED BY <4>1, <4>2
      <3> QED BY <1>4, <2>2, <2>3, <3>1, <3>2, <3>3
    <2>5. was # 0 /\ was \in 1..Len(c) BY <1>1, <1>6, <2>4
    <2>6. CASE i = was BY <1>4, <2>3, <2>6
    <2>7. CASE i # was
      <3>1. i < was BY <1>1, <2>4, <2>5, <2>7
      <3>2. c[i].ver < c[was].ver BY <1>2, <2>5, <3>1 DEF Ascending
      <3> QED BY <1>4, <2>3, <2>5, <3>2
    <2> QED BY <2>5, <2>6, <2>7
  <1> QED BY <1>7, <1>8 DEF c, d, was, is

\* The action of SnapshotStable.
LEMMA MvccStable ==
  ASSUME MvccInv, MvccInv', MvccChange
  PROVE  \A r \in Doc \ again', ts \in 0..(now - 1) :
           LET was == Mvcc!VisibleIndex(chains[r], ts)
               is == Mvcc!VisibleIndex(chains'[r], ts)
           IN IF Mvcc!IsPrefix(chains[r], chains'[r]) THEN was = is
              ELSE is # 0 => was # 0 /\ chains'[r][is].ver <= chains[r][was].ver
  BY MvccSnapshots, MvccCopies

-----------------------------------------------------------------------------
(***************************************************************************)
(* Time travel.  A history that was compacted is the first version and the *)
(* last ones with no gap among these, more than MaxHistory \div 2 in all.  The *)
(* halving search of snapshot_at finds the last version of a time: of the  *)
(* ranges on which it fails, none can be the shortest.                     *)
(***************************************************************************)

LEMMA TravelCardinality == \A S : Travel!Cardinality(S) = Cardinality(S)
  BY DEF Travel!Cardinality, Cardinality

LEMMA TravelCopies ==
  /\ \A vs, max : Travel!Trim(vs, max) = Trim(vs, max)
  /\ \A vs, ts : Travel!VisibleIndex(vs, ts) = VisibleIndex(vs, ts)
  /\ \A vs, i, none : Travel!Shown(vs, i, none) = Shown(vs, i, none)
  /\ \A vs : Travel!Last(vs) = Last(vs)
  /\ \A vs, v : Travel!Contains(vs, v) = Contains(vs, v)
  /\ \A vs : Travel!ToSet(vs) = ToSet(vs)
  /\ \A f : Travel!IsInjective(f) = IsInjective(f)
  <1>1. \A vs, max : Travel!Trim(vs, max) = Trim(vs, max)
    BY DEF Travel!Trim, Trim, Travel!LastOf, LastOf
  <1>2. \A vs, ts : Travel!VisibleIndex(vs, ts) = VisibleIndex(vs, ts)
    BY TravelCardinality DEF Travel!VisibleIndex, VisibleIndex
  <1>3. \A vs, i, none : Travel!Shown(vs, i, none) = Shown(vs, i, none) BY DEF Travel!Shown, Shown
  <1>4. \A vs : Travel!Last(vs) = Last(vs) BY DEF Travel!Last, Last
  <1>5. \A vs, v : Travel!Contains(vs, v) = Contains(vs, v) BY DEF Travel!Contains, Contains
  <1>6. \A vs : Travel!ToSet(vs) = ToSet(vs) BY DEF Travel!ToSet, ToSet
  <1>7. \A f : Travel!IsInjective(f) = IsInjective(f) BY DEF Travel!IsInjective, IsInjective
  <1> QED BY <1>1, <1>2, <1>3, <1>4, <1>5, <1>6, <1>7

\* The untrimmed history all: numbered, in the order of time, none of the future.
Numbered(all, t) ==
  /\ all \in Seq(Ver) /\ Len(all) <= MaxChanges
  /\ \A i \in 1..Len(all) : all[i].ver = i /\ all[i].at <= t
  /\ \A i, j \in 1..Len(all) : i < j => all[i].at <= all[j].at

\* What trimming leaves of it: the first version, and from a number on all that follow.
Remains(vs, all) ==
  /\ vs \in Seq(Ver) /\ Len(vs) <= Len(all)
  /\ vs = <<>> => all = <<>>
  /\ vs # <<>> => vs[1] = all[1]
  /\ \A k \in 2..Len(vs) : vs[k] = all[Len(all) - Len(vs) + k]
  /\ Len(vs) = Len(all) \/ Len(vs) > MaxHistory \div 2

TravelInv ==
  /\ now \in Nat
  /\ log \in [Record -> Seq(Ver)] /\ history \in [Record -> Seq(Ver)]
  /\ \A r \in Record : Numbered(log[r], now) /\ Remains(history[r], log[r])

LEMMA TravelInit == ASSUME Travel!Init, VersionsAssumption PROVE TravelInv
  <1>1. log = [r \in Record |-> <<>>] /\ history = [r \in Record |-> <<>>] /\ now = 0
    BY DEF Travel!Init
  <1>2. <<>> \in Seq(Ver) /\ Len(<<>>) = 0 OBVIOUS
  <1>3. Numbered(<<>>, 0) BY <1>2, VersionsAssumption DEF Numbered
  <1>4. Remains(<<>>, <<>>) BY <1>2 DEF Remains
  <1> QED BY <1>1, <1>2, <1>3, <1>4 DEF TravelInv

LEMMA NumberedMore ==
  ASSUME NEW all, NEW t \in Nat, Numbered(all, t), Len(all) < MaxChanges, VersionsAssumption,
         NEW v \in Ver, v.ver = Len(all) + 1, v.at = t
  PROVE  Numbered(Append(all, v), t)
  <1> DEFINE n == Len(all)
             more == Append(all, v)
  <1>1. all \in Seq(Ver) /\ n \in Nat /\ n < MaxChanges /\ MaxChanges \in Nat
    BY VersionsAssumption DEF Numbered
  <1>2. more \in Seq(Ver) /\ Len(more) = n + 1 /\ more[n + 1] = v /\ \A k \in 1..n : more[k] = all[k]
    BY <1>1
  <1> HIDE DEF more
  <1>3. Len(more) <= MaxChanges BY <1>1, <1>2
  <1>4. \A i \in 1..Len(more) : more[i].ver = i /\ more[i].at <= t
    <2>1. ASSUME NEW i \in 1..(n + 1) PROVE more[i].ver = i /\ more[i].at <= t
      <3>1. CASE i = n + 1 BY <1>2, <3>1
      <3>2. CASE i # n + 1
        <4>1. i \in 1..n BY <1>1, <3>2
        <4> QED BY <1>2, <4>1 DEF Numbered
      <3> QED BY <3>1, <3>2
    <2> QED BY <1>2, <2>1
  <1>5. \A i, j \in 1..Len(more) : i < j => more[i].at <= more[j].at
    <2>1. ASSUME NEW i \in 1..(n + 1), NEW j \in 1..(n + 1), i < j PROVE more[i].at <= more[j].at
      <3>1. i \in 1..n /\ more[i] = all[i] BY <1>1, <1>2, <2>1
      <3>2. CASE j = n + 1 BY <1>2, <3>1, <3>2 DEF Numbered
      <3>3. CASE j # n + 1
        <4>1. j \in 1..n /\ more[j] = all[j] BY <1>1, <1>2, <3>3
        <4> QED BY <2>1, <3>1, <4>1 DEF Numbered
      <3> QED BY <3>2, <3>3
    <2> QED BY <1>2, <2>1
  <1>6. Numbered(more, t) BY <1>2, <1>3, <1>4, <1>5 DEF Numbered
  <1> QED BY <1>6 DEF more

LEMMA RemainsMore ==
  ASSUME NEW vs, NEW all \in Seq(Ver), Remains(vs, all), NEW v \in Ver, VersionsAssumption
  PROVE  Remains(Append(vs, v), Append(all, v))
  <1> DEFINE m == Len(vs)
             n == Len(all)
             t == Append(vs, v)
             more == Append(all, v)
             half == MaxHistory \div 2
  <1>1. vs \in Seq(Ver) /\ m \in Nat /\ n \in Nat /\ m <= n BY DEF Remains
  <1>2. t \in Seq(Ver) /\ Len(t) = m + 1 /\ t[m + 1] = v /\ \A k \in 1..m : t[k] = vs[k] BY <1>1
  <1>3. more \in Seq(Ver) /\ Len(more) = n + 1 /\ more[n + 1] = v /\ \A k \in 1..n : more[k] = all[k]
    BY <1>1
  <1>4. half \in Nat BY VersionsAssumption
  <1> HIDE DEF t, more, half
  <1>5. t # <<>> BY <1>1, <1>2
  <1>6. t[1] = more[1]
    <2>1. CASE vs = <<>>
      <3>1. m = 0 /\ n = 0 BY <2>1 DEF Remains
      <3> QED BY <1>2, <1>3, <3>1
    <2>2. CASE vs # <<>>
      <3>1. 1 \in 1..m /\ 1 \in 1..n BY <1>1, <2>2
      <3> QED BY <1>2, <1>3, <2>2, <3>1 DEF Remains
    <2> QED BY <2>1, <2>2
  <1>7. ASSUME NEW k \in 2..(m + 1) PROVE t[k] = more[(n + 1) - (m + 1) + k]
    <2>1. CASE k = m + 1
      <3>1. (n + 1) - (m + 1) + k = n + 1 BY <1>1, <2>1
      <3> QED BY <1>2, <1>3, <2>1, <3>1
    <2>2. CASE k # m + 1
      <3>1. k \in 1..m /\ k \in 2..m /\ n - m + k \in 1..n /\ (n + 1) - (m + 1) + k = n - m + k
        BY <1>1, <2>2
      <3>2. vs[k] = all[n - m + k] BY <3>1 DEF Remains
      <3> QED BY <1>2, <1>3, <3>1, <3>2
    <2> QED BY <2>1, <2>2
  <1>8. m + 1 = n + 1 \/ m + 1 > half
    <2>1. m = n \/ m > half BY DEF Remains, half
    <2> QED BY <1>1, <1>4, <2>1
  <1>9. m + 1 <= n + 1 BY <1>1
  <1>10. \A k \in 2..Len(t) : t[k] = more[Len(more) - Len(t) + k] BY <1>2, <1>3, <1>7
  <1>11. Remains(t, more) BY <1>2, <1>3, <1>5, <1>6, <1>8, <1>9, <1>10 DEF Remains, half
  <1> QED BY <1>11 DEF t, more

LEMMA RemainsTrimmed ==
  ASSUME NEW vs, NEW all \in Seq(Ver), Remains(vs, all), VersionsAssumption
  PROVE  Remains(Trim(vs, MaxHistory), all)
  <1> DEFINE m == Len(vs)
             n == Len(all)
             t == Trim(vs, MaxHistory)
             h == MaxHistory \div 2
  <1>1. /\ vs \in Seq(Ver) /\ m \in Nat /\ n \in Nat /\ m <= n /\ MaxHistory \in Nat /\ MaxHistory >= 2
        /\ h \in Nat
    BY VersionsAssumption DEF Remains
  <1>2. t \in Seq(Ver) /\ (m <= MaxHistory => t = vs) /\ (m > MaxHistory => TrimmedTo(t, vs, h))
    BY <1>1, TrimIs
  <1> HIDE DEF t, h
  <1>3. CASE m <= MaxHistory BY <1>2, <1>3 DEF t
  <1>4. CASE m > MaxHistory
    <2>1. /\ h \in 1..(m - 2) /\ Len(t) = h + 1 /\ t[1] = vs[1]
          /\ \A k \in 2..(h + 1) : t[k] = vs[m - h + k - 1]
      BY <1>2, <1>4 DEF TrimmedTo
    <2>2. t # <<>> /\ vs # <<>> /\ t[1] = all[1]
      <3>1. vs # <<>> /\ t # <<>> BY <1>1, <1>2, <2>1
      <3> QED BY <2>1, <3>1 DEF Remains
    <2>3. ASSUME NEW k \in 2..Len(t) PROVE t[k] = all[n - Len(t) + k]
      <3>0. k \in 2..(h + 1) /\ Len(t) = h + 1 BY <2>1
      <3>1. m - h + k - 1 \in 2..m /\ n - m + (m - h + k - 1) = n - Len(t) + k
        <4> HIDE DEF m, n
        <4> QED BY <1>1, <2>1, <3>0
      <3>2. vs[m - h + k - 1] = all[n - m + (m - h + k - 1)] BY <3>1 DEF Remains
      <3> QED BY <2>1, <3>1, <3>2
    <2>4. Len(t) <= n /\ Len(t) > h BY <1>1, <2>1
    <2>5. Remains(t, all) BY <1>2, <2>2, <2>3, <2>4 DEF Remains, h
    <2> QED BY <2>5 DEF t
  <1> QED BY <1>1, <1>3, <1>4

\* A change: v is appended, and the history trimmed.
LEMMA TravelWrite ==
  ASSUME TravelInv, VersionsAssumption, ValAssumption,
         NEW r \in Record, NEW val \in Val \cup {NoVal}, NEW dead \in BOOLEAN,
         Travel!RecordVersion(r, val, dead)
  PROVE  TravelInv'
  <1> DEFINE v == [ver |-> Len(log[r]) + 1, val |-> val, at |-> now, dead |-> dead]
             t == Trim(Append(history[r], v), MaxHistory)
             more == Append(log[r], v)
  <1>1. /\ Len(log[r]) < MaxChanges
        /\ history' = [history EXCEPT ![r] = t] /\ log' = [log EXCEPT ![r] = more] /\ now' = now
    BY TravelCopies DEF Travel!RecordVersion, Travel!MaybeCompact
  <1>2. now \in Nat /\ log[r] \in Seq(Ver) /\ Len(log[r]) \in Nat BY DEF TravelInv
  <1>3. v \in Ver /\ v.ver = Len(log[r]) + 1 /\ v.at = now BY <1>2 DEF Ver
  <1>4. Numbered(log[r], now) /\ Remains(history[r], log[r]) BY DEF TravelInv
  <1> HIDE DEF v
  <1>5. Numbered(more, now) BY <1>1, <1>2, <1>3, <1>4, NumberedMore
  <1>6. Remains(Append(history[r], v), more) BY <1>2, <1>3, <1>4, RemainsMore
  <1>7. more \in Seq(Ver) BY <1>5 DEF Numbered
  <1> HIDE DEF more
  <1>8. Remains(t, more) /\ t \in Seq(Ver)
    <2>1. Remains(t, more) BY <1>6, <1>7, RemainsTrimmed
    <2> QED BY <2>1 DEF Remains
  <1> HIDE DEF t
  <1>9. log' \in [Record -> Seq(Ver)] /\ history' \in [Record -> Seq(Ver)] BY <1>1, <1>7, <1>8 DEF TravelInv
  <1>10. ASSUME NEW q \in Record PROVE Numbered(log'[q], now) /\ Remains(history'[q], log'[q])
    <2>1. CASE q = r BY <1>1, <1>5, <1>8, <2>1 DEF TravelInv
    <2>2. CASE q # r BY <1>1, <2>2 DEF TravelInv
    <2> QED BY <2>1, <2>2
  <1>11. \A q \in Record : Numbered(log[q], now)' /\ Remains(history[q], log[q])'
    <2>1. \A q \in Record : Numbered(log[q], now)' BY <1>1, <1>10 DEF Numbered
    <2>2. ASSUME NEW q \in Record PROVE Remains(history[q], log[q])'
      <3>1. Remains(history'[q], log'[q]) BY <1>10
      <3> QED BY <3>1 DEF Remains
    <2> QED BY <2>1, <2>2
  <1> QED BY <1>1, <1>2, <1>9, <1>11 DEF TravelInv

LEMMA TravelStep ==
  ASSUME TravelInv, Travel!Next, VersionsAssumption, ValAssumption PROVE TravelInv'
  <1>1. now \in Nat /\ log \in [Record -> Seq(Ver)] /\ history \in [Record -> Seq(Ver)] BY DEF TravelInv
  <1>2. ASSUME NEW r \in Record, NEW val \in Val, Travel!RecordVersion(r, val, FALSE) PROVE TravelInv'
    BY <1>2, TravelWrite
  <1>3. ASSUME NEW r \in Record, log[r] # <<>>, Travel!RecordVersion(r, Travel!Last(log[r]).val, TRUE)
        PROVE  TravelInv'
    <2>1. Len(log[r]) \in 1..Len(log[r]) /\ log[r] \in Seq(Ver) BY <1>1, <1>3
    <2>2. Travel!Last(log[r]) \in Ver BY <2>1, TravelCopies DEF Last
    <2>3. Travel!Last(log[r]).val \in Val \cup {NoVal} BY <2>2 DEF Ver
    <2> QED BY <1>3, <2>3, TravelWrite
  <1>4. ASSUME Travel!Tick PROVE TravelInv'
    <2>1. now' = now + 1 /\ log' = log /\ history' = history BY <1>4 DEF Travel!Tick
    <2>2. ASSUME NEW r \in Record PROVE Numbered(log[r], now + 1)
      <3>1. Numbered(log[r], now) /\ log[r] \in Seq(Ver) BY <1>1 DEF TravelInv
      <3>2. ASSUME NEW i \in 1..Len(log[r]) PROVE log[r][i].at <= now + 1
        <4>1. log[r][i] \in Ver /\ log[r][i].at <= now BY <3>1 DEF Numbered
        <4>2. log[r][i].at \in Nat BY <4>1 DEF Ver
        <4> QED BY <1>1, <4>1, <4>2
      <3> QED BY <3>1, <3>2 DEF Numbered
    <2>3. \A r \in Record : Numbered(log[r], now)' /\ Remains(history[r], log[r])'
      BY <2>1, <2>2 DEF TravelInv, Numbered, Remains
    <2> QED BY <1>1, <2>1, <2>3 DEF TravelInv
  <1> QED BY <1>2, <1>3, <1>4 DEF Travel!Next

\* Where in all the version at k of what remains of it is.
Origin(vs, all, k) == IF k = 1 THEN 1 ELSE Len(all) - Len(vs) + k

LEMMA RemainsIs ==
  ASSUME NEW vs, NEW all, NEW t, Numbered(all, t), Remains(vs, all)
  PROVE  /\ \A k \in 1..Len(vs) : /\ Origin(vs, all, k) \in 1..Len(all)
                                  /\ vs[k] = all[Origin(vs, all, k)] /\ vs[k].ver = Origin(vs, all, k)
                                  /\ vs[k] \in Ver /\ vs[k].at \in Nat /\ vs[k].at <= t
         /\ \A k, l \in 1..Len(vs) : k < l => /\ Origin(vs, all, k) < Origin(vs, all, l)
                                              /\ vs[k].at <= vs[l].at
  <1> DEFINE m == Len(vs)
             n == Len(all)
             o(k) == Origin(vs, all, k)
  <1>1. vs \in Seq(Ver) /\ all \in Seq(Ver) /\ m \in Nat /\ n \in Nat /\ m <= n
    BY DEF Remains, Numbered
  <1>2. \A k \in 1..m : o(k) \in 1..n
    <2> HIDE DEF m, n
    <2>1. \A k \in 1..m : o(k) = IF k = 1 THEN 1 ELSE n - m + k BY DEF Origin, m, n
    <2> HIDE DEF o
    <2> QED BY <1>1, <2>1
  <1>3. \A k, l \in 1..m : k < l => o(k) < o(l)
    <2> HIDE DEF m, n
    <2>1. \A k \in 1..m : o(k) = IF k = 1 THEN 1 ELSE n - m + k BY DEF Origin, m, n
    <2> HIDE DEF o
    <2> QED BY <1>1, <2>1
  <1>4. ASSUME NEW k \in 1..m PROVE vs[k] = all[o(k)]
    <2>1. CASE k = 1
      <3>1. vs # <<>> BY <1>1
      <3> QED BY <2>1, <3>1 DEF Remains, Origin
    <2>2. CASE k # 1
      <3>1. k \in 2..m BY <1>1, <2>2
      <3> QED BY <2>2, <3>1 DEF Remains, Origin
    <2> QED BY <2>1, <2>2
  <1> HIDE DEF o
  <1>5. ASSUME NEW k \in 1..m PROVE vs[k].ver = o(k) /\ vs[k] \in Ver /\ vs[k].at \in Nat /\ vs[k].at <= t
    <2>1. vs[k] \in Ver BY <1>1
    <2>2. vs[k].at \in Nat BY <2>1 DEF Ver
    <2>3. all[o(k)].ver = o(k) /\ all[o(k)].at <= t BY <1>2 DEF Numbered
    <2> QED BY <1>4, <2>1, <2>2, <2>3
  <1>6. ASSUME NEW k \in 1..m, NEW l \in 1..m, k < l PROVE vs[k].at <= vs[l].at
    <2>1. o(k) \in 1..n /\ o(l) \in 1..n /\ o(k) < o(l) BY <1>2, <1>3, <1>6
    <2>2. all[o(k)].at <= all[o(l)].at BY <2>1 DEF Numbered
    <2> QED BY <1>4, <2>2
  <1> QED BY <1>2, <1>3, <1>4, <1>5, <1>6 DEF o

\* Where what remains does not tell, it answers with the first version.
LEMMA RecentExact ==
  ASSUME NEW vs, NEW all, NEW t, Numbered(all, t), Remains(vs, all), NEW ts \in Nat
  PROVE  LET seen == VisibleIndex(all, ts)
             kept == VisibleIndex(vs, ts)
         IN IF \E i \in {j \in DOMAIN all : ~Contains(vs, all[j])} : seen = i
            THEN Shown(vs, kept, NoVal) = Shown(all, 1, NoVal)
            ELSE Shown(vs, kept, NoVal) = Shown(all, seen, NoVal)
  <1> DEFINE m == Len(vs)
             n == Len(all)
             o(k) == Origin(vs, all, k)
             seen == VisibleIndex(all, ts)
             kept == VisibleIndex(vs, ts)
             gone == {j \in DOMAIN all : ~Contains(vs, all[j])}
  <1>1. /\ vs \in Seq(Ver) /\ all \in Seq(Ver) /\ m \in Nat /\ n \in Nat /\ m <= n /\ DOMAIN all = 1..n
    BY DEF Remains, Numbered
  <1>2. /\ \A k \in 1..m : o(k) \in 1..n /\ vs[k] = all[o(k)] /\ vs[k].ver = o(k)
        /\ \A k \in 1..m : o(k) = IF k = 1 THEN 1 ELSE n - m + k
    BY RemainsIs DEF Origin
  <1>3. SeenAt(vs, ts, kept) /\ SeenAt(all, ts, seen) BY <1>1, Visible
  <1>4. \A i \in gone : i \in 1..n /\ \A k \in 1..m : all[i] # vs[k] BY <1>1 DEF Contains
  <1>5. \A i \in 1..n : (\A k \in 1..m : all[i] # vs[k]) => i \in gone BY <1>1 DEF Contains
  <1>6. m = 0 => n = 0
    <2>1. m = 0 => vs = <<>> BY <1>1
    <2> QED BY <2>1 DEF Remains
  <1>7. \A i \in 1..n : all[i].ver = i /\ all[i].at \in Nat
    <2>1. \A i \in 1..n : all[i] \in Ver BY <1>1
    <2> QED BY <2>1 DEF Numbered, Ver
  <1>8. \A i, j \in 1..n : i < j => all[i].at <= all[j].at BY DEF Numbered
  <1> HIDE DEF seen, kept, gone, o, m, n
  <1>9. /\ kept \in 0..m /\ seen \in 0..n
        /\ (\A j \in 1..kept : vs[j].at <= ts) /\ (\A j \in 1..seen : all[j].at <= ts)
        /\ (kept < m => ~(vs[kept + 1].at <= ts)) /\ (seen < n => ~(all[seen + 1].at <= ts))
    BY <1>3 DEF SeenAt, m, n
  <1>10. CASE kept = 0
    <2>1. seen = 0
      <3> SUFFICES ASSUME seen # 0 PROVE FALSE OBVIOUS
      <3>1. 1 \in 1..seen /\ 1 \in 1..m /\ kept < m /\ kept + 1 = 1 BY <1>1, <1>6, <1>9, <1>10
      <3>2. vs[1] = all[1] BY <1>2, <3>1
      <3> QED BY <1>9, <3>1, <3>2
    <2>2. ~\E i \in gone : seen = i BY <1>4, <2>1
    <2>3. Shown(vs, kept, NoVal) = NoVal /\ Shown(all, seen, NoVal) = NoVal BY <1>10, <2>1 DEF Shown
    <2> QED BY <2>2, <2>3 DEF seen, kept, gone
  <1>11. CASE kept # 0
    <2>1. kept \in 1..m /\ kept \in 1..kept BY <1>1, <1>9, <1>11
    <2>2. o(kept) \in 1..n /\ vs[kept] = all[o(kept)] /\ all[o(kept)].at <= ts BY <1>2, <1>9, <2>1
    <2>3. o(kept) <= seen
      <3> SUFFICES ASSUME seen < o(kept) PROVE FALSE BY <1>1, <1>9, <2>2
      <3>1. seen + 1 \in 1..n /\ seen < n BY <1>1, <1>9, <2>2
      <3>2. seen + 1 = o(kept) \/ seen + 1 < o(kept) BY <1>9, <2>2
      <3>3. all[seen + 1].at <= all[o(kept)].at BY <1>7, <1>8, <2>2, <3>1, <3>2
      <3> QED BY <1>7, <1>9, <2>2, <3>1, <3>3
    <2>4. seen <= n - m + kept
      <3>1. CASE kept = m BY <1>1, <1>9, <3>1
      <3>2. CASE kept # m
        <4>1. kept + 1 \in 1..m /\ kept < m /\ kept + 1 # 1 BY <1>1, <2>1, <3>2
        <4>2. o(kept + 1) = n - m + (kept + 1) BY <1>2, <4>1
        <4>3. ~(all[o(kept + 1)].at <= ts) BY <1>2, <1>9, <4>1
        <4>4. ~(o(kept + 1) \in 1..seen) BY <1>9, <4>3
        <4>5. o(kept + 1) \in 1..n BY <1>2, <4>1
        <4> QED BY <1>1, <1>9, <2>1, <4>2, <4>4, <4>5
      <3> QED BY <3>1, <3>2
    <2>5. CASE seen = o(kept)
      <3>1. all[seen] = vs[kept] BY <2>2, <2>5
      <3>2. ~\E i \in gone : seen = i BY <1>4, <2>1, <3>1
      <3>3. seen # 0 BY <2>2, <2>5
      <3>4. Shown(vs, kept, NoVal) = Shown(all, seen, NoVal) BY <1>11, <3>1, <3>3 DEF Shown
      <3> QED BY <3>2, <3>4 DEF seen, kept, gone
    <2>6. CASE seen # o(kept)
      <3>1. kept = 1 /\ o(kept) = 1
        <4>1. kept # 1 => o(kept) = n - m + kept BY <1>2, <2>1
        <4>2. kept = 1 BY <1>1, <1>9, <2>1, <2>2, <2>3, <2>4, <2>6, <4>1
        <4> QED BY <1>2, <2>1, <4>2
      <3>2. seen \in 1..n /\ seen > 1 /\ seen <= n - m + 1 BY <1>1, <1>9, <2>2, <2>3, <2>4, <2>6, <3>1
      <3>3. ASSUME NEW k \in 1..m PROVE all[seen] # vs[k]
        <4>1. vs[k].ver = o(k) /\ all[seen].ver = seen BY <1>2, <1>7, <3>2
        <4>2. o(k) # seen
          <5>1. CASE k = 1
            <6>1. o(k) = 1 BY <1>2, <5>1
            <6> QED BY <3>2, <6>1
          <5>2. CASE k # 1
            <6>1. o(k) = n - m + k BY <1>2, <5>2
            <6>2. k \in 2..m BY <1>1, <5>2
            <6> QED BY <1>1, <3>2, <6>1, <6>2
          <5> QED BY <5>1, <5>2
        <4> QED BY <4>1, <4>2
      <3>4. seen \in gone BY <1>5, <3>2, <3>3
      <3>5. Shown(vs, kept, NoVal) = Shown(all, 1, NoVal) BY <2>2, <3>1 DEF Shown
      <3> QED BY <3>4, <3>5 DEF seen, kept, gone
    <2> QED BY <2>5, <2>6
  <1> QED BY <1>10, <1>11

LEMMA TravelExact ==
  ASSUME TravelInv PROVE Travel!RecentHistoryExact
  <1>1. ASSUME NEW r \in Record, NEW ts \in 0..now
        PROVE  IF \E i \in {i \in DOMAIN log[r] : ~Contains(history[r], log[r][i])} :
                    VisibleIndex(log[r], ts) = i
               THEN Shown(history[r], VisibleIndex(history[r], ts), NoVal) = Shown(log[r], 1, NoVal)
               ELSE Shown(history[r], VisibleIndex(history[r], ts), NoVal) =
                      Shown(log[r], VisibleIndex(log[r], ts), NoVal)
    <2>1. Numbered(log[r], now) /\ Remains(history[r], log[r]) /\ ts \in Nat BY DEF TravelInv
    <2> QED BY <2>1, RecentExact
  <1> QED BY <1>1, TravelCopies DEF Travel!RecentHistoryExact, Travel!At

\* The difference of two versions that are both kept.
LEMMA TravelDiff ==
  ASSUME TravelInv, VersionsAssumption, NEW r \in Record, NEW i \in DOMAIN log[r],
         i > 1, i > Len(log[r]) - (MaxHistory \div 2) + 1
  PROVE  Travel!Diff(r, i - 1, i) =
           IF log[r][i - 1].val = log[r][i].val THEN {} ELSE {<<log[r][i - 1].val, log[r][i].val>>}
  <1> DEFINE vs == history[r]
             all == log[r]
             m == Len(vs)
             n == Len(all)
             h == MaxHistory \div 2
             o(k) == Origin(vs, all, k)
             of(w) == {v \in ToSet(vs) : v.ver = w}
  <1>1. Numbered(all, now) /\ Remains(vs, all) BY DEF TravelInv
  <1>2. /\ vs \in Seq(Ver) /\ all \in Seq(Ver) /\ m \in Nat /\ n \in Nat /\ m <= n /\ h \in Nat
        /\ DOMAIN all = 1..n /\ DOMAIN vs = 1..m /\ (m = n \/ m > h)
    BY <1>1, VersionsAssumption DEF Remains, Numbered
  <1>3. /\ \A k \in 1..m : o(k) \in 1..n /\ vs[k] = all[o(k)] /\ vs[k].ver = o(k)
        /\ \A k \in 1..m : o(k) = IF k = 1 THEN 1 ELSE n - m + k
    <2>1. \A k \in 1..m : o(k) \in 1..n /\ vs[k] = all[o(k)] /\ vs[k].ver = o(k)
      <3> HIDE DEF vs, all
      <3> QED BY <1>1, RemainsIs
    <2>2. \A k \in 1..m : o(k) = IF k = 1 THEN 1 ELSE n - m + k BY DEF Origin
    <2> QED BY <2>1, <2>2
  <1>4. i \in 1..n /\ i > n - h + 1 /\ i > 1 BY <1>2
  <1> HIDE DEF vs, all, m, n, h, o
  <1>5. ASSUME NEW w \in {i - 1, i} PROVE of(w) = {all[w]}
    <2> DEFINE k == m - n + w
    <2>0. w \in 1..n /\ w > n - h BY <1>2, <1>4
    <2>1. k \in 1..m /\ o(k) = w
      <3>1. CASE m = n
        <4>1. k = w /\ k \in 1..m BY <1>2, <2>0, <3>1
        <4> QED BY <1>2, <1>3, <3>1, <4>1
      <3>2. CASE m > h
        <4>1. k \in 2..m /\ n - m + k = w BY <1>2, <2>0, <3>2
        <4> QED BY <1>2, <1>3, <4>1
      <3> QED BY <1>2, <3>1, <3>2
    <2> HIDE DEF k
    <2>2. vs[k] = all[w] /\ vs[k].ver = w BY <1>3, <2>1
    <2>3. vs[k] \in ToSet(vs) BY <1>2, <2>1 DEF ToSet
    <2>4. ASSUME NEW v \in of(w) PROVE v = all[w]
      <3>1. PICK l \in 1..m : v = vs[l] BY <1>2 DEF ToSet
      <3>2. o(l) = w BY <1>3, <3>1
      <3> QED BY <1>3, <3>1, <3>2
    <2> QED BY <2>2, <2>3, <2>4
  <1> HIDE DEF of
  <1>6. of(i - 1) = {all[i - 1]} /\ of(i) = {all[i]} BY <1>5
  <1>7. Travel!Diff(r, i - 1, i) =
          IF of(i - 1) = {} \/ of(i) = {} THEN {}
          ELSE LET x == CHOOSE v \in of(i - 1) : TRUE
                   y == CHOOSE v \in of(i) : TRUE
               IN IF x.val = y.val THEN {} ELSE {<<x.val, y.val>>}
    BY TravelCopies, Zenon DEF Travel!Diff, of, vs
  <1>8. (CHOOSE v \in of(i - 1) : TRUE) = all[i - 1] /\ (CHOOSE v \in of(i) : TRUE) = all[i] BY <1>6
  <1> QED BY <1>6, <1>7, <1>8 DEF all

\* The time of a kept version, given by its record and its index.
TimeOf(c) == history[c[1]][c[2]].at

\* s is the versions found, each once, in the order of time.
InTime(s, found) ==
  /\ IsInjective(s)
  /\ \A i, j \in DOMAIN s : i < j => TimeOf(s[i]) <= TimeOf(s[j])

LEMMA InTimeExists ==
  ASSUME NEW found, IsFiniteSet(found), \A c \in found : TimeOf(c) \in Nat
  PROVE  \E s \in [1..Cardinality(found) -> found] : InTime(s, found)
  <1> DEFINE n == Cardinality(found)
  <1>1. n \in Nat BY FS_CardinalityType
  <1>2. ExistsBijection(found, 1..n)
    <2>1. IsFiniteSet(1..n) /\ Cardinality(1..n) = n BY <1>1, Initial
    <2> QED BY <2>1, FS_SameCardinalityBij
  <1>3. PICK num : num \in Bijection(found, 1..n) BY <1>2 DEF ExistsBijection
  <1>4. num \in [found -> 1..n] /\ \A c, d \in found : num[c] = num[d] => c = d
    BY <1>3 DEF Bijection, Injection, IsInjective
  <1> DEFINE R == {x \in found \X found : \/ TimeOf(x[1]) < TimeOf(x[2])
                                          \/ TimeOf(x[1]) = TimeOf(x[2]) /\ num[x[1]] < num[x[2]]}
             e == [k \in 1..n |-> CHOOSE c \in found : Cardinality(Before(R, found, c)) = k - 1]
  <1>5. \A c, d \in found : <<c, d>> \in R <=> (TimeOf(c) < TimeOf(d) \/ (TimeOf(c) = TimeOf(d) /\ num[c] < num[d]))
    OBVIOUS
  <1>6. \A c \in found : num[c] \in Nat /\ TimeOf(c) \in Nat BY <1>1, <1>4
  <1> HIDE DEF R
  <1>7. Orders(R, found)
    <2> HIDE DEF n
    <2>1. \A c \in found : <<c, c>> \notin R BY <1>5, <1>6
    <2>2. \A c, d, f \in found : <<c, d>> \in R /\ <<d, f>> \in R => <<c, f>> \in R BY <1>5, <1>6
    <2>3. \A c, d \in found : c # d => <<c, d>> \in R \/ <<d, c>> \in R BY <1>4, <1>5, <1>6
    <2> QED BY <2>1, <2>2, <2>3 DEF Orders
  <1>8. /\ e \in [1..n -> found]
        /\ \A k, l \in 1..n : k < l => <<e[k], e[l]>> \in R
    BY <1>7, Ranks
  <1> HIDE DEF e
  <1>9. \A k, l \in 1..n : k < l => TimeOf(e[k]) <= TimeOf(e[l]) /\ e[k] # e[l]
    <2> SUFFICES ASSUME NEW k \in 1..n, NEW l \in 1..n, k < l
                 PROVE  TimeOf(e[k]) <= TimeOf(e[l]) /\ e[k] # e[l]
      OBVIOUS
    <2>1. e[k] \in found /\ e[l] \in found /\ <<e[k], e[l]>> \in R BY <1>8
    <2> QED BY <1>5, <1>6, <1>7, <2>1 DEF Orders
  <1>10. IsInjective(e)
    <2>1. ASSUME NEW k \in 1..n, NEW l \in 1..n, k # l PROVE e[k] # e[l]
      <3>1. k < l \/ l < k BY <1>1, <2>1
      <3> QED BY <1>9, <3>1
    <2>2. DOMAIN e = 1..n BY <1>8
    <2> QED BY <2>1, <2>2 DEF IsInjective
  <1>11. DOMAIN e = 1..n BY <1>8
  <1>12. InTime(e, found) BY <1>9, <1>10, <1>11 DEF InTime
  <1> QED BY <1>8, <1>12

LEMMA ByTimeIs ==
  ASSUME NEW found, IsFiniteSet(found), \A c \in found : TimeOf(c) \in Nat
  PROVE  LET s == Travel!ByTime(found)
         IN /\ InTime(s, found) /\ s \in [1..Cardinality(found) -> found]
            /\ \A c \in found : \E k \in 1..Cardinality(found) : s[k] = c
  <1> DEFINE s == Travel!ByTime(found)
             n == Cardinality(found)
  <1>1. s = CHOOSE x \in [1..n -> found] : InTime(x, found)
    BY TravelCopies, TravelCardinality DEF Travel!ByTime, InTime, TimeOf
  <1>2. \E x \in [1..n -> found] : InTime(x, found) BY InTimeExists
  <1> HIDE DEF s
  <1>3. s \in [1..n -> found] /\ InTime(s, found) BY <1>1, <1>2
  <1>4. s \in Surjection(1..n, found)
    <2>1. s \in Injection(1..n, found) BY <1>3 DEF Injection, InTime
    <2>2. n \in Nat BY FS_CardinalityType
    <2>3. IsFiniteSet(1..n) /\ Cardinality(1..n) = n BY <2>2, Initial
    <2> QED BY <2>1, <2>3, FS_Injection
  <1>5. \A c \in found : \E k \in 1..n : s[k] = c BY <1>4 DEF Surjection
  <1> QED BY <1>3, <1>5 DEF s

\* cs is the changes of a period.
PeriodIs(cs, lo, hi) ==
  /\ IsInjective(cs)
  /\ \A i, j \in DOMAIN cs :
       i < j => history[cs[i][1]][cs[i][2]].at <= history[cs[j][1]][cs[j][2]].at
  /\ \A r \in Record : \A i \in {i \in DOMAIN log[r] : i > Len(log[r]) - (MaxHistory \div 2)} :
       log[r][i].at \in lo..hi => \E c \in ToSet(cs) : c[1] = r /\ history[r][c[2]].ver = i

LEMMA TravelChanges ==
  ASSUME TravelInv, VersionsAssumption, NEW lo \in 0..now, NEW hi \in 0..now
  PROVE  PeriodIs(Travel!ChangesBetween(lo, hi), lo, hi)
  <1> DEFINE found == {c \in Record \X (1..MaxChanges) :
                         /\ c[2] \in DOMAIN history[c[1]]
                         /\ lo <= history[c[1]][c[2]].at /\ history[c[1]][c[2]].at <= hi}
             cs == Travel!ByTime(found)
             h == MaxHistory \div 2
  <1>1. Travel!ChangesBetween(lo, hi) = cs BY DEF Travel!ChangesBetween
  <1>2. IsFiniteSet(found)
    <2>1. IsFiniteSet(Record) /\ IsFiniteSet(1..MaxChanges) BY VersionsAssumption, Initial
    <2>2. IsFiniteSet(Record \X (1..MaxChanges)) BY <2>1, FS_Product
    <2>3. found \in SUBSET (Record \X (1..MaxChanges)) OBVIOUS
    <2> HIDE DEF found
    <2> QED BY <2>2, <2>3, FS_Subset
  <1>3. now \in Nat /\ h \in Nat /\ MaxChanges \in Nat BY VersionsAssumption DEF TravelInv
  <1>4. ASSUME NEW r \in Record
        PROVE  /\ Numbered(log[r], now) /\ Remains(history[r], log[r])
               /\ DOMAIN history[r] = 1..Len(history[r]) /\ DOMAIN log[r] = 1..Len(log[r])
               /\ Len(history[r]) \in Nat /\ Len(log[r]) \in Nat
               /\ Len(history[r]) <= Len(log[r]) /\ Len(log[r]) <= MaxChanges
               /\ Len(history[r]) = Len(log[r]) \/ Len(history[r]) > h
    <2>1. Numbered(log[r], now) /\ Remains(history[r], log[r]) BY DEF TravelInv
    <2>2. history[r] \in Seq(Ver) /\ log[r] \in Seq(Ver) BY DEF TravelInv
    <2> HIDE DEF h
    <2>3. Len(history[r]) <= Len(log[r]) /\ Len(log[r]) <= MaxChanges BY <2>1 DEF Numbered, Remains
    <2>4. Len(history[r]) = Len(log[r]) \/ Len(history[r]) > h BY <2>1 DEF Remains, h
    <2>5. /\ DOMAIN history[r] = 1..Len(history[r]) /\ DOMAIN log[r] = 1..Len(log[r])
          /\ Len(history[r]) \in Nat /\ Len(log[r]) \in Nat
      BY <2>2
    <2> QED BY <2>1, <2>3, <2>4, <2>5
  <1>5. \A c \in found : TimeOf(c) \in Nat
    <2>1. ASSUME NEW c \in found PROVE TimeOf(c) \in Nat
      <3>1. c[1] \in Record /\ c[2] \in 1..Len(history[c[1]]) BY <1>4
      <3>2. history[c[1]][c[2]].at \in Nat BY <1>4, <3>1, RemainsIs
      <3> QED BY <3>2 DEF TimeOf
    <2> QED BY <2>1
  <1>6. ASSUME NEW r \in Record, NEW i \in DOMAIN log[r], i > Len(log[r]) - h, log[r][i].at \in lo..hi
        PROVE  \E c \in found : c[1] = r /\ history[r][c[2]].ver = i
    <2> DEFINE m == Len(history[r])
               n == Len(log[r])
               k == m - n + i
    <2>1. m \in Nat /\ n \in Nat /\ m <= n /\ n <= MaxChanges /\ i \in 1..n /\ i > n - h /\ (m = n \/ m > h)
      BY <1>4, <1>6
    <2>2. k \in 1..m /\ Origin(history[r], log[r], k) = i
      <3> HIDE DEF m, n
      <3>1. CASE m = n
        <4>1. k = i /\ k \in 1..m BY <2>1, <3>1
        <4> QED BY <2>1, <3>1, <4>1 DEF Origin, m, n
      <3>2. CASE m > h
        <4>1. k \in 2..m /\ n - m + k = i /\ k # 1 BY <1>3, <2>1, <3>2
        <4>2. k \in 1..m BY <2>1, <4>1
        <4>3. Origin(history[r], log[r], k) = n - m + k BY <4>1 DEF Origin, m, n
        <4> QED BY <4>1, <4>2, <4>3
      <3> QED BY <2>1, <3>1, <3>2
    <2> HIDE DEF k
    <2>3. history[r][k] = log[r][i] /\ history[r][k].ver = i BY <1>4, <2>2, RemainsIs
    <2>4. lo <= history[r][k].at /\ history[r][k].at <= hi BY <1>6, <2>3
    <2>5. k \in 1..MaxChanges /\ k \in DOMAIN history[r] BY <1>3, <1>4, <2>1, <2>2
    <2>6. <<r, k>> \in found BY <2>4, <2>5
    <2> HIDE DEF found
    <2> QED BY <2>3, <2>6
  <1> HIDE DEF found, h
  <1>7. /\ InTime(cs, found) /\ cs \in [1..Cardinality(found) -> found]
        /\ \A c \in found : \E k \in 1..Cardinality(found) : cs[k] = c
    BY <1>2, <1>5, ByTimeIs
  <1> HIDE DEF cs
  <1>8. ASSUME NEW c \in found PROVE c \in ToSet(cs)
    <2>1. DOMAIN cs = 1..Cardinality(found) BY <1>7
    <2> QED BY <1>7, <2>1 DEF ToSet
  <1>9. ASSUME NEW r \in Record, NEW i \in {i \in DOMAIN log[r] : i > Len(log[r]) - h}, log[r][i].at \in lo..hi
        PROVE  \E c \in ToSet(cs) : c[1] = r /\ history[r][c[2]].ver = i
    BY <1>6, <1>8, <1>9
  <1>10. /\ IsInjective(cs)
         /\ \A i, j \in DOMAIN cs :
              i < j => history[cs[i][1]][cs[i][2]].at <= history[cs[j][1]][cs[j][2]].at
    BY <1>7 DEF InTime, TimeOf
  <1> QED BY <1>1, <1>9, <1>10 DEF PeriodIs, h

LEMMA TravelComplete ==
  ASSUME TravelInv, VersionsAssumption PROVE Travel!ChangesComplete
  <1>1. ASSUME NEW lo \in 0..now, NEW hi \in 0..now
        PROVE  LET cs == Travel!ChangesBetween(lo, hi)
                   kept(r) == {i \in DOMAIN log[r] : i > Len(log[r]) - (MaxHistory \div 2)}
               IN /\ Travel!IsInjective(cs)
                  /\ \A i, j \in DOMAIN cs :
                       i < j => history[cs[i][1]][cs[i][2]].at <= history[cs[j][1]][cs[j][2]].at
                  /\ \A r \in Record : \A i \in kept(r) :
                       log[r][i].at \in lo..hi =>
                         \E c \in Travel!ToSet(cs) : c[1] = r /\ history[r][c[2]].ver = i
    <2>1. PeriodIs(Travel!ChangesBetween(lo, hi), lo, hi) BY TravelChanges
    <2> DEFINE cs == Travel!ChangesBetween(lo, hi)
    <2>2. Travel!IsInjective(cs) = IsInjective(cs) /\ Travel!ToSet(cs) = ToSet(cs) BY TravelCopies
    <2>3. PeriodIs(cs, lo, hi) BY <2>1
    <2> HIDE DEF cs
    <2>4. /\ Travel!IsInjective(cs)
          /\ \A i, j \in DOMAIN cs :
               i < j => history[cs[i][1]][cs[i][2]].at <= history[cs[j][1]][cs[j][2]].at
          /\ \A r \in Record : \A i \in {i \in DOMAIN log[r] : i > Len(log[r]) - (MaxHistory \div 2)} :
               log[r][i].at \in lo..hi =>
                 \E c \in Travel!ToSet(cs) : c[1] = r /\ history[r][c[2]].ver = i
      <3>1. IsInjective(cs) BY <2>3, Zenon DEF PeriodIs
      <3>2. Travel!IsInjective(cs) BY <2>2, <3>1
      <3>3. Travel!ToSet(cs) = ToSet(cs) BY <2>2
      <3>4. \A i, j \in DOMAIN cs :
              i < j => history[cs[i][1]][cs[i][2]].at <= history[cs[j][1]][cs[j][2]].at
        BY <2>3, Zenon DEF PeriodIs
      <3>5. \A r \in Record : \A i \in {i \in DOMAIN log[r] : i > Len(log[r]) - (MaxHistory \div 2)} :
              log[r][i].at \in lo..hi => \E c \in ToSet(cs) : c[1] = r /\ history[r][c[2]].ver = i
        BY <2>3, Zenon DEF PeriodIs
      <3>6. \A r \in Record : \A i \in {i \in DOMAIN log[r] : i > Len(log[r]) - (MaxHistory \div 2)} :
              log[r][i].at \in lo..hi => \E c \in Travel!ToSet(cs) : c[1] = r /\ history[r][c[2]].ver = i
        <4> SUFFICES ASSUME NEW r \in Record,
                            NEW i \in {i \in DOMAIN log[r] : i > Len(log[r]) - (MaxHistory \div 2)},
                            log[r][i].at \in lo..hi
                     PROVE  \E c \in Travel!ToSet(cs) : c[1] = r /\ history[r][c[2]].ver = i
          BY Zenon
        <4>1. \E c \in ToSet(cs) : c[1] = r /\ history[r][c[2]].ver = i BY <3>5, Zenon
        <4> QED BY <3>3, <4>1, Zenon
      <3> QED BY <3>2, <3>4, <3>6
    <2> USE DEF cs
    <2> QED BY <2>4, Zenon
  <1>2. \A r \in Record : \A i \in DOMAIN log[r] :
          i > 1 /\ i > Len(log[r]) - (MaxHistory \div 2) + 1 =>
            Travel!Diff(r, i - 1, i) =
              IF log[r][i - 1].val = log[r][i].val THEN {} ELSE {<<log[r][i - 1].val, log[r][i].val>>}
    BY TravelDiff
  <1> QED BY <1>1, <1>2, Zenon DEF Travel!ChangesComplete

\* from is the binary search of vs for ts, for every range of indices.
Halving(vs, ts, from) ==
  from = [range \in (1..(Len(vs) + 1)) \X (0..Len(vs)) |->
            LET lo == range[1]
                hi == range[2]
                mid == (lo + hi) \div 2
            IN IF lo > hi THEN 0
               ELSE IF vs[mid].at <= ts THEN Travel!Max({mid, from[<<mid + 1, hi>>]})
                    ELSE from[<<lo, mid - 1>>]]

LEMMA SearchUnfolds ==
  ASSUME NEW vs, NEW ts
  PROVE  Travel!SearchIndex(vs, ts) = (CHOOSE from : Halving(vs, ts, from))[<<1, Len(vs)>>]
  BY Zenon DEF Travel!SearchIndex, Halving

LEMMA MaxOfTwo ==
  ASSUME NEW a \in Nat, NEW b \in Nat PROVE Travel!Max({a, b}) = IF a >= b THEN a ELSE b
  <1> DEFINE m == IF a >= b THEN a ELSE b
  <1>1. m \in {a, b} /\ \A y \in {a, b} : m >= y OBVIOUS
  <1>2. \A x \in {a, b} : (\A y \in {a, b} : x >= y) => x = m OBVIOUS
  <1> HIDE DEF m
  <1>3. Travel!Max({a, b}) = CHOOSE x \in {a, b} : \A y \in {a, b} : x >= y BY DEF Travel!Max
  <1>4. Travel!Max({a, b}) = m BY <1>1, <1>2, <1>3
  <1> QED BY <1>4 DEF m

\* What a search of lo..hi finds when k is the last index not after ts.
Found(k, lo, hi) == IF lo <= hi /\ lo <= k THEN (IF k < hi THEN k ELSE hi) ELSE 0

Searched(vs, ts, k) ==
  /\ vs \in Seq(Ver) /\ k \in 0..Len(vs) /\ \A i \in 1..Len(vs) : vs[i].at <= ts <=> i <= k

\* Halving a range.
LEMMA HalfFound ==
  ASSUME NEW n \in Nat, NEW k \in 0..n, NEW lo \in 1..(n + 1), NEW hi \in 0..n, lo <= hi
  PROVE  LET mid == (lo + hi) \div 2
         IN /\ mid \in lo..hi /\ mid \in 1..n
            /\ mid + 1 \in 1..(n + 1) /\ mid - 1 \in 0..n
            /\ Found(k, mid + 1, hi) \in Nat
            /\ Found(k, lo, hi) = IF mid <= k THEN Travel!Max({mid, Found(k, mid + 1, hi)})
                                  ELSE Found(k, lo, mid - 1)
  <1> DEFINE mid == (lo + hi) \div 2
  <1>1. mid \in Nat /\ lo <= mid /\ mid <= hi OBVIOUS
  <1> HIDE DEF mid
  <1>2. mid \in lo..hi /\ mid \in 1..n /\ mid + 1 \in 1..(n + 1) /\ mid - 1 \in 0..n BY <1>1
  <1>3. Found(k, mid + 1, hi) \in Nat BY <1>2 DEF Found
  <1>4. CASE mid <= k
    <2>1. Travel!Max({mid, Found(k, mid + 1, hi)}) =
            IF mid >= Found(k, mid + 1, hi) THEN mid ELSE Found(k, mid + 1, hi)
      BY <1>1, <1>3, MaxOfTwo
    <2>2. Found(k, lo, hi) = IF mid >= Found(k, mid + 1, hi) THEN mid ELSE Found(k, mid + 1, hi)
      BY <1>1, <1>2, <1>4 DEF Found
    <2> QED BY <1>2, <1>3, <1>4, <2>1, <2>2 DEF mid
  <1>5. CASE ~(mid <= k)
    <2>1. Found(k, lo, hi) = Found(k, lo, mid - 1) BY <1>1, <1>2, <1>5 DEF Found
    <2> QED BY <1>2, <1>3, <1>5, <2>1 DEF mid
  <1> QED BY <1>4, <1>5

\* What one halving does, of any function that stands for the search.
Halves(vs, ts, from, lo, hi) ==
  from[<<lo, hi>>] =
    IF lo > hi THEN 0
    ELSE IF vs[(lo + hi) \div 2].at <= ts THEN Travel!Max({(lo + hi) \div 2, from[<<(lo + hi) \div 2 + 1, hi>>]})
         ELSE from[<<lo, (lo + hi) \div 2 - 1>>]

LEMMA HalvingHalves ==
  ASSUME NEW vs, NEW ts, NEW from, Halving(vs, ts, from), NEW lo \in 1..(Len(vs) + 1), NEW hi \in 0..Len(vs)
  PROVE  Halves(vs, ts, from, lo, hi)
  <1>1. <<lo, hi>> \in (1..(Len(vs) + 1)) \X (0..Len(vs)) OBVIOUS
  <1> QED BY <1>1 DEF Halving, Halves

\* The search is defined, and finds the index.
LEMMA HalvingIs ==
  ASSUME NEW vs, NEW ts, NEW k, Searched(vs, ts, k), NEW from, Halving(vs, ts, from)
  PROVE  \A lo \in 1..(Len(vs) + 1), hi \in 0..Len(vs) : from[<<lo, hi>>] = Found(k, lo, hi)
  <1> DEFINE n == Len(vs)
             T == {d \in Nat : \E lo \in 1..(n + 1), hi \in 0..n :
                     hi < lo + d /\ from[<<lo, hi>>] # Found(k, lo, hi)}
  <1>1. n \in Nat /\ k \in 0..n /\ \A i \in 1..n : vs[i].at <= ts <=> i <= k BY DEF Searched
  <1>2. SUFFICES ASSUME NEW l \in 1..(n + 1), NEW h \in 0..n, from[<<l, h>>] # Found(k, l, h) PROVE FALSE
    OBVIOUS
  <1>3. h + 1 \in T
    <2>1. h + 1 \in Nat /\ h < l + (h + 1) OBVIOUS
    <2> QED BY <1>2, <2>1
  <1>4. PICK d \in T : \A e \in T : d <= e BY <1>3, Least
  <1>5. d \in Nat OBVIOUS
  <1>6. PICK lo \in 1..(n + 1), hi \in 0..n : hi < lo + d /\ from[<<lo, hi>>] # Found(k, lo, hi) OBVIOUS
  <1>7. ASSUME NEW a \in 1..(n + 1), NEW b \in 0..n, d >= 1, b < a + (d - 1)
        PROVE  from[<<a, b>>] = Found(k, a, b)
    <2>1. d - 1 \in Nat /\ ~(d <= d - 1) BY <1>5, <1>7
    <2>2. d - 1 \notin T BY <1>4, <2>1
    <2> QED BY <1>7, <2>1, <2>2
  <1> HIDE DEF T, n
  <1>8. Halves(vs, ts, from, lo, hi) BY HalvingHalves DEF n
  <1>9. CASE lo > hi
    <2>1. Found(k, lo, hi) = 0 BY <1>1, <1>9 DEF Found
    <2> QED BY <1>6, <1>8, <1>9, <2>1 DEF Halves
  <1>10. CASE ~(lo > hi)
    <2> DEFINE mid == (lo + hi) \div 2
    <2>1. lo <= hi /\ d >= 1 BY <1>1, <1>5, <1>6, <1>10
    <2>2. /\ mid \in lo..hi /\ mid \in 1..n
          /\ mid + 1 \in 1..(n + 1) /\ mid - 1 \in 0..n
          /\ Found(k, lo, hi) = IF mid <= k THEN Travel!Max({mid, Found(k, mid + 1, hi)})
                                ELSE Found(k, lo, mid - 1)
      BY <1>1, <2>1, HalfFound
    <2>3. from[<<lo, hi>>] = IF vs[mid].at <= ts THEN Travel!Max({mid, from[<<mid + 1, hi>>]})
                             ELSE from[<<lo, mid - 1>>]
      BY <1>8, <1>10 DEF Halves
    <2> HIDE DEF mid
    <2>4. hi < (mid + 1) + (d - 1) /\ mid - 1 < lo + (d - 1) BY <1>1, <1>5, <1>6, <2>2
    <2>5. from[<<mid + 1, hi>>] = Found(k, mid + 1, hi) /\ from[<<lo, mid - 1>>] = Found(k, lo, mid - 1)
      BY <1>7, <2>1, <2>2, <2>4
    <2>6. vs[mid].at <= ts <=> mid <= k BY <1>1, <2>2
    <2> QED BY <1>6, <2>2, <2>3, <2>5, <2>6
  <1> QED BY <1>9, <1>10

LEMMA HalvingExists ==
  ASSUME NEW vs, NEW ts, NEW k, Searched(vs, ts, k) PROVE \E from : Halving(vs, ts, from)
  <1> DEFINE n == Len(vs)
             D == (1..(n + 1)) \X (0..n)
             from == [range \in D |-> Found(k, range[1], range[2])]
             step == [range \in D |->
                        LET lo == range[1]
                            hi == range[2]
                            mid == (lo + hi) \div 2
                        IN IF lo > hi THEN 0
                           ELSE IF vs[mid].at <= ts THEN Travel!Max({mid, from[<<mid + 1, hi>>]})
                                ELSE from[<<lo, mid - 1>>]]
  <1>1. n \in Nat /\ k \in 0..n /\ \A i \in 1..n : vs[i].at <= ts <=> i <= k BY DEF Searched
  <1>2. \A a \in 1..(n + 1), b \in 0..n : from[<<a, b>>] = Found(k, a, b) OBVIOUS
  <1>3. ASSUME NEW range \in D PROVE step[range] = Found(k, range[1], range[2])
    <2> DEFINE lo == range[1]
               hi == range[2]
               mid == (lo + hi) \div 2
    <2>1. lo \in 1..(n + 1) /\ hi \in 0..n OBVIOUS
    <2> HIDE DEF from
    <2>2. step[range] = IF lo > hi THEN 0
                        ELSE IF vs[mid].at <= ts THEN Travel!Max({mid, from[<<mid + 1, hi>>]})
                             ELSE from[<<lo, mid - 1>>]
      OBVIOUS
    <2> HIDE DEF step, lo, hi
    <2>3. CASE lo > hi
      <3>1. Found(k, lo, hi) = 0 BY <1>1, <2>1, <2>3 DEF Found
      <3> QED BY <2>2, <2>3, <3>1 DEF lo, hi
    <2>4. CASE ~(lo > hi)
      <3>1. lo <= hi BY <1>1, <2>1, <2>4
      <3>2. /\ mid \in 1..n /\ mid + 1 \in 1..(n + 1) /\ mid - 1 \in 0..n
            /\ Found(k, lo, hi) = IF mid <= k THEN Travel!Max({mid, Found(k, mid + 1, hi)})
                                  ELSE Found(k, lo, mid - 1)
        BY <1>1, <2>1, <3>1, HalfFound
      <3> HIDE DEF mid
      <3>3. vs[mid].at <= ts <=> mid <= k BY <1>1, <3>2
      <3>4. from[<<mid + 1, hi>>] = Found(k, mid + 1, hi) /\ from[<<lo, mid - 1>>] = Found(k, lo, mid - 1)
        BY <1>2, <2>1, <3>2
      <3>5. step[range] = Found(k, lo, hi) BY <2>2, <2>4, <3>2, <3>3, <3>4
      <3> QED BY <3>5 DEF lo, hi
    <2> QED BY <2>3, <2>4
  <1>4. from = step
    <2>1. from = [range \in D |-> from[range]] /\ step = [range \in D |-> step[range]] OBVIOUS
    <2>2. \A range \in D : from[range] = step[range] BY <1>3
    <2> HIDE DEF from, step
    <2> QED BY <2>1, <2>2
  <1> HIDE DEF from
  <1>5. Halving(vs, ts, from) BY <1>4 DEF Halving
  <1> QED BY <1>5

LEMMA SearchIs ==
  ASSUME NEW vs, NEW ts \in Nat, NEW all, NEW t, Numbered(all, t), Remains(vs, all)
  PROVE  Travel!SearchIndex(vs, ts) = VisibleIndex(vs, ts)
  <1> DEFINE n == Len(vs)
             k == VisibleIndex(vs, ts)
  <1>1. vs \in Seq(Ver) /\ n \in Nat BY DEF Remains
  <1>2. SeenAt(vs, ts, k) BY <1>1, Visible
  <1>3. /\ \A i \in 1..n : vs[i].at \in Nat
        /\ \A i, j \in 1..n : i < j => vs[i].at <= vs[j].at
    BY RemainsIs
  <1> HIDE DEF k
  <1>4. k \in 0..n BY <1>2 DEF SeenAt
  <1>5. ASSUME NEW i \in 1..n PROVE vs[i].at <= ts <=> i <= k
    <2>1. CASE i <= k
      <3>1. i \in 1..k BY <1>4, <2>1
      <3> QED BY <1>2, <2>1, <3>1 DEF SeenAt
    <2>2. CASE ~(i <= k)
      <3>1. k + 1 \in 1..n /\ k < n /\ (k + 1 = i \/ k + 1 < i) BY <1>1, <1>4, <2>2
      <3>2. ~(vs[k + 1].at <= ts) BY <1>2, <3>1 DEF SeenAt
      <3>3. vs[k + 1].at <= vs[i].at BY <1>3, <3>1
      <3> QED BY <1>3, <2>2, <3>1, <3>2, <3>3
    <2> QED BY <2>1, <2>2
  <1>6. Searched(vs, ts, k) BY <1>1, <1>4, <1>5 DEF Searched
  <1> DEFINE from == CHOOSE f : Halving(vs, ts, f)
  <1>7. Halving(vs, ts, from) BY <1>6, HalvingExists
  <1>8. Travel!SearchIndex(vs, ts) = from[<<1, n>>] BY SearchUnfolds
  <1> HIDE DEF from
  <1>9. from[<<1, n>>] = Found(k, 1, n)
    <2>1. 1 \in 1..(n + 1) /\ n \in 0..n BY <1>1
    <2> QED BY <1>6, <1>7, <2>1, HalvingIs
  <1>10. Found(k, 1, n) = k BY <1>1, <1>4 DEF Found
  <1> QED BY <1>8, <1>9, <1>10 DEF k

LEMMA TravelSnapshot ==
  ASSUME TravelInv PROVE Travel!SnapshotIsAt
  <1>1. ASSUME NEW ts \in 0..now, NEW r \in Record
        PROVE  Travel!Shown(history[r], Travel!SearchIndex(history[r], ts), NoVal) = Travel!At(r, ts)
    <2>1. Numbered(log[r], now) /\ Remains(history[r], log[r]) /\ ts \in Nat BY DEF TravelInv
    <2>2. Travel!SearchIndex(history[r], ts) = Travel!VisibleIndex(history[r], ts)
      BY <2>1, SearchIs, TravelCopies
    <2> QED BY <2>2 DEF Travel!At
  <1>2. ASSUME NEW ts \in 0..now
        PROVE  Travel!SnapshotAt(ts) =
                 {<<r, Travel!At(r, ts)>> : r \in {q \in Record : Travel!At(q, ts) # NoVal}}
    BY <1>1 DEF Travel!SnapshotAt
  <1> QED BY <1>2 DEF Travel!SnapshotIsAt

LEMMA TravelHolds ==
  ASSUME TravelInv, VersionsAssumption
  PROVE  Travel!SnapshotIsAt /\ Travel!RecentHistoryExact /\ Travel!ChangesComplete
  BY TravelSnapshot, TravelExact, TravelComplete

-----------------------------------------------------------------------------
(* The parts together.                                                     *)

Inv == LruInv /\ PagesInv /\ PointsInv /\ MvccInv /\ TravelInv

\* The clock stands still or goes on.
Later == now \in Nat /\ now' \in Nat /\ now <= now'

\* A step of another part.
LEMMA LruWaits == ASSUME LruInv, Later, UNCHANGED lruVars PROVE LruInv'
  BY DEF LruInv, CacheIs, Later, lruVars

LEMMA PagesWait == ASSUME PagesInv, UNCHANGED pageVars PROVE PagesInv'
  BY DEF PagesInv, UseIs, PagesAre, WrittenIs, pageVars

LEMMA PointsWait == ASSUME PointsInv, UNCHANGED savepointVars PROVE PointsInv'
  BY DEF PointsInv, Remember, savepointVars

LEMMA MvccWaits == ASSUME MvccInv, Later, UNCHANGED mvccVars PROVE MvccInv' /\ MvccChange
  <1>1. chains' = chains /\ written' = written /\ again' = again BY DEF mvccVars
  <1>2. ASSUME NEW r \in Doc, NEW i \in 1..Len(chains[r]) PROVE chains[r][i].at <= now'
    <2>1. chains[r][i].at <= now BY DEF MvccInv, Among
    <2>2. chains[r] \in Seq(Ver) BY DEF MvccInv
    <2>3. chains[r][i] \in Ver BY <2>2
    <2>4. chains[r][i].at \in Nat BY <2>3 DEF Ver
    <2> QED BY <2>1, <2>4 DEF Later
  <1>3. \A r \in Doc : Among(chains[r], written[r])'
    <2>1. \A r \in Doc : Among(chains[r], written[r]) BY DEF MvccInv
    <2> QED BY <1>1, <1>2, <2>1 DEF Among
  <1>4. \A r \in Doc \ again' : Ends(chains[r], written[r])' BY <1>1 DEF MvccInv, Ends, Ascending
  <1>5. MvccInv' BY <1>1, <1>3, <1>4 DEF MvccInv, Later
  <1>6. MvccChange BY <1>1 DEF MvccChange
  <1> QED BY <1>5, <1>6

LEMMA TravelWaits == ASSUME TravelInv, Later, UNCHANGED travelVars PROVE TravelInv'
  <1>1. history' = history /\ log' = log BY DEF travelVars
  <1>2. ASSUME NEW r \in Record PROVE Numbered(log[r], now')
    <2>1. Numbered(log[r], now) /\ log[r] \in Seq(Ver) BY DEF TravelInv
    <2>2. ASSUME NEW i \in 1..Len(log[r]) PROVE log[r][i].at <= now'
      <3>1. log[r][i] \in Ver /\ log[r][i].at <= now BY <2>1 DEF Numbered
      <3>2. log[r][i].at \in Nat BY <3>1 DEF Ver
      <3> QED BY <3>1, <3>2 DEF Later
    <2> QED BY <2>1, <2>2 DEF Numbered
  <1>3. \A r \in Record : Numbered(log[r], now)' BY <1>1, <1>2 DEF Numbered
  <1>4. \A r \in Record : Remains(history[r], log[r])' BY <1>1 DEF TravelInv, Remains
  <1> QED BY <1>1, <1>3, <1>4 DEF TravelInv, Later

LEMMA Clock == ASSUME now \in Nat, [Next]_vars PROVE Later
  <1>1. ASSUME Lru!Next PROVE now' \in {now, now + 1}
    BY <1>1 DEF Lru!Next, Lru!Get, Lru!Set, Lru!Invalidate, Lru!InvalidateCollection, Lru!CleanupExpired,
                Lru!Clear, Lru!Tick
  <1>2. ASSUME Mvcc!Next PROVE now' \in {now, now + 1}
    BY <1>2 DEF Mvcc!Next, Mvcc!Insert, Mvcc!Update, Mvcc!Delete, Mvcc!Gc, Mvcc!Tick, Mvcc!Add
  <1>3. ASSUME Travel!Next PROVE now' \in {now, now + 1}
    BY <1>3 DEF Travel!Next, Travel!RecordVersion, Travel!Tick
  <1>4. now' \in {now, now + 1} BY <1>1, <1>2, <1>3 DEF Next, vars
  <1> QED BY <1>4 DEF Later

LEMMA PartsStep == Inv /\ [Next]_vars => Inv' /\ MvccChange
  <1> SUFFICES ASSUME Inv, [Next]_vars PROVE Inv' /\ MvccChange OBVIOUS
  <1>0. /\ ValAssumption /\ CacheAssumption /\ PagesAssumption /\ KeyAssumption /\ VersionsAssumption
    BY ValAssumption, CacheAssumption, PagesAssumption, KeyAssumption, VersionsAssumption
  <1>1. LruInv /\ PagesInv /\ PointsInv /\ MvccInv /\ TravelInv BY DEF Inv
  <1>2. now \in Nat BY <1>1 DEF MvccInv
  <1>3. Later BY <1>2, Clock
  <1>4. /\ \/ Lru!Next \/ UNCHANGED lruVars
        /\ \/ Paged!Next \/ UNCHANGED pageVars
        /\ \/ Points!Next \/ UNCHANGED savepointVars
        /\ \/ Mvcc!Next \/ UNCHANGED mvccVars
        /\ \/ Travel!Next \/ UNCHANGED travelVars
    BY DEF Next, vars
  <1>5. LruInv' BY <1>0, <1>1, <1>3, <1>4, LruStep, LruWaits
  <1>6. PagesInv' BY <1>0, <1>1, <1>4, PagesStep, PagesWait
  <1>7. PointsInv' BY <1>0, <1>1, <1>4, PointsStep, PointsWait
  <1>8. MvccInv' /\ MvccChange BY <1>0, <1>1, <1>3, <1>4, MvccStep, MvccWaits
  <1>9. TravelInv' BY <1>0, <1>1, <1>3, <1>4, TravelStep, TravelWaits
  <1> QED BY <1>5, <1>6, <1>7, <1>8, <1>9 DEF Inv

LEMMA PartsInit == Init => Inv
  <1> SUFFICES ASSUME Init PROVE Inv OBVIOUS
  <1>1. Lru!Init /\ Paged!Init /\ Points!Init /\ Mvcc!Init /\ Travel!Init BY DEF Init, Initially
  <1>2. LruInv BY <1>1, LruInit, CacheAssumption
  <1>3. TravelInv BY <1>1, TravelInit, VersionsAssumption
  <1> QED BY <1>1, <1>2, <1>3, PagesInit, PointsInit, MvccInit DEF Inv

\* The inductive invariant holds: the conjunction of those of the parts, each of which
\* keeps its own while another one takes a step and the clock they share goes on.
THEOREM PartsAlways == Spec => []Inv
  <1> QED BY PartsInit, PartsStep, PTL DEF Spec

\* What the query cache (cache/lru.py) and paged storage (paged/storage.py) answer is what
\* was written last, the cache evicts in the order of use and keeps within its limit, and
\* no page in use is on the free list.
THEOREM ReadsStayLatest == Spec => []ReadsAreLatest
  <1>1. Inv => ReadsAreLatest BY LruHolds, PagesHold DEF Inv, ReadsAreLatest
  <1> QED BY <1>1, PartsAlways, PTL

\* However the versions were trimmed and collected, the multi-version store
\* (mvcc_multi.py) and the time travel engine (timetravel/engine.py) answer as their
\* whole histories would.
THEOREM VersionsStayHistory == Spec => []VersionsAreHistory
  <1>1. Inv => VersionsAreHistory BY MvccHolds, TravelHolds, VersionsAssumption DEF Inv, VersionsAreHistory
  <1> QED BY <1>1, PartsAlways, PTL

\* Savepoints stand for the operations they were set after, whatever was rolled back or
\* released in between, and a commit that nobody rolled back under way has applied all of
\* its operations or none (savepoint.py).
THEOREM OperationsStayReplayed == Spec => []OperationsReplay
  <1>1. Inv => OperationsReplay BY PointsHold DEF Inv, OperationsReplay
  <1> QED BY <1>1, PartsAlways, PTL

\* No step changes what a snapshot of an earlier time has seen, but by trimming or
\* collecting it; a flush writes every changed page that is cached.
THEOREM StepsAlwaysKeep == Spec => StepsKeep
  <1> DEFINE Snapshots ==
               \A r \in Doc \ again', ts \in 0..(now - 1) :
                 LET was == Mvcc!VisibleIndex(chains[r], ts)
                     is == Mvcc!VisibleIndex(chains'[r], ts)
                 IN IF Mvcc!IsPrefix(chains[r], chains'[r]) THEN was = is
                    ELSE is # 0 => was # 0 /\ chains'[r][is].ver <= chains[r][was].ver
             Flushes ==
               Paged!Flush => \A p \in owned : Paged!OnDisk(p) # NoVal \/ pending[p] # NoVal =>
                 disk'[p + 1] = IF pending[p] # NoVal THEN Paged!Content(p) ELSE Paged!OnDisk(p)
  <1>1. Inv /\ [Next]_vars => Snapshots
    <2> SUFFICES ASSUME Inv, [Next]_vars PROVE Snapshots OBVIOUS
    <2>1. MvccInv /\ MvccInv' /\ MvccChange BY PartsStep DEF Inv
    <2> HIDE DEF Snapshots
    <2>2. Snapshots
      <3> USE DEF Snapshots
      <3> QED BY <2>1, MvccStable
    <2> QED BY <2>2
  <1>2. Inv => Flushes BY PagesFlush DEF Inv
  <1>3. Inv /\ [Next]_vars => [Snapshots]_<<chains, now, written, again>>
    BY <1>1
  <1>4. Inv /\ [Next]_vars => [Flushes]_<<disk, header, nextPage, free, cache, owned, stored, pending>>
    BY <1>2
  <1> HIDE DEF Snapshots, Flushes
  <1>5. Spec => [][Snapshots]_<<chains, now, written, again>>
    BY <1>3, PartsAlways, PTL DEF Spec
  <1>6. Spec => [][Flushes]_<<disk, header, nextPage, free, cache, owned, stored, pending>>
    BY <1>4, PartsAlways, PTL DEF Spec
  <1> USE DEF Snapshots, Flushes
  <1>7. Spec => Mvcc!SnapshotStable BY <1>5 DEF Mvcc!SnapshotStable, Mvcc!vars
  <1>8. Spec => Paged!FlushSavesCached BY <1>6 DEF Paged!FlushSavesCached, Paged!vars
  <1> QED BY <1>7, <1>8 DEF StepsKeep
=============================================================================
