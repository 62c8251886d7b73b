---------------------------- MODULE ClusterProofs ----------------------------
(***************************************************************************)
(* The invariants of the parts of Cluster for every number of writers,       *)
(* retries, items, workers, replicas, events, shards and records.  A section *)
(* for each part has its inductive invariant, a lemma for each action and    *)
(* what the invariant means for the part's properties; the theorems are at   *)
(* the end.                                                                  *)
(***************************************************************************)
EXTENDS Cluster, FiniteSetTheorems, TLAPS

-----------------------------------------------------------------------------
(***************************************************************************)
(* The writers.  The version that Check has compared is still there when     *)
(* Write replaces it, unless a direct user came in between: that is          *)
(* Compared, which holds because of the record's lock (InTurn).  Versions    *)
(* only grow, so the one that a winner replaced does not return (Won), and   *)
(* nobody wins it again.                                                     *)
(***************************************************************************)

\* A writer about to update the version it compared.
Comparing(w) == pc[w] = "write" /\ kind[w] = "update" /\ ~crossed[w]

Compared ==
  \A w \in Writer : Comparing(w) => version # Gone /\ expected[w] \in {Any, version}

Won == \A e \in 1..MaxExpected : won[e] > 0 => version = Gone \/ version > e

Sleeping == \A w \in Writer : pc[w] = "sleep" => attempt[w] + 1 < MaxRetries

WriterInv ==
  /\ TypeOK /\ Sleeping /\ InTurn /\ Compared /\ Won
  /\ OneWinner /\ CasIsExact /\ ErrorOnlyWhenCrossed

\* Only updates reach Write: Delete is one step.
Kinds == \A w \in Writer : pc[w] \in {"sleep", "write"} => kind[w] = "update"

WriterIInv == WriterInv /\ Kinds

-----------------------------------------------------------------------------
LEMMA WriterInit == ASSUME WriterParameters, Init PROVE WriterIInv
 
   BY SMT DEF WriterParameters, Init, WriterIInv, WriterInv, Kinds, TypeOK, Sleeping, InTurn,
          Compared,
         Comparing, Won, OneWinner, CasIsExact, ErrorOnlyWhenCrossed, Gone, Any

LEMMA CallInv ==
  ASSUME WriterParameters, WriterIInv, NEW w \in Writer, NEW k \in {"update", "delete"},
         NEW e \in 0..MaxExpected, Call(w, k, e)
  PROVE  WriterIInv'
  <1> USE DEF WriterParameters, WriterIInv, WriterInv, Call, Ended
  <1> USE DEF TypeOK
  <1>a. calls' \in [Writer -> Nat] OBVIOUS
  <1>b. kind' \in [Writer -> {"update", "delete"}] OBVIOUS
  <1>c. expected' \in [Writer -> 0..MaxExpected] OBVIOUS
  <1>d. attempt' \in [Writer -> 0..MaxRetries - 1] OBVIOUS
  <1>e. got' \in [Writer -> Nat] BY DEF Gone
  <1>f. crossed' \in [Writer -> BOOLEAN] OBVIOUS
  <1>1. TypeOK' BY <1>a, <1>b, <1>c, <1>d, <1>e, <1>f
  <1>2. Sleeping' /\ Kinds' BY DEF TypeOK, Sleeping, Kinds
  <1>3. InTurn' BY DEF TypeOK, InTurn
  <1>4. Compared' BY DEF TypeOK, Compared, Comparing
  <1>5. Won' /\ OneWinner' BY DEF Won, OneWinner
  <1>6. CasIsExact' /\ ErrorOnlyWhenCrossed' BY DEF TypeOK, CasIsExact, ErrorOnlyWhenCrossed
  <1> QED BY <1>1, <1>2, <1>3, <1>4, <1>5, <1>6

LEMMA AcquireInv ==
  ASSUME WriterParameters, WriterIInv, NEW w \in Writer, Acquire(w)
  PROVE  WriterIInv'
  <1> USE DEF WriterParameters, WriterIInv, WriterInv, Acquire
  <1>1. TypeOK' BY DEF TypeOK
  <1>2. Sleeping' /\ Kinds' BY DEF TypeOK, Sleeping, Kinds
  <1>3. InTurn' BY DEF TypeOK, InTurn
  <1>4. Compared' BY DEF TypeOK, Compared, Comparing
  <1>5. Won' /\ OneWinner' BY DEF Won, OneWinner
  <1>6. CasIsExact' /\ ErrorOnlyWhenCrossed' BY DEF TypeOK, CasIsExact, ErrorOnlyWhenCrossed
  <1> QED BY <1>1, <1>2, <1>3, <1>4, <1>5, <1>6

LEMMA CheckInv ==
  ASSUME WriterParameters, WriterIInv, NEW w \in Writer, Check(w)
  PROVE  WriterIInv'
  <1> USE DEF WriterParameters, WriterIInv, WriterInv, Check, Leave
  <1>1. TypeOK' BY DEF TypeOK
  <1>2. Sleeping' /\ Kinds' BY DEF TypeOK, Sleeping, Kinds
  <1>3. InTurn' BY DEF TypeOK, InTurn
  <1>4. Compared' BY DEF TypeOK, Compared, Comparing
  <1>5. Won' /\ OneWinner' BY DEF Won, OneWinner
  <1>6. CasIsExact' /\ ErrorOnlyWhenCrossed' BY DEF TypeOK, CasIsExact, ErrorOnlyWhenCrossed
  <1> QED BY <1>1, <1>2, <1>3, <1>4, <1>5, <1>6

LEMMA RetryInv ==
  ASSUME WriterParameters, WriterIInv, NEW w \in Writer, Retry(w)
  PROVE  WriterIInv'
  <1> USE DEF WriterParameters, WriterIInv, WriterInv, Retry, Leave
  <1>1. TypeOK' BY DEF TypeOK, Sleeping
  <1>2. Sleeping' /\ Kinds' BY DEF TypeOK, Sleeping, Kinds
  <1>3. InTurn' BY DEF TypeOK, InTurn
  <1>4. Compared' BY DEF TypeOK, Compared, Comparing
  <1>5. Won' /\ OneWinner' BY DEF Won, OneWinner
  <1>6. CasIsExact' /\ ErrorOnlyWhenCrossed' BY DEF TypeOK, CasIsExact, ErrorOnlyWhenCrossed
  <1> QED BY <1>1, <1>2, <1>3, <1>4, <1>5, <1>6

\* The update replaces the version that was compared, and no update has replaced it before.
LEMMA WriteInv ==
  ASSUME WriterParameters, WriterIInv, NEW w \in Writer, Write(w)
  PROVE  WriterIInv'
  <1> USE DEF WriterParameters, WriterIInv, WriterInv, Write, Leave
  <1>a. won' \in [1..MaxExpected -> Nat]
    <2>1. CASE won' = won BY <2>1 DEF TypeOK
    <2>2. CASE won' # won
      <3>1. expected[w] # Any /\ won' = [won EXCEPT ![expected[w]] = @ + 1] BY <2>2
      <3>2. expected[w] \in 1..MaxExpected BY <3>1 DEF TypeOK, Any
      <3>3. won[expected[w]] + 1 \in Nat BY <3>2 DEF TypeOK
      <3> QED BY <3>1, <3>3 DEF TypeOK
    <2> QED BY <2>1, <2>2
  <1>b. pc' \in [Writer -> {"lock", "check", "sleep", "write", "updated", "deleted",
                            "missing", "conflict", "error"}]
    <2>1. pc' = [pc EXCEPT ![w] = "error"] \/ pc' = [pc EXCEPT ![w] = "updated"] OBVIOUS
    <2> QED BY <2>1 DEF TypeOK
  <1>c. version' \in Nat /\ got' \in [Writer -> Nat]
    <2>1. CASE version = Gone BY <2>1 DEF TypeOK
    <2>2. CASE version # Gone
      <3>1. version' = version + 1 /\ got' = [got EXCEPT ![w] = version + 1] BY <2>2
      <3>2. version + 1 \in Nat BY DEF TypeOK
      <3> QED BY <3>1, <3>2 DEF TypeOK
    <2> QED BY <2>1, <2>2
  <1>d. lock' \in Writer \cup {NoWriter} OBVIOUS
  <1>e. UNCHANGED <<kind, expected, attempt, crossed, calls, directs>> OBVIOUS
  <1>f. TypeOK OBVIOUS
  <1>1. TypeOK'
    <2> USE <1>a, <1>b, <1>c, <1>d, <1>e, <1>f
    <2> HIDE DEF WriterParameters, WriterIInv, WriterInv, Write, Leave
    <2> QED BY DEF TypeOK
  <1>2. Sleeping' /\ Kinds' BY DEF TypeOK, Sleeping, Kinds
  <1>3. InTurn' BY DEF TypeOK, InTurn
  <1>4. Compared' BY DEF TypeOK, Compared, Comparing, InTurn
  <1>5. CASE version = Gone
    <2>1. Won' /\ OneWinner' BY <1>5 DEF Won, OneWinner
    <2>2. crossed[w] BY <1>5 DEF Compared, Comparing, Kinds
    <2>3. CasIsExact' /\ ErrorOnlyWhenCrossed'
      BY <1>5, <2>2 DEF TypeOK, CasIsExact, ErrorOnlyWhenCrossed
    <2> QED BY <1>1, <1>2, <1>3, <1>4, <2>1, <2>3
  <1>6. CASE version # Gone
    <2>1. ~crossed[w] => expected[w] \in {Any, version} BY DEF Compared, Comparing, Kinds
    <2>2. version \in Nat /\ version > 0 BY <1>6 DEF TypeOK, Gone
    <2>3. Won' /\ OneWinner'
      <3>1. CASE won' = won BY <1>6, <2>2, <3>1 DEF TypeOK, Won, OneWinner, Gone
      <3>2. CASE won' # won
        <4> DEFINE x == expected[w]
        <4>1. x # Any /\ ~crossed[w] /\ won' = [won EXCEPT ![x] = @ + 1] BY <1>6, <3>2
        <4>2. x = version /\ x \in 1..MaxExpected BY <2>1, <4>1 DEF TypeOK, Any
        <4>3. won[x] = 0 BY <1>6, <4>2 DEF TypeOK, Won
        <4>4. \A e \in 1..MaxExpected : won'[e] = IF e = x THEN 1 ELSE won[e]
          BY <4>1, <4>3 DEF TypeOK
        <4>5. version' = version + 1 BY <1>6
        <4> HIDE DEF x
        <4>6. Won' BY <1>6, <2>2, <4>2, <4>4, <4>5 DEF Won, TypeOK, Gone
        <4>7. OneWinner' BY <4>4 DEF OneWinner
        <4> QED BY <4>6, <4>7
      <3> QED BY <3>1, <3>2
    <2>4. CasIsExact' /\ ErrorOnlyWhenCrossed'
      BY <1>6, <2>1 DEF TypeOK, CasIsExact, ErrorOnlyWhenCrossed
    <2> QED BY <1>1, <1>2, <1>3, <1>4, <2>3, <2>4
  <1> QED BY <1>5, <1>6

LEMMA DeleteInv ==
  ASSUME WriterParameters, WriterIInv, NEW w \in Writer, Delete(w)
  PROVE  WriterIInv'
  <1> USE DEF WriterParameters, WriterIInv, WriterInv, Delete, Leave
  <1>1. TypeOK' BY DEF TypeOK, Gone
  <1>2. Sleeping' /\ Kinds' BY DEF TypeOK, Sleeping, Kinds
  <1>3. InTurn' BY DEF TypeOK, InTurn
  <1>4. Compared' BY DEF TypeOK, Compared, Comparing, InTurn
  <1>5. Won' /\ OneWinner' BY DEF Won, OneWinner
  <1>6. CasIsExact' /\ ErrorOnlyWhenCrossed' BY DEF TypeOK, CasIsExact, ErrorOnlyWhenCrossed
  <1> QED BY <1>1, <1>2, <1>3, <1>4, <1>5, <1>6

LEMMA DirectInv ==
  ASSUME WriterParameters, WriterIInv, NEW v \in {version + 1, Gone}, Direct(v)
  PROVE  WriterIInv'
  <1> USE DEF WriterParameters, WriterIInv, WriterInv, Direct
  <1>1. TypeOK' BY DEF TypeOK, Gone
  <1>2. Sleeping' /\ Kinds' BY DEF TypeOK, Sleeping, Kinds
  <1>3. InTurn' BY DEF TypeOK, InTurn
  <1>4. Compared' BY DEF TypeOK, Compared, Comparing
  <1>5. Won' /\ OneWinner' BY DEF TypeOK, Won, OneWinner, Gone
  <1>6. CasIsExact' /\ ErrorOnlyWhenCrossed' BY DEF TypeOK, CasIsExact, ErrorOnlyWhenCrossed
  <1> QED BY <1>1, <1>2, <1>3, <1>4, <1>5, <1>6

LEMMA WriterStep == ASSUME WriterParameters, WriterIInv, [Next]_vars PROVE WriterIInv'
  <1>1. CASE UNCHANGED vars
    BY <1>1 DEF vars, WriterIInv, WriterInv, Kinds, TypeOK, Sleeping, InTurn, Compared,
         Comparing, Won, OneWinner, CasIsExact, ErrorOnlyWhenCrossed
  <1>2. CASE \E w \in Writer : Step(w)
    BY <1>2, AcquireInv, CheckInv, RetryInv, WriteInv, DeleteInv DEF Step
  <1>3. CASE \E w \in Writer : \/ \E e \in 0..MaxExpected : Call(w, "update", e)
                              \/ Call(w, "delete", Any)
    <2>1. Any \in 0..MaxExpected BY DEF WriterParameters, Any
    <2> QED BY <1>3, <2>1, CallInv
  <1>4. CASE \E v \in {version + 1, Gone} : Direct(v)
    BY <1>4, DirectInv
  <1> QED BY <1>1, <1>2, <1>3, <1>4 DEF Next

-----------------------------------------------------------------------------
(***************************************************************************)
(* The pool.  The chunks cover the items and do not overlap, so what has     *)
(* been done of them (Done) has as many items as there are results and       *)
(* errors, and is everything when all the threads have ended.                *)
(***************************************************************************)

\* The items that have been worked on.
DoneIn(c) == (Pool!Start(c) + 1)..(Pool!Start(c) + at[c])
Done == UNION {DoneIn(c) : c \in 1..started}

PoolTypes ==
  /\ items \in 0..MaxItems /\ started \in 0..Pool!Chunks
  /\ at \in [1..MaxItems -> Nat] /\ results \in Seq(Nat) /\ errors \in Nat
  /\ submitted \in Nat /\ joined \in BOOLEAN

InChunks ==
  \A c \in 1..MaxItems : IF c <= started THEN at[c] <= Pool!Length(c) ELSE at[c] = 0
Counted == IsFiniteSet(Done) /\ Len(results) + errors = Cardinality(Done)
Distinct == Pool!IsInjective(results) /\ Pool!ToSet(results) \subseteq Done
SubmittedSoFar ==
  submitted = IF Pool!Start(started + 1) <= items THEN Pool!Start(started + 1) ELSE items
JoinedLast == joined => started = Pool!Chunks /\ \A c \in 1..started : at[c] = Pool!Length(c)

PoolInv == PoolTypes /\ InChunks /\ Counted /\ Distinct /\ SubmittedSoFar /\ JoinedLast

-----------------------------------------------------------------------------
LEMMA MinOfTwo == ASSUME NEW x \in Int, NEW y \in Int
  PROVE Pool!Min({x, y}) = IF x <= y THEN x ELSE y
  <1>1. CASE x <= y BY <1>1 DEF Pool!Min
  <1>2. CASE ~(x <= y) BY <1>2 DEF Pool!Min
  <1> QED BY <1>1, <1>2

LEMMA MaxOfTwo == ASSUME NEW x \in Int, NEW y \in Int
  PROVE Pool!Max({x, y}) = IF x >= y THEN x ELSE y
  <1>1. CASE x >= y BY <1>1 DEF Pool!Max
  <1>2. CASE ~(x >= y) BY <1>2 DEF Pool!Max
  <1> QED BY <1>1, <1>2

LEMMA DivBounds ==
  ASSUME NEW m \in Nat, NEW n \in Nat \ {0}
  PROVE  m \div n \in Nat /\ (m \div n) * n <= m /\ m < (m \div n) * n + n
  BY SMT

LEMMA MulMono ==
  ASSUME NEW m \in Nat, NEW n \in Nat, NEW z \in Nat, m <= n
  PROVE  m * z <= n * z /\ m * z \in Nat /\ n * z \in Nat
  BY SMT

LEMMA MulStep ==
  ASSUME NEW m \in Int, NEW z \in Int
  PROVE  (m + 1) * z = m * z + z /\ (m - 1) * z = m * z - z /\ m * z \in Int
  BY SMT

\* A chunk has at least one item, and the chunks together are the items.
LEMMA ChunkSizes ==
  ASSUME PoolParameters, items \in Nat
  PROVE  /\ Pool!ChunkSize \in Nat \ {0} /\ Pool!Chunks \in Nat
         /\ Pool!ChunkSize = IF items >= Workers THEN items \div Workers ELSE 1
         /\ items <= Pool!Chunks * Pool!ChunkSize /\ Pool!Chunks * Pool!ChunkSize < items + Pool!ChunkSize
         /\ Pool!Chunks <= items
  <1> DEFINE z == Pool!ChunkSize
             d == items \div Workers
  <1>1. d \in Nat /\ d * Workers <= items /\ items < d * Workers + Workers
    BY DivBounds DEF PoolParameters
  <1>2. z = IF 1 >= d THEN 1 ELSE d BY <1>1, MaxOfTwo DEF Pool!ChunkSize
  <1>3. (items >= Workers => d >= 1) /\ (items < Workers => d = 0)
    BY <1>1 DEF PoolParameters
  <1> HIDE DEF z, d
  <1>4. z \in Nat \ {0} /\ z = IF items >= Workers THEN d ELSE 1
    BY <1>1, <1>2, <1>3 DEF PoolParameters
  <1>5. Pool!Chunks = (items + z - 1) \div z BY DEF Pool!Chunks, z
  <1>6. Pool!Chunks \in Nat /\ Pool!Chunks * z <= items + z - 1 /\ items + z - 1 < Pool!Chunks * z + z
    <2>1. items + z - 1 \in Nat BY <1>4
    <2> QED BY <1>4, <1>5, <2>1, DivBounds
  <1>7. Pool!Chunks <= items
    <2> SUFFICES ASSUME Pool!Chunks > items PROVE FALSE BY <1>6
    <2>1. (items + 1) * z <= Pool!Chunks * z BY <1>4, <1>6, MulMono
    <2>2. (items + 1) * z = items * z + z BY <1>4, MulStep
    <2>3. items * z >= items BY <1>4
    <2> QED BY <1>4, <1>6, <2>1, <2>2, <2>3
  <1> QED BY <1>4, <1>6, <1>7 DEF z, d

LEMMA ChunkPlaces ==
  ASSUME PoolParameters, items \in Nat, NEW c \in 1..Pool!Chunks
  PROVE  /\ Pool!Start(c) \in Nat /\ Pool!Start(c) < items
         /\ Pool!Length(c) = (IF Pool!ChunkSize <= items - Pool!Start(c) THEN Pool!ChunkSize ELSE items - Pool!Start(c))
         /\ Pool!Length(c) \in Nat \ {0} /\ Pool!Start(c + 1) = Pool!Start(c) + Pool!ChunkSize
         /\ \A d \in 1..Pool!Chunks : c < d => Pool!Start(c) + Pool!ChunkSize <= Pool!Start(d)
  <1> DEFINE z == Pool!ChunkSize
  <1>1. /\ z \in Nat \ {0} /\ Pool!Chunks \in Nat
        /\ items <= Pool!Chunks * z /\ Pool!Chunks * z < items + z
    BY ChunkSizes
  <1> HIDE DEF z
  <1>2. \A d \in Nat : Pool!Start(d) = (d - 1) * z BY DEF Pool!Start, z
  <1>3. c \in Nat /\ c - 1 \in Nat /\ c + 1 \in Nat BY <1>1
  <1>4. (c - 1) * z = c * z - z BY <1>1, <1>3, MulStep
  <1>5. c * z <= Pool!Chunks * z /\ (c - 1) * z \in Nat BY <1>1, <1>3, MulMono
  <1>6. Pool!Start(c) \in Nat /\ Pool!Start(c) < items BY <1>1, <1>2, <1>3, <1>4, <1>5
  <1>7. Pool!Length(c) = IF z <= items - Pool!Start(c) THEN z ELSE items - Pool!Start(c)
    BY <1>1, <1>6, MinOfTwo DEF Pool!Length, z
  <1>8. Pool!Start(c + 1) = Pool!Start(c) + z BY <1>1, <1>2, <1>3, <1>4
  <1>9. ASSUME NEW d \in 1..Pool!Chunks, c < d PROVE Pool!Start(c) + z <= Pool!Start(d)
    <2>1. d - 1 \in Nat /\ c <= d - 1 BY <1>1, <1>3, <1>9
    <2>2. c * z <= (d - 1) * z BY <1>1, <1>3, <2>1, MulMono
    <2> QED BY <1>1, <1>2, <1>3, <1>4, <2>1, <2>2
  <1> QED BY <1>1, <1>6, <1>7, <1>8, <1>9 DEF z

\* The number of threads.
LEMMA Threads == ASSUME PoolParameters, items \in Nat PROVE Pool!PoolThreads
  <1> DEFINE z == Pool!ChunkSize
             W == Workers
  <1>1. /\ z \in Nat \ {0} /\ Pool!Chunks \in Nat
        /\ items <= Pool!Chunks * z /\ Pool!Chunks * z < items + z /\ Pool!Chunks <= items
    BY ChunkSizes
  <1>2. W \in Nat \ {0} BY DEF PoolParameters
  <1>3. CASE items < W BY <1>1, <1>2, <1>3 DEF Pool!PoolThreads
  <1>4. CASE items >= W
    <2>1. z = items \div W BY <1>4, ChunkSizes
    <2>2. z * W <= items /\ items < z * W + W BY <1>2, <2>1, DivBounds
    <2> HIDE DEF z, W
    <2>3. Pool!Chunks >= W
      <3> SUFFICES ASSUME Pool!Chunks < W PROVE FALSE BY <1>1, <1>2
      <3>1. (Pool!Chunks + 1) * z <= W * z BY <1>1, <1>2, MulMono
      <3>2. (Pool!Chunks + 1) * z = Pool!Chunks * z + z BY <1>1, MulStep
      <3>3. W * z = z * W BY <1>1, <1>2
      <3>4. Pool!Chunks * z \in Int /\ W * z \in Int BY <1>1, <1>2
      <3> QED BY <1>1, <1>2, <2>2, <3>1, <3>2, <3>3, <3>4
    <2>4. Pool!Chunks <= 2 * W - 1
      <3> SUFFICES ASSUME Pool!Chunks >= 2 * W PROVE FALSE BY <1>1, <1>2
      <3>1. (2 * W) * z <= Pool!Chunks * z BY <1>1, <1>2, MulMono
      <3>2. (2 * W) * z = z * W + z * W BY <1>1, <1>2
      <3>3. z * W >= z + W - 1
        <4>1. (z - 1) * (W - 1) >= 0 BY <1>1, <1>2
        <4>2. (z - 1) * (W - 1) = z * W - z - W + 1 BY <1>1, <1>2
        <4>3. z * W \in Int BY <1>1, <1>2
        <4> QED BY <1>1, <1>2, <4>1, <4>2, <4>3
      <3>4. z * W \in Int /\ Pool!Chunks * z \in Int BY <1>1, <1>2
      <3> QED BY <1>1, <1>2, <2>2, <3>1, <3>2, <3>3, <3>4
    <2> QED BY <2>3, <2>4 DEF Pool!PoolThreads, W
  <1> QED BY <1>1, <1>2, <1>3, <1>4

-----------------------------------------------------------------------------
LEMMA PoolInit == ASSUME PoolParameters, Pool!Init PROVE PoolInv
  <1>1. items \in Nat /\ started = 0 BY DEF Pool!Init, PoolParameters
  <1>2. Pool!Chunks \in Nat /\ Pool!ChunkSize \in Nat BY <1>1, ChunkSizes
  <1>a. at \in [1..MaxItems -> Nat] /\ results \in Seq(Nat) BY DEF Pool!Init
  <1>b. items \in 0..MaxItems /\ errors \in Nat /\ submitted \in Nat /\ joined \in BOOLEAN
    BY DEF Pool!Init
  <1>3. PoolTypes BY <1>1, <1>2, <1>a, <1>b DEF PoolTypes
  <1>4. Done = {} BY <1>1 DEF Done
  <1>5. IsFiniteSet(Done) /\ Cardinality(Done) = 0 BY <1>4, FS_EmptySet
  <1>6. results = <<>> /\ errors = 0 BY DEF Pool!Init
  <1>7. Pool!IsInjective(results) /\ Pool!ToSet(results) = {}
    BY <1>6 DEF Pool!IsInjective, Pool!ToSet
  <1>8. Pool!Start(started + 1) = 0 BY <1>1, <1>2 DEF Pool!Start
  <1>10. \A c \in 1..MaxItems : c > 0 /\ at[c] = 0 BY DEF Pool!Init, PoolParameters
  <1>11. InChunks BY <1>1, <1>10 DEF InChunks
  <1>12. submitted = 0 /\ joined = FALSE BY DEF Pool!Init
  <1>13. Counted /\ Distinct BY <1>5, <1>6, <1>7 DEF Counted, Distinct
  <1>14. SubmittedSoFar /\ JoinedLast BY <1>1, <1>8, <1>12 DEF SubmittedSoFar, JoinedLast
  <1> QED BY <1>3, <1>11, <1>13, <1>14 DEF PoolInv

\* The chunks of the threads that were started.
LEMMA StartedPlaces ==
  ASSUME PoolParameters, PoolInv, NEW c \in 1..started
  PROVE  /\ c \in 1..MaxItems /\ c \in 1..Pool!Chunks /\ started \in Nat
         /\ at[c] \in Nat /\ at[c] <= Pool!Length(c)
         /\ Pool!Start(c) \in Nat /\ Pool!Length(c) \in Nat
         /\ Pool!ChunkSize \in Nat /\ Pool!Length(c) <= Pool!ChunkSize /\ Pool!Start(c) + Pool!Length(c) <= items
         /\ \A d \in 1..Pool!Chunks : c < d => Pool!Start(c) + Pool!ChunkSize <= Pool!Start(d)
  <1>1. items \in Nat /\ started \in 0..Pool!Chunks /\ items <= MaxItems /\ MaxItems \in Nat
    BY DEF PoolInv, PoolTypes, PoolParameters
  <1>2. Pool!ChunkSize \in Nat \ {0} /\ Pool!Chunks \in Nat /\ Pool!Chunks <= items
    BY <1>1, ChunkSizes
  <1>3. c \in 1..MaxItems /\ c \in 1..Pool!Chunks /\ started \in Nat /\ c <= started
    BY <1>1, <1>2
  <1>4. /\ Pool!Start(c) \in Nat /\ Pool!Length(c) \in Nat
        /\ Pool!Length(c) = IF Pool!ChunkSize <= items - Pool!Start(c) THEN Pool!ChunkSize ELSE items - Pool!Start(c)
        /\ \A d \in 1..Pool!Chunks : c < d => Pool!Start(c) + Pool!ChunkSize <= Pool!Start(d)
    BY <1>1, <1>3, ChunkPlaces
  <1>5. at[c] \in Nat /\ at[c] <= Pool!Length(c)
    BY <1>3 DEF PoolInv, PoolTypes, InChunks
  <1> QED BY <1>1, <1>2, <1>3, <1>4, <1>5

LEMMA ThreadKeeps == ASSUME PoolParameters, PoolInv, Pool!StartThread PROVE PoolInv'
  <1> DEFINE n == started + 1
  <1>1. /\ started < Pool!Chunks /\ started' = n /\ submitted' = submitted + Pool!Length(n)
        /\ UNCHANGED <<items, at, results, errors, joined>>
    BY DEF Pool!StartThread
  <1>2. items \in Nat /\ started \in Nat BY DEF PoolInv, PoolTypes, PoolParameters
  <1>3. Pool!Chunks \in Nat /\ Pool!ChunkSize \in Nat \ {0} /\ Pool!Chunks <= items
    BY <1>2, ChunkSizes
  <1>b. items <= MaxItems /\ MaxItems \in Nat BY DEF PoolInv, PoolTypes, PoolParameters
  <1>4. n \in 1..Pool!Chunks /\ n \in 1..MaxItems BY <1>1, <1>2, <1>3, <1>b
  <1>5. /\ Pool!Start(n) \in Nat /\ Pool!Start(n) < items /\ Pool!Length(n) \in Nat
        /\ Pool!Length(n) = (IF Pool!ChunkSize <= items - Pool!Start(n) THEN Pool!ChunkSize ELSE items - Pool!Start(n))
        /\ Pool!Start(n + 1) = Pool!Start(n) + Pool!ChunkSize
    BY <1>2, <1>4, ChunkPlaces
  <1>6. Pool!Chunks' = Pool!Chunks /\ Pool!ChunkSize' = Pool!ChunkSize
    BY <1>1 DEF Pool!Chunks, Pool!ChunkSize
  <1>7. \A c : Pool!Start(c)' = Pool!Start(c) /\ Pool!Length(c)' = Pool!Length(c)
    BY <1>1, <1>6 DEF Pool!Start, Pool!Length
  <1>8. PoolTypes' BY <1>1, <1>2, <1>4, <1>5, <1>6 DEF PoolInv, PoolTypes
  <1>9. at[n] = 0 BY <1>2, <1>4 DEF PoolInv, InChunks
  <1>10. Done' = Done
    <2>1. \A c : DoneIn(c)' = DoneIn(c) BY <1>1, <1>7 DEF DoneIn
    <2>2. DoneIn(n) = {} BY <1>5, <1>9 DEF DoneIn
    <2>3. 1..n = (1..started) \cup {n} BY <1>2
    <2>4. Done' = UNION {DoneIn(c) : c \in 1..n} BY <1>1, <2>1 DEF Done
    <2> QED BY <2>2, <2>3, <2>4 DEF Done
  <1>11. InChunks'
    <2>1. \A c \in 1..MaxItems : IF c <= started' THEN at[c] <= Pool!Length(c) ELSE at[c] = 0
      BY <1>1, <1>2, <1>4, <1>5, <1>9 DEF PoolInv, InChunks
    <2> QED BY <1>1, <1>7, <2>1 DEF InChunks
  <1>12. SubmittedSoFar'
    <2>1. submitted = Pool!Start(n) BY <1>2, <1>5 DEF PoolInv, SubmittedSoFar
    <2>2. submitted' = IF Pool!Start(n + 1) <= items THEN Pool!Start(n + 1) ELSE items
      BY <1>1, <1>2, <1>3, <1>5, <2>1
    <2>3. Pool!Start(started + 1)' = Pool!Start(n + 1) BY <1>1, <1>6 DEF Pool!Start
    <2> QED BY <1>1, <2>2, <2>3 DEF SubmittedSoFar
  <1>13. ~joined BY <1>1, <1>2, <1>3 DEF PoolInv, JoinedLast
  <1>14. Counted' /\ Distinct' BY <1>1, <1>10 DEF PoolInv, Counted, Distinct
  <1>15. JoinedLast' BY <1>1, <1>13 DEF JoinedLast
  <1> QED BY <1>8, <1>11, <1>12, <1>14, <1>15 DEF PoolInv

LEMMA WorkKeeps ==
  ASSUME PoolParameters, PoolInv, NEW c \in 1..MaxItems, Pool!Work(c)
  PROVE  PoolInv'
  <1> DEFINE k == at[c] + 1
             n == Pool!Start(c) + k
  <1>1. /\ c <= started /\ at[c] < Pool!Length(c) /\ at' = [at EXCEPT ![c] = @ + 1]
        /\ \/ results' = Append(results, Pool!Start(c) + at[c] + 1) /\ errors' = errors
           \/ errors' = errors + 1 /\ results' = results
        /\ UNCHANGED <<items, started, submitted, joined>>
    BY DEF Pool!Work
  <1>2. items \in Nat /\ started \in Nat /\ started <= Pool!Chunks /\ at[c] \in Nat
        /\ errors \in Nat /\ results \in Seq(Nat)
    <2>1. items \in Nat /\ started \in 0..Pool!Chunks BY DEF PoolInv, PoolTypes, PoolParameters
    <2>2. Pool!Chunks \in Nat BY <2>1, ChunkSizes
    <2> QED BY <2>1, <2>2 DEF PoolInv, PoolTypes
  <1>3. Pool!Chunks \in Nat /\ Pool!ChunkSize \in Nat \ {0} BY <1>2, ChunkSizes
  <1>4. c \in 1..started /\ c \in 1..Pool!Chunks BY <1>1, <1>2, <1>3
  <1>5. /\ Pool!Start(c) \in Nat /\ Pool!Length(c) \in Nat /\ Pool!Length(c) <= Pool!ChunkSize
        /\ \A d \in 1..Pool!Chunks : c < d => Pool!Start(c) + Pool!ChunkSize <= Pool!Start(d)
    BY <1>4, StartedPlaces
  <1>6. Pool!Chunks' = Pool!Chunks /\ Pool!ChunkSize' = Pool!ChunkSize
    BY <1>1 DEF Pool!Chunks, Pool!ChunkSize
  <1>7. \A d : Pool!Start(d)' = Pool!Start(d) /\ Pool!Length(d)' = Pool!Length(d)
    BY <1>1, <1>6 DEF Pool!Start, Pool!Length
  <1>8. at' \in [1..MaxItems -> Nat] /\ at'[c] = k
        /\ \A d \in 1..MaxItems : d # c => at'[d] = at[d]
    BY <1>1 DEF PoolInv, PoolTypes
  <1>9. k \in Nat /\ n \in Nat /\ n = Pool!Start(c) + at[c] + 1 BY <1>2, <1>5
  <1>10. PoolTypes'
    <2> HIDE DEF n, k
    <2>1. results' \in Seq(Nat) /\ errors' \in Nat
      <3>1. Append(results, n) \in Seq(Nat) /\ errors + 1 \in Nat BY <1>2, <1>9
      <3> QED BY <1>1, <1>2, <1>9, <3>1
    <2> QED BY <1>1, <1>6, <1>8, <2>1 DEF PoolInv, PoolTypes
  <1>11. InChunks'
    <2>1. \A d \in 1..MaxItems : IF d <= started THEN at'[d] <= Pool!Length(d) ELSE at'[d] = 0
      BY <1>1, <1>2, <1>4, <1>5, <1>8 DEF PoolInv, InChunks
    <2> QED BY <1>1, <1>7, <2>1 DEF InChunks
  <1>12. n \notin Done
    <2> SUFFICES ASSUME NEW d \in 1..started, n \in DoneIn(d) PROVE FALSE
      BY DEF Done
    <2>1. d \in 1..Pool!Chunks /\ d <= started BY <1>2, StartedPlaces
    <2>2. at[d] \in Nat /\ at[d] <= Pool!Length(d) BY StartedPlaces
    <2>3. /\ Pool!Start(d) \in Nat /\ Pool!Length(d) \in Nat /\ Pool!Length(d) <= Pool!ChunkSize
          /\ \A e \in 1..Pool!Chunks : d < e => Pool!Start(d) + Pool!ChunkSize <= Pool!Start(e)
      BY StartedPlaces
    <2>4. Pool!Start(d) < n /\ n <= Pool!Start(d) + at[d] BY <1>9, <2>2, <2>3 DEF DoneIn
    <2>5. Pool!Start(c) < n /\ n <= Pool!Start(c) + Pool!ChunkSize
      BY <1>1, <1>2, <1>3, <1>5, <1>9
    <2>6. CASE d = c BY <1>2, <1>5, <1>9, <2>4, <2>6
    <2>7. CASE d < c
      <3>1. Pool!Start(d) + Pool!ChunkSize <= Pool!Start(c) BY <1>4, <2>3, <2>7
      <3> QED BY <1>3, <1>5, <1>9, <2>2, <2>3, <2>4, <2>5, <3>1
    <2>8. CASE c < d
      <3>1. Pool!Start(c) + Pool!ChunkSize <= Pool!Start(d) BY <1>5, <2>1, <2>8
      <3> QED BY <1>3, <1>5, <1>9, <2>3, <2>4, <2>5, <3>1
    <2> QED BY <1>4, <2>1, <2>6, <2>7, <2>8
  <1>13. Done' = Done \cup {n}
    <2>1. \A d \in 1..started : d # c => DoneIn(d)' = DoneIn(d)
      <3>1. \A d \in 1..started : d \in 1..MaxItems
        BY StartedPlaces
      <3> QED BY <1>7, <1>8, <3>1 DEF DoneIn
    <2>2. DoneIn(c)' = DoneIn(c) \cup {n}
      <3>1. DoneIn(c)' = (Pool!Start(c) + 1)..(Pool!Start(c) + k) BY <1>7, <1>8 DEF DoneIn
      <3>2. (Pool!Start(c) + 1)..(Pool!Start(c) + k) = ((Pool!Start(c) + 1)..(Pool!Start(c) + at[c])) \cup {n}
        BY <1>2, <1>5
      <3> QED BY <3>1, <3>2 DEF DoneIn
    <2>3. \A x : x \in Done' <=> \E d \in 1..started : x \in DoneIn(d)' BY <1>1 DEF Done
    <2>4. \A x : x \in Done <=> \E d \in 1..started : x \in DoneIn(d) BY DEF Done
    <2> QED BY <1>4, <2>1, <2>2, <2>3, <2>4
  <1>14. Counted'
    <2>1. IsFiniteSet(Done') /\ Cardinality(Done') = Cardinality(Done) + 1
      BY <1>12, <1>13, FS_AddElement DEF PoolInv, Counted
    <2>2. Len(results') + errors' = Len(results) + errors + 1
      BY <1>1, <1>2, <1>9
    <2> QED BY <2>1, <2>2 DEF PoolInv, Counted
  <1>15. Distinct'
    <2>1. CASE results' = results BY <1>13, <2>1 DEF PoolInv, Distinct
    <2>2. CASE results' = Append(results, n)
      <3>1. /\ Len(results') = Len(results) + 1 /\ Len(results) \in Nat
            /\ DOMAIN results' = 1..Len(results') /\ DOMAIN results = 1..Len(results)
            /\ results'[Len(results) + 1] = n
            /\ \A i \in 1..Len(results) : results'[i] = results[i]
        BY <1>2, <1>9, <2>2
      <3>2. \A i \in 1..Len(results) : results[i] \in Done
        BY <3>1 DEF PoolInv, Distinct, Pool!ToSet
      <3>3. \A i \in 1..Len(results') : i \in 1..Len(results) \/ i = Len(results) + 1
        BY <3>1
      <3>4. \A i \in 1..Len(results') : results'[i] \in Done'
        BY <1>13, <3>1, <3>2, <3>3
      <3>5. Pool!ToSet(results') \subseteq Done' BY <3>1, <3>4 DEF Pool!ToSet
      <3>6. Pool!IsInjective(results')
        <4> SUFFICES ASSUME NEW i \in 1..Len(results'), NEW j \in 1..Len(results'),
                            results'[i] = results'[j]
                     PROVE  i = j
          BY <3>1 DEF Pool!IsInjective
        <4> QED BY <1>12, <3>1, <3>2, <3>3 DEF PoolInv, Distinct, Pool!IsInjective
      <3> QED BY <3>5, <3>6 DEF Distinct
    <2> QED BY <1>1, <1>9, <2>1, <2>2
  <1>16. SubmittedSoFar'
    <2>1. Pool!Start(started + 1)' = Pool!Start(started + 1) BY <1>1, <1>6 DEF Pool!Start
    <2> QED BY <1>1, <2>1 DEF PoolInv, SubmittedSoFar
  <1>17. ~joined
    <2> SUFFICES ASSUME joined PROVE FALSE OBVIOUS
    <2>1. at[c] = Pool!Length(c) BY <1>4 DEF PoolInv, JoinedLast
    <2> QED BY <1>1, <1>2, <1>5, <2>1
  <1>18. JoinedLast' BY <1>1, <1>17 DEF JoinedLast
  <1> QED BY <1>10, <1>11, <1>14, <1>15, <1>16, <1>18 DEF PoolInv

\* All that does not depend on joined stays as it is.
LEMMA JoinKeeps == ASSUME PoolParameters, PoolInv, Pool!Join PROVE PoolInv'
  <1>1. /\ started = Pool!Chunks /\ \A c \in 1..started : at[c] = Pool!Length(c)
        /\ joined' = TRUE
        /\ UNCHANGED <<items, started, at, results, errors, submitted>>
    BY DEF Pool!Join
  <1>2. Pool!Chunks' = Pool!Chunks /\ Pool!ChunkSize' = Pool!ChunkSize
    BY <1>1 DEF Pool!Chunks, Pool!ChunkSize
  <1>3. \A d : Pool!Start(d)' = Pool!Start(d) /\ Pool!Length(d)' = Pool!Length(d)
    BY <1>1, <1>2 DEF Pool!Start, Pool!Length
  <1>4. Pool!Start(started + 1)' = Pool!Start(started + 1) BY <1>1, <1>2 DEF Pool!Start
  <1>5. \A c : DoneIn(c)' = DoneIn(c) BY <1>1, <1>3 DEF DoneIn
  <1>6. Done' = Done BY <1>1, <1>5 DEF Done
  <1>7. PoolTypes' BY <1>1, <1>2 DEF PoolInv, PoolTypes
  <1>8. InChunks' BY <1>1, <1>3 DEF PoolInv, InChunks
  <1>9. Counted' /\ Distinct' BY <1>1, <1>6 DEF PoolInv, Counted, Distinct
  <1>10. SubmittedSoFar' BY <1>1, <1>4 DEF PoolInv, SubmittedSoFar
  <1>11. JoinedLast' BY <1>1, <1>2, <1>3 DEF JoinedLast
  <1> QED BY <1>7, <1>8, <1>9, <1>10, <1>11 DEF PoolInv

LEMMA PoolStep == ASSUME PoolParameters, PoolInv, [Pool!Next]_(Pool!vars) PROVE PoolInv'
  <1>1. CASE UNCHANGED Pool!vars
    <2>1. UNCHANGED <<items, started, at, results, errors, submitted, joined>>
      BY <1>1 DEF Pool!vars
    <2>2. Pool!Chunks' = Pool!Chunks /\ Pool!ChunkSize' = Pool!ChunkSize
      BY <2>1 DEF Pool!Chunks, Pool!ChunkSize
    <2>3. \A d : Pool!Start(d)' = Pool!Start(d) /\ Pool!Length(d)' = Pool!Length(d)
      BY <2>1, <2>2 DEF Pool!Start, Pool!Length
    <2>4. Pool!Start(started + 1)' = Pool!Start(started + 1) BY <2>1, <2>2 DEF Pool!Start
    <2>5. \A c : DoneIn(c)' = DoneIn(c) BY <2>1, <2>3 DEF DoneIn
    <2>6. Done' = Done BY <2>1, <2>5 DEF Done
    <2>7. PoolTypes' BY <2>1, <2>2 DEF PoolInv, PoolTypes
    <2>8. InChunks' BY <2>1, <2>3 DEF PoolInv, InChunks
    <2>9. Counted' /\ Distinct' BY <2>1, <2>6 DEF PoolInv, Counted, Distinct
    <2>10. SubmittedSoFar' BY <2>1, <2>4 DEF PoolInv, SubmittedSoFar
    <2>11. JoinedLast' BY <2>1, <2>2, <2>3 DEF PoolInv, JoinedLast
    <2> QED BY <2>7, <2>8, <2>9, <2>10, <2>11 DEF PoolInv
  <1>2. CASE Pool!StartThread BY <1>2, ThreadKeeps
  <1>3. CASE Pool!Join BY <1>3, JoinKeeps
  <1>4. CASE \E c \in 1..MaxItems : Pool!Work(c) BY <1>4, WorkKeeps
  <1> QED BY <1>1, <1>2, <1>3, <1>4 DEF Pool!Next

\* When all threads have ended, every item is done.
LEMMA AllDone ==
  ASSUME PoolParameters, PoolInv, joined
  PROVE  Done = 1..items /\ submitted = items
  <1>1. started = Pool!Chunks /\ \A c \in 1..Pool!Chunks : at[c] = Pool!Length(c)
    BY DEF PoolInv, JoinedLast
  <1>2. items \in Nat BY DEF PoolInv, PoolTypes, PoolParameters
  <1> DEFINE z == Pool!ChunkSize
  <1>3. /\ z \in Nat \ {0} /\ Pool!Chunks \in Nat
        /\ items <= Pool!Chunks * z /\ Pool!Chunks * z < items + z
    BY <1>2, ChunkSizes
  <1>4. \A d : Pool!Start(d) = (d - 1) * z BY DEF Pool!Start
  <1> HIDE DEF z
  <1>5. ASSUME NEW n \in 1..items PROVE n \in Done
    <2> DEFINE q == (n - 1) \div z
               c == q + 1
    <2>1. q \in Nat /\ q * z <= n - 1 /\ n - 1 < q * z + z
      BY <1>2, <1>3, DivBounds
    <2> HIDE DEF q
    <2>2. c \in 1..Pool!Chunks
      <3> SUFFICES ASSUME Pool!Chunks <= q PROVE FALSE BY <1>3, <2>1
      <3>1. Pool!Chunks * z <= q * z /\ Pool!Chunks * z \in Nat /\ q * z \in Nat
        BY <1>3, <2>1, MulMono
      <3> QED BY <1>2, <1>3, <2>1, <3>1
    <2>3. Pool!Start(c) = q * z
      <3>1. c - 1 = q BY <2>1
      <3> QED BY <1>4, <3>1
    <2> HIDE DEF c
    <2>4. /\ Pool!Start(c) \in Nat
          /\ Pool!Length(c) = IF z <= items - Pool!Start(c) THEN z ELSE items - Pool!Start(c)
      BY <1>2, <2>2, ChunkPlaces DEF z
    <2>5. n \in DoneIn(c)
      BY <1>1, <1>2, <1>3, <2>1, <2>2, <2>3, <2>4 DEF DoneIn
    <2> QED BY <1>1, <2>2, <2>5 DEF Done
  <1>6. ASSUME NEW n \in Done PROVE n \in 1..items
    <2>1. PICK c \in 1..Pool!Chunks : n \in DoneIn(c) BY <1>1 DEF Done
    <2>2. /\ Pool!Start(c) \in Nat
          /\ Pool!Length(c) = IF z <= items - Pool!Start(c) THEN z ELSE items - Pool!Start(c)
      BY <1>2, ChunkPlaces DEF z
    <2>3. at[c] = Pool!Length(c) BY <1>1
    <2> QED BY <1>2, <1>3, <2>1, <2>2, <2>3 DEF DoneIn
  <1>7. submitted = items
    <2>1. Pool!Start(Pool!Chunks + 1) = Pool!Chunks * z
      <3>1. Pool!Start(Pool!Chunks + 1) = ((Pool!Chunks + 1) - 1) * z BY DEF Pool!Start, z
      <3>2. (Pool!Chunks + 1) - 1 = Pool!Chunks BY <1>3
      <3> QED BY <3>1, <3>2
    <2>2. Pool!Chunks * z \in Int BY <1>3
    <2> QED BY <1>1, <1>2, <1>3, <2>1, <2>2 DEF PoolInv, SubmittedSoFar
  <1> QED BY <1>5, <1>6, <1>7

LEMMA PoolMeans == ASSUME PoolParameters, PoolInv PROVE Pool!PoolAccounts /\ Pool!PoolThreads
  <1>1. items \in Nat BY DEF PoolInv, PoolTypes, PoolParameters
  <1>2. Pool!ToSet(results) \subseteq 1..items
    <2> SUFFICES ASSUME NEW n \in Done PROVE n \in 1..items
      BY DEF PoolInv, Distinct
    <2>1. PICK c \in 1..started : n \in DoneIn(c) BY DEF Done
    <2>2. Pool!Start(c) \in Nat /\ at[c] \in Nat /\ at[c] <= Pool!Length(c) /\ Pool!Length(c) \in Nat
          /\ Pool!Start(c) + Pool!Length(c) <= items
      BY StartedPlaces
    <2> QED BY <1>1, <2>1, <2>2 DEF DoneIn
  <1>3. ASSUME joined PROVE Len(results) + errors = items /\ submitted = items
    <2>1. Done = 1..items /\ submitted = items BY <1>3, AllDone
    <2>2. Cardinality(1..items) = items BY <1>1, FS_Interval
    <2> QED BY <2>1, <2>2 DEF PoolInv, Counted
  <1> QED BY <1>1, <1>2, <1>3, Threads DEF Pool!PoolAccounts, PoolInv, Distinct

-----------------------------------------------------------------------------
(***************************************************************************)
(* The replication.  The inserts of the stream are numbered, and a replica   *)
(* has read some first part of the stream (HasRead): the next part is in its *)
(* socket, and while it is connected that part reaches up to the last event, *)
(* or to the one before when the last is still to be sent to it.             *)
(***************************************************************************)

Event == [op : {"insert", "update", "delete"}, id : Repl!Id, val : EventVal \cup {None}]
Count(n) == Cardinality(Repl!Inserts(n))

ReplTypes ==
  /\ data \in [Repl!Id -> EventVal \cup {None}]
  /\ log \in Seq(Event) /\ Len(log) <= MaxEvents /\ buffer \in Seq(Event)
  /\ clients \in Seq(Replica) /\ targets \in Seq(Replica)
  /\ link \in [Replica -> {"off", "open", "up", "down"}]
  /\ queue \in [Replica -> Seq(Event)] /\ copy \in [Replica -> Seq(Event)]
  /\ base \in [Replica -> Seq(Event)] /\ from \in [Replica -> Nat]

\* The inserts have the ids 1, 2, ... in the order of the stream.
Numbered == \A n \in DOMAIN log : log[n].op = "insert" => log[n].id = Count(n)

\* Who is connected is a client, once, and who is not has nothing under way.
Linked ==
  /\ Repl!IsInjective(clients) /\ Repl!IsInjective(targets)
  /\ \A r \in Replica :
       /\ link[r] = "up" => Repl!Contains(clients, r)
       /\ link[r] \in {"off", "open"} =>
            ~Repl!Contains(clients, r) /\ ~Repl!Contains(targets, r) /\ queue[r] = <<>>

\* r has applied the first n events, as far as they were for it, and the next ones are in
\* its socket.
HasRead(r, n) ==
  /\ n + Len(queue[r]) <= Len(log)
  /\ \A k \in 1..Len(queue[r]) : queue[r][k] = log[n + k]
  /\ Repl!NewIn(r) = Count(n) - from[r]
  /\ link[r] = "up" =>
       n + Len(queue[r]) = IF Repl!Contains(targets, r) THEN Len(log) - 1 ELSE Len(log)
InStream == \A r \in Replica : link[r] \in {"up", "down"} => \E n \in 0..Len(log) : HasRead(r, n)

ReplInv ==
  /\ ReplTypes /\ Numbered /\ Linked /\ InStream
  /\ Repl!StreamIsHistory /\ Repl!BufferIsRecent /\ Repl!ReplicaInOrder

-----------------------------------------------------------------------------
\* The next number, in terms of the finite sets of this module.
LEMMA NextIdIs == Repl!NextId = Count(Len(log)) + 1
  <1>1. \A S : Repl!Cardinality(S) = Cardinality(S) BY DEF Repl!Cardinality, Cardinality
  <1> QED BY <1>1 DEF Repl!NextId, Count

\* How the number of inserts grows with the stream.
LEMMA CountZero == Count(0) = 0
  <1>1. Repl!Inserts(0) = {} BY DEF Repl!Inserts
  <1> QED BY <1>1, FS_EmptySet DEF Count

LEMMA CountNat == ASSUME NEW n \in Nat PROVE IsFiniteSet(Repl!Inserts(n)) /\ Count(n) \in Nat
  <1>1. IsFiniteSet(1..n) BY FS_Interval
  <1>2. Repl!Inserts(n) \subseteq 1..n BY DEF Repl!Inserts
  <1>3. IsFiniteSet(Repl!Inserts(n)) BY <1>1, <1>2, FS_Subset
  <1> QED BY <1>3, FS_CardinalityType DEF Count

LEMMA CountNext ==
  ASSUME NEW n \in Nat
  PROVE  Count(n + 1) = IF log[n + 1].op = "insert" THEN Count(n) + 1 ELSE Count(n)
  <1>1. IsFiniteSet(Repl!Inserts(n)) BY CountNat
  <1>2. n + 1 \notin Repl!Inserts(n) BY DEF Repl!Inserts
  <1>3. CASE log[n + 1].op = "insert"
    <2>1. Repl!Inserts(n + 1) = Repl!Inserts(n) \cup {n + 1} BY <1>3 DEF Repl!Inserts
    <2> QED BY <1>1, <1>2, <1>3, <2>1, FS_AddElement DEF Count
  <1>4. CASE log[n + 1].op # "insert"
    <2>1. Repl!Inserts(n + 1) = Repl!Inserts(n) BY <1>4 DEF Repl!Inserts
    <2> QED BY <1>4, <2>1 DEF Count
  <1> QED BY <1>3, <1>4

\* A sequence without one of its elements.
LEMMA Removed ==
  ASSUME NEW S, NEW s \in Seq(S), NEW m \in DOMAIN s, Repl!IsInjective(s)
  PROVE  /\ Repl!RemoveAt(s, m) \in Seq(S) /\ Repl!IsInjective(Repl!RemoveAt(s, m))
         /\ \A x : Repl!Contains(Repl!RemoveAt(s, m), x) <=> Repl!Contains(s, x) /\ x # s[m]
  <1> DEFINE t == Repl!RemoveAt(s, m)
  <1>1. m \in 1..Len(s) /\ Len(s) \in Nat OBVIOUS
  <1>2. /\ t \in Seq(S) /\ Len(t) = Len(s) - 1
        /\ \A k \in 1..Len(t) : t[k] = IF k < m THEN s[k] ELSE s[k + 1]
    <2> DEFINE u == SubSeq(s, 1, m - 1)
               v == SubSeq(s, m + 1, Len(s))
    <2>1. /\ u \in Seq(S) /\ Len(u) = m - 1
          /\ \A k \in 1..(m - 1) : u[k] = s[k]
      BY <1>1
    <2>2. /\ v \in Seq(S) /\ Len(v) = Len(s) - m
          /\ \A k \in 1..(Len(s) - m) : v[k] = s[m + k]
      BY <1>1
    <2> HIDE DEF u, v
    <2>3. /\ u \o v \in Seq(S) /\ Len(u \o v) = Len(u) + Len(v)
          /\ \A k \in 1..(Len(u) + Len(v)) : (u \o v)[k] = IF k <= Len(u) THEN u[k] ELSE v[k - Len(u)]
      BY <2>1, <2>2
    <2>4. t = u \o v BY DEF Repl!RemoveAt, u, v
    <2> HIDE DEF t
    <2>5. Len(t) = Len(s) - 1 BY <1>1, <2>1, <2>2, <2>3, <2>4
    <2>6. ASSUME NEW k \in 1..Len(t) PROVE t[k] = IF k < m THEN s[k] ELSE s[k + 1]
      <3>1. CASE k < m BY <1>1, <2>1, <2>2, <2>3, <2>4, <2>5, <3>1
      <3>2. CASE k >= m
        <4>1. k - Len(u) \in 1..(Len(s) - m) /\ m + (k - Len(u)) = k + 1
          BY <1>1, <2>1, <2>5, <3>2
        <4>2. t[k] = v[k - Len(u)]
          <5>1. k \in 1..(Len(u) + Len(v)) /\ ~(k <= Len(u))
            BY <1>1, <2>1, <2>2, <2>5, <3>2
          <5> QED BY <2>3, <2>4, <5>1
        <4>3. v[k - Len(u)] = s[m + (k - Len(u))] BY <2>2, <4>1
        <4> QED BY <3>2, <4>1, <4>2, <4>3
      <3> QED BY <1>1, <3>1, <3>2
    <2> QED BY <2>3, <2>4, <2>5, <2>6
  <1> HIDE DEF t
  <1>3. \A i, j \in 1..Len(s) : s[i] = s[j] => i = j BY DEF Repl!IsInjective
  <1>4. Repl!IsInjective(t)
    <2> SUFFICES ASSUME NEW i \in 1..Len(t), NEW j \in 1..Len(t), t[i] = t[j] PROVE i = j
      BY <1>2 DEF Repl!IsInjective
    <2>1. i \in Nat /\ j \in Nat /\ i <= Len(s) - 1 /\ j <= Len(s) - 1 /\ i >= 1 /\ j >= 1
      BY <1>1, <1>2
    <2>2. \A k \in 1..Len(t) : k \in 1..Len(s) /\ k + 1 \in 1..Len(s) BY <1>1, <1>2
    <2>3. CASE i < m /\ j < m BY <1>1, <1>2, <1>3, <2>1, <2>2, <2>3
    <2>4. CASE i >= m /\ j >= m BY <1>1, <1>2, <1>3, <2>1, <2>2, <2>4
    <2>5. CASE i < m /\ j >= m
      <3>1. s[i] = s[j + 1] BY <1>2, <2>1, <2>5
      <3> QED BY <1>1, <1>3, <2>1, <2>2, <2>5, <3>1
    <2>6. CASE i >= m /\ j < m
      <3>1. t[j] = s[j] /\ t[i] = s[i + 1] BY <1>2, <2>1, <2>6
      <3>2. j \in 1..Len(s) /\ i + 1 \in 1..Len(s) BY <2>2
      <3>3. j = i + 1 BY <1>3, <3>1, <3>2
      <3> QED BY <2>1, <2>6, <3>3
    <2> QED BY <1>1, <2>1, <2>3, <2>4, <2>5, <2>6
  <1>5. ASSUME NEW x PROVE Repl!Contains(t, x) <=> Repl!Contains(s, x) /\ x # s[m]
    <2>1. ASSUME NEW k \in 1..Len(t), t[k] = x PROVE Repl!Contains(s, x) /\ x # s[m]
      <3>1. CASE k < m BY <1>1, <1>2, <1>3, <2>1, <3>1 DEF Repl!Contains
      <3>2. CASE k >= m BY <1>1, <1>2, <1>3, <2>1, <3>2 DEF Repl!Contains
      <3> QED BY <1>1, <1>2, <3>1, <3>2
    <2>2. ASSUME NEW k \in 1..Len(s), s[k] = x, x # s[m] PROVE Repl!Contains(t, x)
      <3>1. CASE k < m BY <1>1, <1>2, <2>2, <3>1 DEF Repl!Contains
      <3>2. CASE k > m
        <4>1. k - 1 \in 1..Len(t) /\ t[k - 1] = x BY <1>1, <1>2, <2>2, <3>2
        <4> QED BY <4>1 DEF Repl!Contains
      <3> QED BY <1>1, <2>2, <3>1, <3>2
    <2> QED BY <2>1, <2>2 DEF Repl!Contains
  <1> QED BY <1>2, <1>4, <1>5 DEF t

LEMMA ClientRemoved ==
  ASSUME clients \in Seq(Replica), Repl!IsInjective(clients), NEW r \in Replica, Repl!RemoveClient(r)
  PROVE  /\ clients' \in Seq(Replica) /\ Repl!IsInjective(clients')
         /\ \A x : Repl!Contains(clients', x) <=> Repl!Contains(clients, x) /\ x # r
  <1>1. CASE Repl!Contains(clients, r)
    <2>1. PICK m \in DOMAIN clients : clients[m] = r /\ clients' = Repl!RemoveAt(clients, m)
      BY <1>1 DEF Repl!RemoveClient
    <2> QED BY <2>1, Removed
  <1>2. CASE ~Repl!Contains(clients, r) BY <1>2 DEF Repl!RemoveClient
  <1> QED BY <1>1, <1>2

LEMMA Appended ==
  ASSUME NEW S, NEW s \in Seq(S), NEW x \in S
  PROVE  /\ Append(s, x) \in Seq(S) /\ Len(Append(s, x)) = Len(s) + 1 /\ Len(s) \in Nat
         /\ DOMAIN Append(s, x) = 1..(Len(s) + 1) /\ DOMAIN s = 1..Len(s)
         /\ Append(s, x)[Len(s) + 1] = x
         /\ \A k \in 1..Len(s) : Append(s, x)[k] = s[k]
  OBVIOUS

LEMMA ReplicationInit == ASSUME ReplParameters, Repl!Init PROVE ReplInv
  <1> USE DEF Repl!Init
  <1>1. ReplTypes
    <2>1. data \in [Repl!Id -> EventVal \cup {None}] OBVIOUS
    <2>2. log \in Seq(Event) /\ Len(log) = 0 /\ buffer \in Seq(Event) OBVIOUS
    <2>3. /\ queue \in [Replica -> Seq(Event)] /\ copy \in [Replica -> Seq(Event)]
          /\ base \in [Replica -> Seq(Event)] /\ from \in [Replica -> Nat]
      OBVIOUS
    <2>4. link \in [Replica -> {"off", "open", "up", "down"}] OBVIOUS
    <2>5. clients \in Seq(Replica) /\ targets \in Seq(Replica) OBVIOUS
    <2> QED BY <2>1, <2>2, <2>3, <2>4, <2>5 DEF ReplTypes, ReplParameters
  <1>2. Len(log) = 0 /\ DOMAIN log = {} /\ Len(buffer) = 0 /\ DOMAIN buffer = {} OBVIOUS
  <1>3. Numbered BY <1>2 DEF Numbered
  <1>4. Linked BY DEF Linked, Repl!IsInjective, Repl!Contains
  <1>5. InStream BY DEF InStream
  <1>6. Repl!StreamIsHistory BY <1>2 DEF Repl!StreamIsHistory
  <1>7. Repl!BufferIsRecent
    <2>1. Repl!Min({BufMax, 0}) = 0 BY DEF Repl!Min, ReplParameters
    <2> QED BY <1>2, <2>1 DEF Repl!BufferIsRecent
  <1>8. Repl!ReplicaInOrder BY DEF Repl!ReplicaInOrder
  <1> QED BY <1>1, <1>3, <1>4, <1>5, <1>6, <1>7, <1>8 DEF ReplInv

\* What a new event at the end of the stream changes, and that it keeps the rest.
LEMMA LogGrows ==
  ASSUME ReplInv, NEW e \in Event, log' = Append(log, e)
  PROVE  /\ log' \in Seq(Event) /\ Len(log) \in Nat /\ Len(log') = Len(log) + 1
         /\ DOMAIN log = 1..Len(log) /\ DOMAIN log' = 1..(Len(log) + 1)
         /\ log'[Len(log) + 1] = e
         /\ \A k \in 1..Len(log) : log'[k] = log[k]
         /\ \A n \in 0..Len(log) : Repl!Inserts(n)' = Repl!Inserts(n) /\ Count(n)' = Count(n)
  <1>1. /\ log' \in Seq(Event) /\ Len(log) \in Nat /\ Len(log') = Len(log) + 1
        /\ DOMAIN log = 1..Len(log) /\ DOMAIN log' = 1..(Len(log) + 1)
        /\ log'[Len(log) + 1] = e
        /\ \A k \in 1..Len(log) : log'[k] = log[k]
    BY Appended DEF ReplInv, ReplTypes
  <1>2. ASSUME NEW n \in 0..Len(log) PROVE Repl!Inserts(n)' = Repl!Inserts(n)
    <2>1. \A k \in 1..n : log'[k] = log[k] BY <1>1
    <2> QED BY <2>1 DEF Repl!Inserts
  <1> QED BY <1>1, <1>2 DEF Count

LEMMA BufferGrows ==
  ASSUME ReplParameters, ReplInv, NEW e \in Event,
         log' = Append(log, e), buffer' = Repl!Bounded(Append(buffer, e))
  PROVE  buffer' \in Seq(Event) /\ Repl!BufferIsRecent'
  <1> DEFINE L == Len(log)
             B == Len(buffer)
             w == Append(buffer, e)
  <1>1. /\ L \in Nat /\ Len(log') = L + 1 /\ log'[L + 1] = e
        /\ \A k \in 1..L : log'[k] = log[k]
    BY LogGrows
  <1>2. buffer \in Seq(Event) BY DEF ReplInv, ReplTypes
  <1>3. /\ w \in Seq(Event) /\ Len(w) = B + 1 /\ B \in Nat
        /\ DOMAIN buffer = 1..B /\ w[B + 1] = e
        /\ \A k \in 1..B : w[k] = buffer[k]
    BY <1>2, Appended
  <1>4. \A x, y \in Int : Repl!Min({x, y}) = IF x <= y THEN x ELSE y
    <2> TAKE x, y \in Int
    <2>1. CASE x <= y BY <2>1 DEF Repl!Min
    <2>2. CASE ~(x <= y) BY <2>2 DEF Repl!Min
    <2> QED BY <2>1, <2>2
  <1>5. BufMax \in Nat BY DEF ReplParameters
  <1>6. B = (IF BufMax <= L THEN BufMax ELSE L) /\ \A k \in 1..B : buffer[k] = log[L - B + k]
    <2>1. Repl!Min({BufMax, L}) = IF BufMax <= L THEN BufMax ELSE L BY <1>1, <1>4, <1>5
    <2>2. Repl!BufferIsRecent BY DEF ReplInv
    <2> QED BY <1>3, <2>1, <2>2, Zenon DEF Repl!BufferIsRecent
  <1>7. \A k \in 1..(B + 1) : w[k] = log'[L - B + k]
    <2> SUFFICES ASSUME NEW k \in 1..(B + 1) PROVE w[k] = log'[L - B + k]
      OBVIOUS
    <2>1. CASE k = B + 1
      <3>1. L - B + k = L + 1 BY <1>1, <1>3, <2>1
      <3> QED BY <1>1, <1>3, <2>1, <3>1
    <2>2. CASE k # B + 1
      <3>1. k \in 1..B /\ L - B + k \in 1..L BY <1>1, <1>3, <1>5, <1>6, <2>2
      <3> QED BY <1>1, <1>3, <1>6, <3>1
    <2> QED BY <2>1, <2>2
  <1> HIDE DEF L, B, w
  <1>8. CASE B + 1 > BufMax
    <2>1. B = BufMax /\ BufMax <= L BY <1>1, <1>3, <1>5, <1>6, <1>8
    <2>2. buffer' = Tail(w) BY <1>3, <1>8 DEF Repl!Bounded, w
    <2>3. /\ Tail(w) \in Seq(Event) /\ Len(Tail(w)) = B
          /\ DOMAIN Tail(w) = 1..B
          /\ \A k \in 1..B : Tail(w)[k] = w[k + 1]
      BY <1>3
    <2>4. \A k \in 1..B : k + 1 \in 1..(B + 1) /\ L - B + (k + 1) = (L + 1) - B + k
      BY <1>1, <1>3
    <2>5. ASSUME NEW k \in 1..B PROVE buffer'[k] = log'[(L + 1) - B + k]
      <3>1. buffer'[k] = w[k + 1] BY <2>2, <2>3
      <3>2. w[k + 1] = log'[L - B + (k + 1)] BY <1>7, <2>4
      <3> QED BY <2>4, <3>1, <3>2
    <2>6. Repl!Min({BufMax, L + 1}) = B BY <1>1, <1>4, <1>5, <2>1
    <2>7. Len(buffer') = B /\ DOMAIN buffer' = 1..B /\ buffer' \in Seq(Event) BY <2>2, <2>3
    <2>8. Len(log') = L + 1 BY <1>1
    <2> QED BY <2>5, <2>6, <2>7, <2>8, Zenon DEF Repl!BufferIsRecent
  <1>9. CASE ~(B + 1 > BufMax)
    <2>1. B = L /\ L < BufMax BY <1>1, <1>3, <1>5, <1>6, <1>9
    <2>2. buffer' = w BY <1>3, <1>9 DEF Repl!Bounded, w
    <2>3. Repl!Min({BufMax, L + 1}) = B + 1 BY <1>1, <1>4, <1>5, <2>1
    <2>4. DOMAIN w = 1..(B + 1) BY <1>3
    <2>5. \A k \in 1..(B + 1) : w[k] = log'[(L + 1) - (B + 1) + k]
      <3>1. (L + 1) - (B + 1) = L - B BY <1>1, <1>3
      <3> QED BY <1>7, <3>1
    <2>6. Len(buffer') = B + 1 /\ DOMAIN buffer' = 1..(B + 1) /\ buffer' \in Seq(Event)
      BY <1>3, <2>2, <2>4
    <2>7. Len(log') = L + 1 BY <1>1
    <2>8. \A k \in 1..(B + 1) : buffer'[k] = log'[(L + 1) - (B + 1) + k] BY <2>2, <2>5
    <2> QED BY <2>3, <2>6, <2>7, <2>8, Zenon DEF Repl!BufferIsRecent
  <1> QED BY <1>8, <1>9

\* The next insert gets the next number.
LEMMA NextInsert ==
  ASSUME ReplInv, Len(log) < MaxEvents, ReplParameters
  PROVE  Repl!NextId = Count(Len(log)) + 1 /\ Repl!NextId \in Repl!Id
  <1>1. Len(log) \in Nat BY DEF ReplInv, ReplTypes
  <1>2. IsFiniteSet(1..Len(log)) /\ Cardinality(1..Len(log)) = Len(log)
    <2>1. \A n \in Nat : IsFiniteSet(1..n) /\ Cardinality(1..n) = n BY FS_Interval
    <2> QED BY <1>1, <2>1
  <1>3. Repl!Inserts(Len(log)) \subseteq 1..Len(log) BY DEF Repl!Inserts
  <1>4. Count(Len(log)) <= Len(log) BY <1>2, <1>3, FS_Subset DEF Count
  <1>5. Count(Len(log)) \in Nat BY <1>1, CountNat
  <1>6. Repl!NextId = Count(Len(log)) + 1 BY NextIdIs
  <1> QED BY <1>1, <1>4, <1>5, <1>6 DEF Repl!Id, ReplParameters

\* An event reaches the stream, the buffer and, as targets, all clients.
LEMMA EmitKeeps ==
  ASSUME ReplParameters, ReplInv, NEW e \in Event, Repl!Idle, Repl!Emit(e),
         e.op = "insert" => e.id = Repl!NextId,
         data' \in [Repl!Id -> EventVal \cup {None}], Repl!StreamIsHistory'
  PROVE  ReplInv'
  <1>0. PICK L \in Nat : L = Len(log) BY DEF ReplInv, ReplTypes
  <1>1. /\ L < MaxEvents /\ log' = Append(log, e) /\ buffer' = Repl!Bounded(Append(buffer, e))
        /\ targets' = clients /\ targets = <<>>
        /\ UNCHANGED <<clients, link, queue, copy, base, from>>
    BY <1>0 DEF Repl!Emit, Repl!Idle
  <1>2. /\ log' \in Seq(Event) /\ L \in Nat /\ Len(log') = L + 1
        /\ DOMAIN log = 1..L /\ DOMAIN log' = 1..(L + 1)
        /\ log'[L + 1] = e
        /\ \A k \in 1..L : log'[k] = log[k]
        /\ \A n \in 0..L : Repl!Inserts(n)' = Repl!Inserts(n) /\ Count(n)' = Count(n)
    BY <1>0, <1>1, LogGrows
  <1>3. buffer' \in Seq(Event) /\ Repl!BufferIsRecent' BY <1>1, BufferGrows
  <1>4. ReplTypes'
    <2>1. Len(log') <= MaxEvents BY <1>1, <1>2 DEF ReplParameters
    <2> QED BY <1>1, <1>2, <1>3, <2>1 DEF ReplInv, ReplTypes
  <1>5. Repl!Inserts(L + 1)' = IF e.op = "insert" THEN Repl!Inserts(L) \cup {L + 1} ELSE Repl!Inserts(L)
    <2>1. Repl!Inserts(L + 1)' = {m \in 1..(L + 1) : log'[m].op = "insert"}
      BY <1>2 DEF Repl!Inserts
    <2>2. Repl!Inserts(L) = {m \in 1..L : log'[m].op = "insert"} BY <1>2 DEF Repl!Inserts
    <2>3. 1..(L + 1) = (1..L) \cup {L + 1} BY <1>2
    <2> QED BY <1>2, <2>1, <2>2, <2>3
  <1>6. IsFiniteSet(Repl!Inserts(L)) /\ Count(L) \in Nat BY <1>2, CountNat
  <1>7. e.op = "insert" => Count(L + 1)' = Count(L) + 1
    <2>1. L + 1 \notin Repl!Inserts(L) BY <1>2 DEF Repl!Inserts
    <2>2. Cardinality(Repl!Inserts(L) \cup {L + 1}) = Count(L) + 1
      BY <1>6, <2>1, FS_AddElement DEF Count
    <2> QED BY <1>5, <2>2 DEF Count
  <1>8. Repl!NextId = Count(L) + 1 BY <1>0, <1>1, NextInsert
  <1>9. Numbered'
    <2> SUFFICES ASSUME NEW n \in 1..(L + 1), log'[n].op = "insert"
                 PROVE  log'[n].id = Count(n)'
      BY <1>2 DEF Numbered
    <2>1. CASE n = L + 1 BY <1>2, <1>7, <1>8, <2>1
    <2>2. CASE n # L + 1
      <3>1. n \in 1..L /\ n \in 0..L BY <1>2, <2>2
      <3>2. log[n].id = Count(n) BY <1>2, <3>1 DEF ReplInv, Numbered
      <3> QED BY <1>2, <3>1, <3>2
    <2> QED BY <2>1, <2>2
  <1>10. Linked' BY <1>1 DEF ReplInv, Linked
  <1>11. InStream'
    <2> SUFFICES ASSUME NEW r \in Replica, link[r] \in {"up", "down"}
                 PROVE  \E n \in 0..Len(log') : HasRead(r, n)'
      BY <1>1 DEF InStream
    <2>1. PICK n \in 0..L : HasRead(r, n) BY <1>0 DEF ReplInv, InStream
    <2>2. Len(queue[r]) \in Nat /\ n \in Nat BY DEF ReplInv, ReplTypes
    <2>3. Repl!NewIn(r)' = Repl!NewIn(r) BY <1>1 DEF Repl!NewIn
    <2>4. n + Len(queue[r]) <= L BY <1>0, <2>1 DEF HasRead
    <2>5. \A k \in 1..Len(queue[r]) : queue[r][k] = log'[n + k]
      <3>1. \A k \in 1..Len(queue[r]) : n + k \in 1..L BY <1>2, <2>2, <2>4
      <3> QED BY <1>2, <2>1, <3>1 DEF HasRead
    <2>6. Repl!NewIn(r)' = Count(n)' - from[r] BY <1>2, <2>1, <2>3 DEF HasRead
    <2>7. ASSUME link[r] = "up" PROVE n + Len(queue[r]) = L /\ Repl!Contains(targets', r)
      <3>1. Repl!Contains(clients, r) BY <2>7 DEF ReplInv, Linked
      <3>2. ~Repl!Contains(targets, r) BY <1>1 DEF Repl!Contains
      <3> QED BY <1>0, <1>1, <2>1, <2>7, <3>1, <3>2 DEF HasRead
    <2>8. HasRead(r, n)'
      <3>1. n + Len(queue'[r]) <= Len(log') BY <1>1, <1>2, <2>2, <2>4
      <3>2. \A k \in 1..Len(queue'[r]) : queue'[r][k] = log'[n + k] BY <1>1, <2>5
      <3>3. Repl!NewIn(r)' = Count(n)' - from'[r] BY <1>1, <2>6
      <3>4. link'[r] = "up" =>
              n + Len(queue'[r]) = IF Repl!Contains(targets', r) THEN Len(log') - 1 ELSE Len(log')
        BY <1>1, <1>2, <2>7
      <3> QED BY <3>1, <3>2, <3>3, <3>4 DEF HasRead
    <2> QED BY <1>2, <2>2, <2>8
  <1>12. Repl!ReplicaInOrder'
    <2> SUFFICES ASSUME NEW r \in Replica, link[r] \in {"up", "down"}
                 PROVE  /\ Repl!IsPrefix(base[r], copy[r])
                        /\ \A k \in 1..Repl!NewIn(r) : \E n \in Repl!Inserts(Len(log))' :
                             copy[r][Len(base[r]) + k] = log'[n] /\ log'[n].id = from[r] + k
      BY <1>1 DEF Repl!ReplicaInOrder, Repl!NewIn
    <2>1. Repl!Inserts(Len(log))' = Repl!Inserts(L + 1)' BY <1>2 DEF Repl!Inserts
    <2>2. \A n \in Repl!Inserts(L) : n \in Repl!Inserts(Len(log))' /\ log'[n] = log[n]
      BY <1>2, <1>5, <2>1 DEF Repl!Inserts
    <2> QED BY <1>0, <2>2 DEF ReplInv, Repl!ReplicaInOrder
  <1> QED BY <1>3, <1>4, <1>9, <1>10, <1>11, <1>12 DEF ReplInv

\* The last event about a record, after one more event.
LEMMA HistoryGrows ==
  ASSUME ReplInv, NEW e \in Event, log' = Append(log, e),
         data' = [data EXCEPT ![e.id] = e.val], silent' = silent
  PROVE  data' \in [Repl!Id -> EventVal \cup {None}] /\ Repl!StreamIsHistory'
  <1>0. PICK L \in Nat : L = Len(log) BY DEF ReplInv, ReplTypes
  <1>1. /\ Len(log') = L + 1
        /\ DOMAIN log = 1..L /\ DOMAIN log' = 1..(L + 1)
        /\ log'[L + 1] = e
        /\ \A k \in 1..L : log'[k] = log[k]
    BY <1>0, LogGrows
  <1>2. e.id \in Repl!Id /\ e.val \in EventVal \cup {None} BY DEF Event
  <1>3. data' \in [Repl!Id -> EventVal \cup {None}] /\ data'[e.id] = e.val
        /\ \A i \in Repl!Id : i # e.id => data'[i] = data[i]
    BY <1>2 DEF ReplInv, ReplTypes
  <1>4. ASSUME ~silent', NEW i \in Repl!Id
        PROVE  \/ data'[i] = None /\ \A n \in DOMAIN log' : log'[n].id # i
               \/ \E n \in DOMAIN log' : Repl!LastAbout(i, n)' /\ data'[i] = log'[n].val
    <2>1. CASE i = e.id
      <3>1. (L + 2)..Len(log') = {} BY <1>1
      <3>2. Repl!LastAbout(i, L + 1)' BY <1>1, <2>1 DEF Repl!LastAbout
      <3>3. data'[i] = log'[L + 1].val /\ L + 1 \in DOMAIN log' BY <1>1, <1>3, <2>1
      <3> QED BY <3>2, <3>3
    <2>2. CASE i # e.id
      <3>1. data'[i] = data[i] BY <1>3, <2>2
      <3>2. CASE data[i] = None /\ \A n \in DOMAIN log : log[n].id # i
        <4>1. \A n \in DOMAIN log' : log'[n].id # i BY <1>1, <2>2, <3>2
        <4> QED BY <3>1, <3>2, <4>1
      <3>3. CASE \E n \in DOMAIN log : Repl!LastAbout(i, n) /\ data[i] = log[n].val
        <4>1. PICK n \in DOMAIN log : Repl!LastAbout(i, n) /\ data[i] = log[n].val BY <3>3
        <4>2. n \in DOMAIN log' /\ log'[n] = log[n] /\ n \in 1..L BY <1>1
        <4>3. \A m \in (n + 1)..(L + 1) : log'[m].id # i
          <5> SUFFICES ASSUME NEW m \in (n + 1)..(L + 1) PROVE log'[m].id # i
            OBVIOUS
          <5>1. CASE m = L + 1 BY <1>1, <2>2, <5>1
          <5>2. CASE m # L + 1
            <6>1. m \in 1..L /\ m \in (n + 1)..L BY <1>1, <4>2, <5>2
            <6> QED BY <1>0, <1>1, <4>1, <6>1 DEF Repl!LastAbout
          <5> QED BY <5>1, <5>2
        <4>4. Repl!LastAbout(i, n)' BY <1>1, <4>1, <4>2, <4>3 DEF Repl!LastAbout
        <4> QED BY <3>1, <4>1, <4>2, <4>4
      <3>4. ~silent BY <1>4
      <3> QED BY <3>2, <3>3, <3>4 DEF ReplInv, Repl!StreamIsHistory
    <2> QED BY <2>1, <2>2
  <1> QED BY <1>3, <1>4 DEF Repl!StreamIsHistory

\* The changes of the primary.
LEMMA WriteKeeps ==
  ASSUME ReplParameters, ReplInv, NEW e \in Event, Repl!Idle, Repl!Emit(e),
         e.op = "insert" => e.id = Repl!NextId,
         data' = [data EXCEPT ![e.id] = e.val], silent' = silent
  PROVE  ReplInv'
  BY HistoryGrows, EmitKeeps DEF Repl!Emit

LEMMA InsertSends ==
  ASSUME ReplParameters, ReplInv, NEW v \in EventVal, Repl!Insert(v) \/ Repl!RolledBack(v)
  PROVE  ReplInv'
  <1> DEFINE e == [op |-> "insert", id |-> Repl!NextId, val |-> v]
  <1>1. Repl!Idle /\ Repl!Emit(e) BY DEF Repl!Insert, Repl!RolledBack
  <1>2. Repl!NextId \in Repl!Id BY <1>1, NextInsert DEF Repl!Emit
  <1>3. e \in Event /\ e.id = Repl!NextId /\ e.val = v BY <1>2 DEF Event
  <1>4. CASE Repl!Insert(v)
    <2>1. data' = [data EXCEPT ![e.id] = e.val] /\ silent' = silent BY <1>4 DEF Repl!Insert
    <2> QED BY <1>1, <1>3, <2>1, WriteKeeps
  <1>5. CASE Repl!RolledBack(v)
    <2>1. data' = data /\ silent' BY <1>5 DEF Repl!RolledBack
    <2>2. Repl!StreamIsHistory' BY <2>1 DEF Repl!StreamIsHistory
    <2>3. data' \in [Repl!Id -> EventVal \cup {None}] BY <2>1 DEF ReplInv, ReplTypes
    <2> QED BY <1>1, <1>3, <2>2, <2>3, EmitKeeps
  <1> QED BY <1>4, <1>5

LEMMA UpdateSends ==
  ASSUME ReplParameters, ReplInv, NEW i \in Repl!Id, NEW v \in EventVal, Repl!Update(i, v)
  PROVE  ReplInv'
  <1> DEFINE e == [op |-> "update", id |-> i, val |-> v]
  <1>1. /\ Repl!Idle /\ Repl!Emit(e) /\ e \in Event /\ e.op # "insert"
        /\ data' = [data EXCEPT ![e.id] = e.val] /\ silent' = silent
    BY DEF Repl!Update, Event
  <1> QED BY <1>1, WriteKeeps

LEMMA DeleteSends ==
  ASSUME ReplParameters, ReplInv, NEW i \in Repl!Id, Repl!Delete(i)
  PROVE  ReplInv'
  <1> DEFINE e == [op |-> "delete", id |-> i, val |-> None]
  <1>1. /\ Repl!Idle /\ Repl!Emit(e) /\ e \in Event /\ e.op # "insert"
        /\ data' = [data EXCEPT ![e.id] = e.val] /\ silent' = silent
    BY DEF Repl!Delete, Event
  <1> QED BY <1>1, WriteKeeps

\* What follows from the stream alone.
LEMMA LogKept ==
  ASSUME ReplInv, UNCHANGED <<log, buffer>>
  PROVE  /\ Numbered' /\ Repl!BufferIsRecent'
         /\ \A n : Repl!Inserts(n)' = Repl!Inserts(n) /\ Count(n)' = Count(n)
         /\ Repl!NextId' = Repl!NextId /\ Repl!Inserts(Len(log))' = Repl!Inserts(Len(log))
         /\ UNCHANGED <<data, silent>> => Repl!StreamIsHistory'
  <1>1. \A n : Repl!Inserts(n)' = Repl!Inserts(n) BY DEF Repl!Inserts
  <1>2. \A n : Count(n)' = Count(n) BY <1>1 DEF Count
  <1>3. Repl!Inserts(Len(log))' = Repl!Inserts(Len(log)) BY DEF Repl!Inserts
  <1>4. Repl!NextId' = Repl!NextId BY <1>3 DEF Repl!NextId
  <1>5. Numbered' BY <1>2 DEF ReplInv, Numbered
  <1>6. Repl!BufferIsRecent' BY DEF ReplInv, Repl!BufferIsRecent
  <1>7. ASSUME UNCHANGED <<data, silent>> PROVE Repl!StreamIsHistory'
    BY <1>7 DEF ReplInv, Repl!StreamIsHistory, Repl!LastAbout
  <1> QED BY <1>1, <1>2, <1>3, <1>4, <1>5, <1>6, <1>7

LEMMA DropSends == ASSUME ReplParameters, ReplInv, Repl!Drop PROVE ReplInv'
  <1>1. /\ data' = [i \in Repl!Id |-> None] /\ silent' = TRUE
        /\ UNCHANGED <<log, buffer, clients, targets, link, queue, copy, base, from>>
    BY DEF Repl!Drop, Repl!replicaVars
  <1>2. Numbered' /\ Repl!BufferIsRecent' /\ (\A n : Count(n)' = Count(n))
        /\ Repl!Inserts(Len(log))' = Repl!Inserts(Len(log))
    BY <1>1, LogKept
  <1>3. ReplTypes'
    <2>1. data' \in [Repl!Id -> EventVal \cup {None}] BY <1>1
    <2> QED BY <1>1, <2>1 DEF ReplInv, ReplTypes
  <1>4. Linked' BY <1>1 DEF ReplInv, Linked
  <1>5. InStream' BY <1>1, <1>2 DEF ReplInv, InStream, HasRead, Repl!NewIn
  <1>6. Repl!StreamIsHistory' BY <1>1 DEF Repl!StreamIsHistory
  <1>7. Repl!ReplicaInOrder' BY <1>1, <1>2 DEF ReplInv, Repl!ReplicaInOrder, Repl!NewIn
  <1> QED BY <1>2, <1>3, <1>4, <1>5, <1>6, <1>7 DEF ReplInv

\* What r has stored is in order as long as it does not change.
LEMMA CopyKept ==
  ASSUME ReplInv, UNCHANGED <<log, copy, base, from>>,
         \A r \in Replica : link'[r] \in {"up", "down"} => link[r] \in {"up", "down"}
  PROVE  Repl!ReplicaInOrder'
  <1>1. Repl!Inserts(Len(log))' = Repl!Inserts(Len(log)) BY DEF Repl!Inserts
  <1> QED BY <1>1 DEF ReplInv, Repl!ReplicaInOrder, Repl!NewIn

LEMMA SendKeeps == ASSUME ReplParameters, ReplInv, Repl!Send PROVE ReplInv'
  <1>0. /\ targets \in Seq(Replica) /\ targets # <<>>
        /\ clients \in Seq(Replica) /\ log \in Seq(Event)
        /\ Repl!IsInjective(targets) /\ Repl!IsInjective(clients)
    BY DEF ReplInv, ReplTypes, Linked, Repl!Send, Repl!Idle
  <1>2. PICK r \in Replica : r = Head(targets) /\ r = targets[1] BY <1>0
  <1>1. /\ targets' = Tail(targets)
        /\ UNCHANGED <<data, log, buffer, link, copy, base, from, silent>>
        /\ \/ /\ link[r] = "up" /\ clients' = clients
              /\ queue' = [queue EXCEPT ![r] = Append(@, Repl!Last(log))]
           \/ link[r] = "down" /\ Repl!RemoveClient(r) /\ queue' = queue
    BY <1>2 DEF Repl!Send
  <1>3. Repl!Contains(targets, r) BY <1>0, <1>2 DEF Repl!Contains
  <1>4. /\ targets' \in Seq(Replica) /\ Repl!IsInjective(targets')
        /\ \A x : Repl!Contains(targets', x) <=> Repl!Contains(targets, x) /\ x # r
    <2>1. /\ Tail(targets) \in Seq(Replica) /\ Len(Tail(targets)) = Len(targets) - 1
          /\ DOMAIN Tail(targets) = 1..(Len(targets) - 1)
          /\ \A k \in 1..(Len(targets) - 1) : Tail(targets)[k] = targets[k + 1]
          /\ Len(targets) \in Nat \ {0} /\ r = targets[1]
      BY <1>0, <1>2
    <2>2. \A i, j \in 1..Len(targets) : targets[i] = targets[j] => i = j
      BY <1>0 DEF Repl!IsInjective
    <2>3. Repl!IsInjective(Tail(targets))
      <3> SUFFICES ASSUME NEW i \in 1..(Len(targets) - 1), NEW j \in 1..(Len(targets) - 1),
                          Tail(targets)[i] = Tail(targets)[j]
                   PROVE  i = j
        BY <2>1 DEF Repl!IsInjective
      <3>1. i + 1 = j + 1 BY <2>1, <2>2
      <3> QED BY <2>1, <3>1
    <2>4. ASSUME NEW x
      PROVE Repl!Contains(Tail(targets), x) <=> Repl!Contains(targets, x) /\ x # r
      <3>1. ASSUME NEW k \in 1..(Len(targets) - 1), Tail(targets)[k] = x
            PROVE  Repl!Contains(targets, x) /\ x # r
        <4>1. k + 1 \in 1..Len(targets) /\ targets[k + 1] = x /\ k + 1 # 1 /\ 1 \in 1..Len(targets)
          BY <2>1, <3>1
        <4> QED BY <2>1, <2>2, <4>1 DEF Repl!Contains
      <3>2. ASSUME NEW k \in 1..Len(targets), targets[k] = x, x # r
            PROVE  Repl!Contains(Tail(targets), x)
        <4>1. k # 1 BY <2>1, <3>2
        <4>2. k - 1 \in 1..(Len(targets) - 1) /\ Tail(targets)[k - 1] = x
          BY <2>1, <3>2, <4>1
        <4> QED BY <2>1, <4>2 DEF Repl!Contains
      <3> QED BY <2>1, <3>1, <3>2 DEF Repl!Contains
    <2> QED BY <1>1, <2>1, <2>3, <2>4
  <1>5. Numbered' /\ Repl!BufferIsRecent' /\ Repl!StreamIsHistory' /\ \A n : Count(n)' = Count(n)
    BY <1>1, LogKept
  <1>6. Repl!ReplicaInOrder' BY <1>1, CopyKept
  <1>7. CASE link[r] = "down" /\ Repl!RemoveClient(r) /\ queue' = queue
    <2>1. /\ clients' \in Seq(Replica) /\ Repl!IsInjective(clients')
          /\ \A x : Repl!Contains(clients', x) <=> Repl!Contains(clients, x) /\ x # r
      BY <1>0, <1>7, ClientRemoved
    <2>2. ReplTypes' BY <1>1, <1>4, <1>7, <2>1 DEF ReplInv, ReplTypes
    <2>3. Linked' BY <1>1, <1>4, <1>7, <2>1 DEF ReplInv, Linked
    <2>4. InStream'
      <3> SUFFICES ASSUME NEW x \in Replica, link[x] \in {"up", "down"}
                   PROVE  \E n \in 0..Len(log) : HasRead(x, n)'
        BY <1>1 DEF InStream
      <3>1. PICK n \in 0..Len(log) : HasRead(x, n) BY DEF ReplInv, InStream
      <3>2. x = r => link[x] # "up" BY <1>7
      <3>3. HasRead(x, n)' BY <1>1, <1>4, <1>5, <1>7, <3>1, <3>2 DEF HasRead, Repl!NewIn
      <3> QED BY <3>3
    <2> QED BY <1>5, <1>6, <2>2, <2>3, <2>4 DEF ReplInv
  <1>8. CASE /\ link[r] = "up" /\ clients' = clients
             /\ queue' = [queue EXCEPT ![r] = Append(@, Repl!Last(log))]
    <2>1. PICK n \in 0..Len(log) : HasRead(r, n) BY <1>3, <1>8 DEF ReplInv, InStream
    <2>2. queue[r] \in Seq(Event) /\ Len(queue[r]) \in Nat /\ Len(log) \in Nat
      BY <1>0 DEF ReplInv, ReplTypes
    <2>3. n + Len(queue[r]) = Len(log) - 1 BY <1>3, <1>8, <2>1 DEF HasRead
    <2>4. Len(log) \in 1..Len(log) /\ Repl!Last(log) = log[Len(log)] /\ Repl!Last(log) \in Event
      BY <1>0, <2>2, <2>3 DEF Repl!Last
    <2>5. /\ queue'[r] = Append(queue[r], Repl!Last(log))
          /\ \A x \in Replica : x # r => queue'[x] = queue[x]
          /\ queue' \in [Replica -> Seq(Event)]
      BY <1>3, <1>8, <2>2, <2>4, Appended DEF ReplInv, ReplTypes
    <2>6. ReplTypes' BY <1>1, <1>4, <1>8, <2>5 DEF ReplInv, ReplTypes
    <2>7. Linked' BY <1>1, <1>4, <1>8, <2>5 DEF ReplInv, Linked
    <2>8. HasRead(r, n)'
      <3>1. Len(queue'[r]) = Len(queue[r]) + 1 BY <2>2, <2>4, <2>5, Appended
      <3>2. ASSUME NEW k \in 1..(Len(queue[r]) + 1) PROVE queue'[r][k] = log[n + k]
        <4>1. CASE k = Len(queue[r]) + 1
          <5>1. n + k = Len(log) BY <2>2, <2>3, <4>1
          <5>2. queue'[r][k] = Repl!Last(log) BY <2>2, <2>4, <2>5, <4>1, Appended
          <5> QED BY <2>4, <5>1, <5>2
        <4>2. CASE k # Len(queue[r]) + 1
          <5>1. k \in 1..Len(queue[r]) BY <2>2, <4>2
          <5>2. queue'[r][k] = queue[r][k] BY <2>2, <2>4, <2>5, <5>1, Appended
          <5> QED BY <2>1, <5>1, <5>2 DEF HasRead
        <4> QED BY <4>1, <4>2
      <3>3. ~Repl!Contains(targets', r) BY <1>4
      <3>4. n + Len(queue'[r]) = Len(log) BY <2>2, <2>3, <3>1
      <3>5. Repl!NewIn(r)' = Count(n)' - from'[r] BY <1>1, <1>5, <2>1 DEF HasRead, Repl!NewIn
      <3>6. \A k \in 1..Len(queue'[r]) : queue'[r][k] = log'[n + k] BY <1>1, <3>1, <3>2
      <3> QED BY <1>1, <2>2, <3>3, <3>4, <3>5, <3>6 DEF HasRead
    <2>9. InStream'
      <3> SUFFICES ASSUME NEW x \in Replica, link[x] \in {"up", "down"}, x # r
                   PROVE  \E m \in 0..Len(log) : HasRead(x, m)'
        BY <1>1, <2>8 DEF InStream
      <3>1. PICK m \in 0..Len(log) : HasRead(x, m) BY DEF ReplInv, InStream
      <3>2. HasRead(x, m)' BY <1>1, <1>4, <1>5, <2>5, <3>1 DEF HasRead, Repl!NewIn
      <3> QED BY <3>2
    <2> QED BY <1>5, <1>6, <2>6, <2>7, <2>9 DEF ReplInv
  <1> QED BY <1>1, <1>7, <1>8

\* A step that changes neither the stream nor what r has, and cuts no link.
LEMMA SameReading ==
  ASSUME ReplInv, NEW r \in Replica, NEW n \in Nat, HasRead(r, n),
         UNCHANGED <<log, targets>>,
         queue'[r] = queue[r], copy'[r] = copy[r], base'[r] = base[r], from'[r] = from[r],
         link'[r] = "up" => link[r] = "up"
  PROVE  HasRead(r, n)'
  <1>1. Count(n)' = Count(n) BY DEF Count, Repl!Inserts
  <1>2. Repl!NewIn(r)' = Repl!NewIn(r) BY DEF Repl!NewIn
  <1> QED BY <1>1, <1>2 DEF HasRead

\* A replica is accepted: it has read the whole stream, its own part of it is empty.
LEMMA AcceptKeeps ==
  ASSUME ReplParameters, ReplInv, NEW r \in Replica, Repl!Accept(r) PROVE ReplInv'
  <1>1. /\ link[r] = "open" /\ clients' = Append(clients, r)
        /\ link' = [link EXCEPT ![r] = "up"]
        /\ base' = [base EXCEPT ![r] = copy[r]] /\ from' = [from EXCEPT ![r] = Repl!NextId - 1]
        /\ UNCHANGED <<data, log, buffer, targets, silent, queue, copy>>
    BY DEF Repl!Accept, Repl!primaryVars
  <1>2. ReplTypes /\ Linked BY DEF ReplInv
  <1>3. ~Repl!Contains(clients, r) /\ ~Repl!Contains(targets, r) /\ queue[r] = <<>>
    BY <1>1, <1>2 DEF Linked
  <1>4. PICK L \in Nat : L = Len(log) BY <1>2 DEF ReplTypes
  <1>5. Repl!NextId - 1 = Count(L) /\ Count(L) \in Nat
    BY <1>4, CountNat, NextIdIs
  <1>6. Numbered' /\ Repl!BufferIsRecent' /\ Repl!StreamIsHistory' /\ (\A n : Count(n)' = Count(n))
        /\ Repl!Inserts(Len(log))' = Repl!Inserts(Len(log))
    BY <1>1, LogKept
  <1>7. /\ clients' \in Seq(Replica) /\ Len(clients') = Len(clients) + 1
        /\ Len(clients) \in Nat /\ DOMAIN clients' = 1..(Len(clients) + 1)
        /\ DOMAIN clients = 1..Len(clients)
        /\ clients'[Len(clients) + 1] = r
        /\ \A k \in 1..Len(clients) : clients'[k] = clients[k]
    BY <1>1, <1>2, Appended DEF ReplTypes
  <1>8. \A x : Repl!Contains(clients', x) <=> Repl!Contains(clients, x) \/ x = r
    BY <1>7 DEF Repl!Contains
  <1>9. Repl!IsInjective(clients')
    <2> SUFFICES ASSUME NEW i \in 1..(Len(clients) + 1), NEW j \in 1..(Len(clients) + 1),
                        clients'[i] = clients'[j]
                 PROVE  i = j
      BY <1>7 DEF Repl!IsInjective
    <2>1. \A k \in 1..Len(clients) : clients[k] # r BY <1>3, <1>7 DEF Repl!Contains
    <2>2. \A k, m \in 1..Len(clients) : clients[k] = clients[m] => k = m
      BY <1>2 DEF Linked, Repl!IsInjective
    <2>3. CASE i = Len(clients) + 1 /\ j # Len(clients) + 1 BY <1>7, <2>1, <2>3
    <2>4. CASE j = Len(clients) + 1 /\ i # Len(clients) + 1 BY <1>7, <2>1, <2>4
    <2>5. CASE j # Len(clients) + 1 /\ i # Len(clients) + 1 BY <1>7, <2>2, <2>5
    <2> QED BY <2>3, <2>4, <2>5
  <1>10. /\ link'[r] = "up" /\ base'[r] = copy[r] /\ from'[r] = Count(L)
         /\ \A x \in Replica : x # r =>
              link'[x] = link[x] /\ base'[x] = base[x] /\ from'[x] = from[x]
    BY <1>1, <1>2, <1>5 DEF ReplTypes
  <1>11. ReplTypes'
    <2>1. link' \in [Replica -> {"off", "open", "up", "down"}] BY <1>1, <1>2 DEF ReplTypes
    <2>2. base' \in [Replica -> Seq(Event)] BY <1>1, <1>2 DEF ReplTypes
    <2>3. from' \in [Replica -> Nat] BY <1>1, <1>2, <1>5 DEF ReplTypes
    <2> QED BY <1>1, <1>2, <1>7, <2>1, <2>2, <2>3 DEF ReplTypes
  <1>12. Linked' BY <1>1, <1>2, <1>8, <1>9, <1>10 DEF Linked
  <1>13. Repl!NewIn(r)' = 0
    <2>1. copy[r] \in Seq(Event) BY <1>2 DEF ReplTypes
    <2>2. Len(copy[r]) \in Nat BY <2>1
    <2> QED BY <1>1, <1>10, <2>2 DEF Repl!NewIn
  <1>14. InStream'
    <2>1. HasRead(r, L)'
      <3>1. Len(queue'[r]) = 0 BY <1>1, <1>3
      <3>2. ~Repl!Contains(targets', r) BY <1>1, <1>3
      <3>3. Repl!NewIn(r)' = Count(L)' - from'[r] BY <1>5, <1>6, <1>10, <1>13
      <3> QED BY <1>1, <1>4, <3>1, <3>2, <3>3 DEF HasRead
    <2> SUFFICES ASSUME NEW x \in Replica, link[x] \in {"up", "down"}, x # r
                 PROVE  \E n \in 0..Len(log) : HasRead(x, n)'
      BY <1>1, <1>4, <1>10, <2>1 DEF InStream
    <2>2. PICK n \in 0..Len(log) : HasRead(x, n) BY DEF ReplInv, InStream
    <2>3. n \in Nat BY <1>4
    <2>4. HasRead(x, n)' BY <1>1, <1>10, <2>2, <2>3, SameReading
    <2> QED BY <2>4
  <1>15. Repl!ReplicaInOrder'
    <2> SUFFICES ASSUME NEW x \in Replica, link'[x] \in {"up", "down"}
                 PROVE  /\ Repl!IsPrefix(base'[x], copy'[x])
                        /\ \A k \in 1..Repl!NewIn(x)' : \E n \in Repl!Inserts(Len(log))' :
                             /\ copy'[x][Len(base'[x]) + k] = log'[n]
                             /\ log'[n].id = from'[x] + k
      BY DEF Repl!ReplicaInOrder
    <2>1. CASE x = r
      <3>1. copy[r] \in Seq(Event) BY <1>2 DEF ReplTypes
      <3>2. Repl!IsPrefix(copy[r], copy[r]) BY <3>1 DEF Repl!IsPrefix
      <3>3. base'[x] = copy'[x] BY <1>1, <1>10, <2>1
      <3>4. 1..Repl!NewIn(x)' = {} BY <1>13, <2>1
      <3> QED BY <1>1, <2>1, <3>2, <3>3, <3>4
    <2>2. CASE x # r
      <3>1. Repl!NewIn(x)' = Repl!NewIn(x) BY <1>1, <1>10, <2>2 DEF Repl!NewIn
      <3> QED BY <1>1, <1>6, <1>10, <2>2, <3>1 DEF ReplInv, Repl!ReplicaInOrder
    <2> QED BY <2>1, <2>2
  <1> QED BY <1>6, <1>11, <1>12, <1>14, <1>15 DEF ReplInv

LEMMA HandlerEndsKeeps ==
  ASSUME ReplParameters, ReplInv, NEW r \in Replica, Repl!HandlerEnds(r) PROVE ReplInv'
  <1>1. /\ link[r] = "down" /\ Repl!RemoveClient(r)
        /\ UNCHANGED <<data, log, buffer, targets, silent, link, queue, copy, base, from>>
    BY DEF Repl!HandlerEnds, Repl!primaryVars, Repl!replicaVars
  <1>2. ReplTypes /\ Linked BY DEF ReplInv
  <1>3. /\ clients' \in Seq(Replica) /\ Repl!IsInjective(clients')
        /\ \A x : Repl!Contains(clients', x) <=> Repl!Contains(clients, x) /\ x # r
    BY <1>1, <1>2, ClientRemoved DEF ReplTypes, Linked
  <1>4. Numbered' /\ Repl!BufferIsRecent' /\ Repl!StreamIsHistory' BY <1>1, LogKept
  <1>5. ReplTypes' BY <1>1, <1>2, <1>3 DEF ReplTypes
  <1>6. Linked' BY <1>1, <1>2, <1>3 DEF Linked
  <1>7. InStream'
    <2> SUFFICES ASSUME NEW x \in Replica, link[x] \in {"up", "down"}
                 PROVE  \E n \in 0..Len(log) : HasRead(x, n)'
      BY <1>1 DEF InStream
    <2>1. PICK n \in 0..Len(log) : HasRead(x, n) BY DEF ReplInv, InStream
    <2>2. n \in Nat BY <1>2 DEF ReplTypes
    <2>3. HasRead(x, n)' BY <1>1, <2>1, <2>2, SameReading
    <2> QED BY <2>3
  <1>8. Repl!ReplicaInOrder' BY <1>1, CopyKept
  <1> QED BY <1>4, <1>5, <1>6, <1>7, <1>8 DEF ReplInv

\* The primary stops: who was connected is a client, so no link stays up.
LEMMA StopPrimaryKeeps == ASSUME ReplParameters, ReplInv, Repl!StopPrimary PROVE ReplInv'
  <1>1. /\ clients' = <<>>
        /\ link' = [x \in Replica |-> IF Repl!Contains(clients, x) THEN "down" ELSE link[x]]
        /\ UNCHANGED <<data, log, buffer, targets, silent, queue, copy, base, from>>
    BY DEF Repl!StopPrimary
  <1>2. ReplTypes /\ Linked BY DEF ReplInv
  <1>3. Numbered' /\ Repl!BufferIsRecent' /\ Repl!StreamIsHistory' BY <1>1, LogKept
  <1>4. \A x \in Replica : /\ link'[x] # "up"
                           /\ link'[x] \in {"off", "open"} => link[x] = link'[x]
                           /\ link'[x] = "down" => link[x] \in {"up", "down"}
    BY <1>1, <1>2 DEF Linked, ReplTypes
  <1>5. ReplTypes'
    <2>1. clients' \in Seq(Replica) BY <1>1
    <2>2. link' \in [Replica -> {"off", "open", "up", "down"}] BY <1>1, <1>2 DEF ReplTypes
    <2> QED BY <1>1, <1>2, <2>1, <2>2 DEF ReplTypes
  <1>6. Linked'
    <2>1. Repl!IsInjective(clients') /\ \A x : ~Repl!Contains(clients', x)
      BY <1>1 DEF Repl!IsInjective, Repl!Contains
    <2> QED BY <1>1, <1>2, <1>4, <2>1 DEF Linked
  <1>7. InStream'
    <2> SUFFICES ASSUME NEW x \in Replica, link'[x] \in {"up", "down"}
                 PROVE  \E n \in 0..Len(log) : HasRead(x, n)'
      BY <1>1 DEF InStream
    <2>1. PICK n \in 0..Len(log) : HasRead(x, n) BY <1>4 DEF ReplInv, InStream
    <2>2. n \in Nat BY <1>2 DEF ReplTypes
    <2>3. HasRead(x, n)' BY <1>1, <1>4, <2>1, <2>2, SameReading
    <2> QED BY <2>3
  <1>8. Repl!ReplicaInOrder' BY <1>1, <1>4, CopyKept
  <1> QED BY <1>3, <1>5, <1>6, <1>7, <1>8 DEF ReplInv

\* A lost link loses what was under way.
LEMMA LinkCut ==
  ASSUME ReplInv, NEW r \in Replica, NEW s \in {"open", "down"},
         link' = [link EXCEPT ![r] = s], queue' = [queue EXCEPT ![r] = <<>>],
         s = "down" => link[r] \in {"up", "down"},
         s = "open" => ~Repl!Contains(clients, r) /\ ~Repl!Contains(targets, r),
         UNCHANGED <<Repl!primaryVars, clients, copy, base, from>>
  PROVE  ReplInv'
  <1>1. UNCHANGED <<data, log, buffer, targets, silent>> BY DEF Repl!primaryVars
  <1>2. ReplTypes /\ Linked BY DEF ReplInv
  <1>3. Numbered' /\ Repl!BufferIsRecent' /\ Repl!StreamIsHistory' BY <1>1, LogKept
  <1>4. /\ link'[r] = s /\ queue'[r] = <<>>
        /\ \A x \in Replica : x # r => link'[x] = link[x] /\ queue'[x] = queue[x]
        /\ link' \in [Replica -> {"off", "open", "up", "down"}]
        /\ queue' \in [Replica -> Seq(Event)]
    BY <1>2 DEF ReplTypes
  <1>5. ReplTypes' BY <1>1, <1>2, <1>4 DEF ReplTypes
  <1>6. Linked' BY <1>1, <1>2, <1>4 DEF Linked
  <1>7. InStream'
    <2> SUFFICES ASSUME NEW x \in Replica, link'[x] \in {"up", "down"}
                 PROVE  \E n \in 0..Len(log) : HasRead(x, n)'
      BY <1>1 DEF InStream
    <2>1. link[x] \in {"up", "down"} BY <1>4
    <2>2. PICK n \in 0..Len(log) : HasRead(x, n) BY <2>1 DEF ReplInv, InStream
    <2>3. n \in Nat /\ n <= Len(log) BY <1>2 DEF ReplTypes
    <2>4. CASE x # r
      <3>1. HasRead(x, n)' BY <1>1, <1>4, <2>2, <2>3, <2>4, SameReading
      <3> QED BY <3>1
    <2>5. CASE x = r
      <3>1. Len(queue'[x]) = 0 /\ link'[x] # "up" BY <1>4, <2>5
      <3>2. Count(n)' = Count(n) BY <1>1 DEF Count, Repl!Inserts
      <3>3. Repl!NewIn(x)' = Repl!NewIn(x) BY DEF Repl!NewIn
      <3>4. Repl!NewIn(x)' = Count(n)' - from'[x] BY <2>2, <3>2, <3>3 DEF HasRead
      <3>5. HasRead(x, n)' BY <1>1, <2>3, <3>1, <3>4 DEF HasRead
      <3> QED BY <3>5
    <2> QED BY <2>4, <2>5
  <1>8. Repl!ReplicaInOrder'
    <2>1. \A x \in Replica : link'[x] \in {"up", "down"} => link[x] \in {"up", "down"}
      BY <1>4
    <2> QED BY <1>1, <2>1, CopyKept
  <1> QED BY <1>3, <1>5, <1>6, <1>7, <1>8 DEF ReplInv

LEMMA ConnectKeeps ==
  ASSUME ReplParameters, ReplInv, NEW r \in Replica, Repl!Connect(r) PROVE ReplInv'
  BY LinkCut DEF Repl!Connect

LEMMA BreakKeeps ==
  ASSUME ReplParameters, ReplInv, NEW r \in Replica, Repl!Break(r) PROVE ReplInv'
  BY LinkCut DEF Repl!Break

\* A replica takes the next event of the stream: the n-th is followed by the one after it,
\* and an insert has the number the replica's own part is long.
LEMMA ReceiveKeeps ==
  ASSUME ReplParameters, ReplInv, NEW r \in Replica, Repl!Receive(r) PROVE ReplInv'
  <1>1. /\ queue[r] # <<>>
        /\ copy' = [copy EXCEPT ![r] = Repl!Apply(@, Head(queue[r]))]
        /\ queue' = [queue EXCEPT ![r] = Tail(@)]
        /\ UNCHANGED <<data, log, buffer, targets, silent, clients, link, base, from>>
    BY DEF Repl!Receive, Repl!primaryVars
  <1>2. ReplTypes /\ Linked BY DEF ReplInv
  <1>3. link[r] \in {"up", "down"} BY <1>1, <1>2 DEF Linked, ReplTypes
  <1>4. PICK n \in 0..Len(log) : HasRead(r, n) BY <1>3 DEF ReplInv, InStream
  <1>5. PICK L \in Nat : L = Len(log) /\ log \in Seq(Event) BY <1>2 DEF ReplTypes
  <1>6. PICK Q \in Nat : Q > 0 /\ Q = Len(queue[r]) BY <1>1, <1>2 DEF ReplTypes
  <1>7. n \in Nat /\ n + Q <= L /\ n + 1 \in 1..L
    BY <1>4, <1>5, <1>6 DEF HasRead
  <1>8. queue[r] \in Seq(Event) /\ copy[r] \in Seq(Event) /\ base[r] \in Seq(Event)
        /\ from[r] \in Nat
    BY <1>2 DEF ReplTypes
  <1>9. PICK e \in Event : e = log[n + 1] BY <1>5, <1>7
  <1>10. Head(queue[r]) = e
    <2>1. Head(queue[r]) = queue[r][1] BY <1>1, <1>8
    <2>2. 1 \in 1..Len(queue[r]) BY <1>6
    <2> QED BY <1>4, <1>9, <2>1, <2>2 DEF HasRead
  <1>11. /\ copy'[r] = Repl!Apply(copy[r], e) /\ queue'[r] = Tail(queue[r])
         /\ \A x \in Replica : x # r => copy'[x] = copy[x] /\ queue'[x] = queue[x]
    BY <1>1, <1>2, <1>10 DEF ReplTypes
  <1>12. Repl!Apply(copy[r], e) \in Seq(Event) BY <1>8, Appended DEF Repl!Apply
  <1>13. Tail(queue[r]) \in Seq(Event) /\ Len(Tail(queue[r])) = Q - 1
         /\ \A k \in 1..(Q - 1) : Tail(queue[r])[k] = queue[r][k + 1]
    BY <1>1, <1>6, <1>8
  <1>14. Numbered' /\ Repl!BufferIsRecent' /\ Repl!StreamIsHistory' /\ (\A m : Count(m)' = Count(m))
         /\ Repl!Inserts(Len(log))' = Repl!Inserts(Len(log))
    BY <1>1, LogKept
  <1>15. ReplTypes'
    <2>1. copy' \in [Replica -> Seq(Event)] BY <1>1, <1>2, <1>10, <1>12 DEF ReplTypes
    <2>2. queue' \in [Replica -> Seq(Event)] BY <1>1, <1>2, <1>13 DEF ReplTypes
    <2> QED BY <1>1, <1>2, <2>1, <2>2 DEF ReplTypes
  <1>16. Linked'
    <2>1. \A x \in Replica : queue[x] = <<>> => queue'[x] = <<>> BY <1>1, <1>11
    <2> QED BY <1>1, <1>2, <2>1 DEF Linked
  <1>17. PICK C \in Nat : C = Len(copy[r]) BY <1>8
  <1>18. PICK B \in Nat : B = Len(base[r]) BY <1>8
  <1>19. PICK c \in Nat : c = Count(n) BY <1>7, CountNat
  <1>20. C - B = c - from[r] /\ Repl!NewIn(r) = C - B
    BY <1>4, <1>17, <1>18, <1>19 DEF HasRead, Repl!NewIn
  <1>21. Count(n + 1) = IF e.op = "insert" THEN c + 1 ELSE c
    BY <1>7, <1>9, <1>19, CountNext
  <1>22. Len(copy'[r]) = IF e.op = "insert" THEN C + 1 ELSE C
    <2>1. Len(Append(copy[r], e)) = C + 1 BY <1>8, <1>17
    <2> QED BY <1>11, <1>17, <2>1 DEF Repl!Apply
  <1>23. Repl!NewIn(r)' = IF e.op = "insert" THEN (C - B) + 1 ELSE C - B
    <2>1. Repl!NewIn(r)' = Len(copy'[r]) - B BY <1>1, <1>18 DEF Repl!NewIn
    <2>2. (C + 1) - B = (C - B) + 1 OBVIOUS
    <2> QED BY <1>22, <2>1, <2>2
  <1>24. InStream'
    <2>1. HasRead(r, n + 1)'
      <3>1. Len(queue'[r]) = Q - 1 BY <1>11, <1>13
      <3>2. (n + 1) + Len(queue'[r]) = n + Q BY <1>7, <3>1
      <3>3. ASSUME NEW k \in 1..Len(queue'[r]) PROVE queue'[r][k] = log[(n + 1) + k]
        <4>1. k \in 1..(Q - 1) /\ k + 1 \in 1..Q BY <1>6, <3>1
        <4>2. queue'[r][k] = queue[r][k + 1] BY <1>11, <1>13, <4>1
        <4>3. queue[r][k + 1] = log[n + (k + 1)] BY <1>4, <1>6, <4>1 DEF HasRead
        <4>4. n + (k + 1) = (n + 1) + k BY <1>7, <4>1
        <4> QED BY <4>2, <4>3, <4>4
      <3>4. Repl!NewIn(r)' = Count(n + 1)' - from'[r]
        <4>1. Count(n + 1)' = Count(n + 1) BY <1>14
        <4>2. \A f \in Nat : C - B = c - f => (C - B) + 1 = (c + 1) - f OBVIOUS
        <4> QED BY <1>1, <1>8, <1>20, <1>21, <1>23, <4>1, <4>2
      <3>5. link'[r] = "up" =>
              n + Q = IF Repl!Contains(targets', r) THEN Len(log') - 1 ELSE Len(log')
        BY <1>1, <1>4, <1>6 DEF HasRead
      <3> QED BY <1>1, <1>5, <1>7, <3>2, <3>3, <3>4, <3>5 DEF HasRead
    <2> SUFFICES ASSUME NEW x \in Replica, link[x] \in {"up", "down"}, x # r
                 PROVE  \E m \in 0..Len(log) : HasRead(x, m)'
      BY <1>1, <1>5, <1>7, <2>1 DEF InStream
    <2>2. PICK m \in 0..Len(log) : HasRead(x, m) BY DEF ReplInv, InStream
    <2>3. m \in Nat BY <1>5
    <2>4. HasRead(x, m)' BY <1>1, <1>11, <2>2, <2>3, SameReading
    <2> QED BY <2>4
  <1>25. Repl!ReplicaInOrder'
    <2>1. Repl!ReplicaInOrder BY DEF ReplInv
    <2> SUFFICES ASSUME NEW x \in Replica, link'[x] \in {"up", "down"}
                 PROVE  /\ Repl!IsPrefix(base'[x], copy'[x])
                        /\ \A k \in 1..Repl!NewIn(x)' : \E m \in Repl!Inserts(Len(log))' :
                             /\ copy'[x][Len(base'[x]) + k] = log'[m]
                             /\ log'[m].id = from'[x] + k
      BY DEF Repl!ReplicaInOrder
    <2>2. CASE x # r \/ e.op # "insert"
      <3>1. copy'[x] = copy[x] BY <1>11, <2>2 DEF Repl!Apply
      <3>2. Repl!NewIn(x)' = Repl!NewIn(x) BY <1>1, <3>1 DEF Repl!NewIn
      <3> QED BY <1>1, <1>14, <2>1, <3>1, <3>2 DEF Repl!ReplicaInOrder
    <2>3. CASE x = r /\ e.op = "insert"
      <3>1. copy'[r] = Append(copy[r], e) BY <1>11, <2>3 DEF Repl!Apply
      <3>2. copy'[r][C + 1] = e /\ \A k \in 1..C : copy'[r][k] = copy[r][k]
        BY <1>8, <1>17, <3>1, Appended
      <3>3. Repl!IsPrefix(base[r], copy[r]) BY <1>3, <2>1 DEF Repl!ReplicaInOrder
      <3>4. B <= C /\ SubSeq(base[r], 1, B) = SubSeq(copy[r], 1, B)
        BY <1>17, <1>18, <3>3 DEF Repl!IsPrefix
      <3>5. SubSeq(copy'[r], 1, B) = SubSeq(copy[r], 1, B)
        BY <1>8, <1>17, <3>1, <3>2, <3>4
      <3>6. Repl!IsPrefix(base'[r], copy'[r])
        BY <1>1, <1>18, <1>22, <2>3, <3>4, <3>5 DEF Repl!IsPrefix
      <3>7. ASSUME NEW k \in 1..((C - B) + 1)
            PROVE  \E m \in Repl!Inserts(Len(log)) :
                     copy'[r][B + k] = log[m] /\ log[m].id = from[r] + k
        <4>1. CASE k = (C - B) + 1
          <5>1. B + k = C + 1 /\ from[r] + k = c + 1 
            <6>1. \A f \in Nat : C - B = c - f =>
                    B + ((C - B) + 1) = C + 1 /\ f + ((C - B) + 1) = c + 1
              OBVIOUS
            <6> QED BY <1>8, <1>20, <4>1, <6>1
          <5>2. n + 1 \in Repl!Inserts(Len(log)) BY <1>5, <1>7, <1>9, <2>3 DEF Repl!Inserts
          <5>3. e.id = c + 1
            <6>1. n + 1 \in DOMAIN log BY <1>5, <1>7
            <6> QED BY <1>9, <1>21, <2>3, <6>1 DEF ReplInv, Numbered
          <5>4. copy'[r][B + k] = log[n + 1] BY <1>9, <3>2, <5>1
          <5>5. log[n + 1].id = from[r] + k BY <1>9, <5>1, <5>3
          <5> QED BY <5>2, <5>4, <5>5
        <4>2. CASE k # (C - B) + 1
          <5>1. k \in 1..Repl!NewIn(r) /\ B + k \in 1..C BY <1>20, <3>4, <4>2
          <5>2. copy'[r][B + k] = copy[r][Len(base[r]) + k] BY <1>18, <3>2, <5>1
          <5> QED BY <1>3, <2>1, <5>1, <5>2 DEF Repl!ReplicaInOrder
        <4> QED BY <4>1, <4>2
      <3>8. Repl!NewIn(r)' = (C - B) + 1 BY <1>23, <2>3
      <3>9. Len(base'[r]) = B BY <1>1, <1>18
      <3> QED BY <1>1, <1>14, <2>3, <3>6, <3>7, <3>8, <3>9
    <2> QED BY <2>2, <2>3
  <1> QED BY <1>14, <1>15, <1>16, <1>24, <1>25 DEF ReplInv

LEMMA ReplicationStep ==
  ASSUME ReplParameters, ReplInv, Repl!Next \/ UNCHANGED Repl!vars PROVE ReplInv'
  <1>1. ASSUME NEW v \in EventVal, Repl!Insert(v) PROVE ReplInv' BY <1>1, InsertSends
  <1>2. ASSUME NEW v \in EventVal, Repl!RolledBack(v) PROVE ReplInv' BY <1>2, InsertSends
  <1>3. ASSUME NEW v \in EventVal, NEW i \in Repl!Id, Repl!Update(i, v)
    PROVE ReplInv' BY <1>3, UpdateSends
  <1>4. ASSUME NEW i \in Repl!Id, Repl!Delete(i) PROVE ReplInv' BY <1>4, DeleteSends
  <1>5. CASE Repl!Drop BY <1>5, DropSends
  <1>6. CASE Repl!Send BY <1>6, SendKeeps
  <1>7. CASE Repl!StopPrimary BY <1>7, StopPrimaryKeeps
  <1>8. ASSUME NEW r \in Replica, Repl!Accept(r) PROVE ReplInv' BY <1>8, AcceptKeeps
  <1>9. ASSUME NEW r \in Replica, Repl!HandlerEnds(r) PROVE ReplInv' BY <1>9, HandlerEndsKeeps
  <1>10. ASSUME NEW r \in Replica, Repl!Connect(r) PROVE ReplInv' BY <1>10, ConnectKeeps
  <1>11. ASSUME NEW r \in Replica, Repl!Receive(r) PROVE ReplInv' BY <1>11, ReceiveKeeps
  <1>12. ASSUME NEW r \in Replica, Repl!Break(r) PROVE ReplInv' BY <1>12, BreakKeeps
  <1>13. CASE UNCHANGED Repl!vars
    <2>1. UNCHANGED <<data, log, buffer, clients, targets, silent, link, queue, copy, base, from>>
      BY <1>13 DEF Repl!vars
    <2>2. ReplTypes' BY <2>1 DEF ReplInv, ReplTypes
    <2>3. Linked' BY <2>1 DEF ReplInv, Linked
    <2>4. Numbered' /\ Repl!BufferIsRecent' /\ Repl!StreamIsHistory' BY <2>1, LogKept
    <2>5. Repl!ReplicaInOrder' BY <2>1, CopyKept
    <2>6. InStream'
      <3> SUFFICES ASSUME NEW x \in Replica, link[x] \in {"up", "down"}
                   PROVE  \E n \in 0..Len(log) : HasRead(x, n)'
        BY <2>1 DEF InStream
      <3>1. PICK n \in 0..Len(log) : HasRead(x, n) BY DEF ReplInv, InStream
      <3>2. n \in Nat BY DEF ReplInv, ReplTypes
      <3>3. HasRead(x, n)' BY <2>1, <3>1, <3>2, SameReading
      <3> QED BY <3>3
    <2> QED BY <2>2, <2>3, <2>4, <2>5, <2>6 DEF ReplInv
  <1> QED BY <1>1, <1>2, <1>3, <1>4, <1>5, <1>6, <1>7, <1>8, <1>9, <1>10, <1>11, <1>12,
             <1>13 DEF Repl!Next

\* A replica with nothing under way has read to the end of the stream.
LEMMA ReplicationMeans ==
  ASSUME ReplInv
 
   PROVE  Repl!StreamIsHistory /\ Repl!BufferIsRecent /\ Repl!ReplicaInOrder /\ Repl!ReplicaFollows
  <1>1. ASSUME NEW r \in Replica, link[r] = "up", ~Repl!Contains(targets, r), queue[r] = <<>>
        PROVE  Repl!NewIn(r) = Repl!NextId - 1 - from[r]
    <2>1. PICK n \in 0..Len(log) : HasRead(r, n) BY <1>1 DEF ReplInv, InStream
    <2>2. Len(log) \in Nat /\ from[r] \in Nat BY DEF ReplInv, ReplTypes
    <2>3. Len(queue[r]) = 0 BY <1>1
    <2>4. n + 0 = Len(log) BY <1>1, <2>1, <2>3 DEF HasRead
    <2>5. n = Len(log) /\ Count(Len(log)) \in Nat BY <2>2, <2>4, CountNat
    <2>6. Repl!NewIn(r) = Count(Len(log)) - from[r] BY <2>1, <2>5 DEF HasRead
    <2>7. Repl!NextId - 1 = Count(Len(log)) BY <2>5, NextIdIs
    <2> QED BY <2>6, <2>7
  <1> QED BY <1>1 DEF ReplInv, Repl!ReplicaFollows

-----------------------------------------------------------------------------
(***************************************************************************)
(* The shards.  As long as nobody crosses a rebalance, what the callers have *)
(* made is first in the shards (Whole), then read into the bucket while the  *)
(* shards are dropped, then partly in the one and partly in the other        *)
(* (Moving).  Ids from nextId on are free (Fresh), so a record placed there  *)
(* meets no other.                                                           *)
(***************************************************************************)

ShardTypes ==
  /\ shards \in [Sh!Shard -> [Sh!Id -> Sh!Rec \cup {NoRec}]]
  /\ nextId \in 1..(MaxId + 1)
  /\ client = Sh!NoCall \/ client \in [id : Sh!Id, new : Sh!Fields \cup {NoRec}, shard : Sh!Shard]
  /\ step \in 0..(2 * Shards + 1)
  /\ bucket \subseteq [shard : Sh!Shard, id : Sh!Id, rec : Sh!Rec]
  /\ rekeyed \subseteq Sh!Id /\ made \subseteq Sh!Rec /\ broken \in BOOLEAN

\* The ids from nextId on are free, and so are the numbers.
Fresh ==
  /\ \A s \in Sh!Shard, i \in Sh!Id : Sh!Holds(s, i) => i < nextId /\ shards[s][i].no < nextId
  /\ \A r \in made : r.no < nextId
  /\ \A x \in bucket : x.rec.no < nextId

OneShard == \A s, t \in Sh!Shard, i \in Sh!Id : Sh!Holds(s, i) /\ Sh!Holds(t, i) => s = t

\* A record that was not rekeyed is in the shard of its key.
Routed ==
  \A s \in Sh!Shard, i \in Sh!Id : Sh!Holds(s, i) /\ i \notin rekeyed => Sh!RouteRecord(shards[s][i]) = s

\* What the shards and the bucket have, and that they have it once.
Stored1(r) == \E s \in Sh!Shard, i \in Sh!Id : Sh!Holds(s, i) /\ shards[s][i] = r
Read1(r) == \E x \in bucket : x.rec = r
ShardsOnce ==
  \A s, t \in Sh!Shard, i, j \in Sh!Id :
    Sh!Holds(s, i) /\ Sh!Holds(t, j) /\ shards[s][i].no = shards[t][j].no => s = t /\ i = j
BucketOnce == \A x, y \in bucket : x.rec.no = y.rec.no => x = y
Apart == \A s \in Sh!Shard, i \in Sh!Id, x \in bucket : Sh!Holds(s, i) => shards[s][i].no # x.rec.no

\* Where the records are in the phases of a rebalance that nobody crosses.
Whole == (\A r : r \in made <=> Stored1(r)) /\ ShardsOnce
WholeRead(n) ==
  \A x : x \in bucket <=> \E s \in Sh!Shard, i \in Sh!Id : s < n /\ Sh!Holds(s, i) /\ x = Sh!At(s, i)
Moving ==
  ~broken =>
    /\ Sh!Idle => Whole
    /\ Sh!Reading => Whole /\ WholeRead(step - 1)
    /\ Sh!Dropping => /\ \A r : r \in made <=> Read1(r)
                   /\ BucketOnce
                   /\ \A s \in Sh!Shard, i \in Sh!Id : s < step - Shards - 1 => ~Sh!Holds(s, i)
    /\ Sh!Writing => /\ \A r : r \in made <=> Stored1(r) \/ Read1(r)
                  /\ ShardsOnce /\ BucketOnce /\ Apart

Emptied == Sh!Idle => bucket = {}

ShardInv == ShardTypes /\ Fresh /\ OneShard /\ Routed /\ Emptied /\ Moving

-----------------------------------------------------------------------------
LEMMA ShardingInit == ASSUME ShardParameters, Sh!Init PROVE ShardInv
  <1> USE DEF ShardParameters, Sh!Init
  <1>a. shards \in [Sh!Shard -> [Sh!Id -> Sh!Rec \cup {NoRec}]] OBVIOUS
  <1>b. nextId \in 1..(MaxId + 1) /\ step \in 0..(2 * Shards + 1) OBVIOUS
  <1>1. ShardTypes BY <1>a, <1>b DEF ShardTypes
  <1>2. \A s \in Sh!Shard, i \in Sh!Id : ~Sh!Holds(s, i) BY DEF Sh!Holds
  <1>3. Fresh /\ OneShard /\ Routed BY <1>2 DEF Fresh, OneShard, Routed
  <1>4. Whole BY <1>2 DEF Whole, Stored1, ShardsOnce
  <1>5. Emptied /\ Moving
    BY <1>4 DEF Emptied, Moving, Sh!Idle, Sh!Reading, Sh!Dropping, Sh!Writing
  <1> QED BY <1>1, <1>3, <1>5 DEF ShardInv

\* What placing a record under the next id does.
LEMMA Placed ==
  ASSUME ShardParameters, ShardInv, NEW r \in Sh!Rec, Sh!Place(r), nextId <= MaxId, r.no <= nextId,
         nextId' = nextId + 1
  PROVE  /\ shards' \in [Sh!Shard -> [Sh!Id -> Sh!Rec \cup {NoRec}]]
         /\ Sh!RouteRecord(r) \in Sh!Shard /\ nextId \in Sh!Id /\ nextId' \in 1..(MaxId + 1)
         /\ \A s \in Sh!Shard, i \in Sh!Id :
              shards'[s][i] = IF s = Sh!RouteRecord(r) /\ i = nextId THEN r ELSE shards[s][i]
         /\ \A s \in Sh!Shard : ~Sh!Holds(s, nextId)
         /\ r # NoRec
  <1> USE DEF ShardParameters, ShardInv, ShardTypes, Sh!Place
  <1>1. Sh!RouteRecord(r) \in Sh!Shard BY DEF Sh!RouteRecord, Sh!Route, Sh!Shard, Sh!Rec
  <1>2. nextId \in Sh!Id /\ nextId' \in 1..(MaxId + 1) BY DEF Sh!Id
  <1>3. \A s \in Sh!Shard : ~Sh!Holds(s, nextId) BY <1>2 DEF Fresh, Sh!Id
  <1> QED BY <1>1, <1>2, <1>3

LEMMA InsertKeeps ==
  ASSUME ShardParameters, ShardInv, NEW f \in Sh!Fields, Sh!Insert(f)
  PROVE  ShardInv'
  <1> DEFINE r == Sh!Stored(nextId, f)
             d == Sh!RouteRecord(r)
  <1>1. r \in Sh!Rec /\ r.no = nextId
    BY DEF Sh!Insert, Sh!Stored, Sh!Rec, Sh!Fields, Sh!Id, ShardInv, ShardTypes, ShardParameters
  <1>2. /\ nextId <= MaxId /\ Sh!Place(r) /\ nextId' = nextId + 1 /\ made' = made \cup {r}
        /\ broken' = (broken \/ step # 0)
        /\ UNCHANGED <<client, step, bucket, rekeyed>>
    BY DEF Sh!Insert, Sh!Crosses
  <1>3. nextId \in Nat BY DEF ShardInv, ShardTypes, ShardParameters
  <1> HIDE DEF r
  <1>4. /\ shards' \in [Sh!Shard -> [Sh!Id -> Sh!Rec \cup {NoRec}]]
        /\ d \in Sh!Shard /\ nextId \in Sh!Id /\ nextId' \in 1..(MaxId + 1)
        /\ \A s \in Sh!Shard, i \in Sh!Id :
             shards'[s][i] = IF s = d /\ i = nextId THEN r ELSE shards[s][i]
        /\ \A s \in Sh!Shard : ~Sh!Holds(s, nextId)
        /\ r # NoRec
    BY <1>1, <1>2, <1>3, Placed
  <1>5. ShardTypes' BY <1>1, <1>2, <1>4 DEF ShardInv, ShardTypes
  <1>6. Fresh'
    <2>1. \A s \in Sh!Shard, i \in Sh!Id : Sh!Holds(s, i)' => i < nextId' /\ shards'[s][i].no < nextId'
      <3> SUFFICES ASSUME NEW s \in Sh!Shard, NEW i \in Sh!Id, Sh!Holds(s, i)'
                   PROVE  i < nextId' /\ shards'[s][i].no < nextId'
        OBVIOUS
      <3>1. CASE s = d /\ i = nextId BY <1>1, <1>2, <1>3, <1>4, <3>1
      <3>2. CASE ~(s = d /\ i = nextId)
        <4>1. shards'[s][i] = shards[s][i] /\ Sh!Holds(s, i) BY <1>4, <3>2 DEF Sh!Holds
        <4>2. shards[s][i] \in Sh!Rec BY <4>1 DEF Sh!Holds, ShardInv, ShardTypes
        <4>3. shards[s][i].no \in Nat /\ i \in Nat BY <4>2 DEF Sh!Rec, Sh!Id
        <4>4. i < nextId /\ shards[s][i].no < nextId BY <4>1 DEF ShardInv, Fresh
        <4> QED BY <1>2, <1>3, <4>1, <4>3, <4>4
      <3> QED BY <3>1, <3>2
    <2>2. \A q \in Sh!Rec : q.no \in Nat BY DEF Sh!Rec, Sh!Id
    <2>3. \A q \in made' : q.no < nextId'
      BY <1>1, <1>2, <1>3, <2>2 DEF ShardInv, Fresh, ShardTypes
    <2>4. \A x \in bucket' : x.rec.no < nextId'
      BY <1>2, <1>3, <2>2 DEF ShardInv, Fresh, ShardTypes
    <2> QED BY <2>1, <2>3, <2>4 DEF Fresh, Sh!Holds
  <1>7. OneShard' BY <1>4 DEF ShardInv, OneShard, Sh!Holds
  <1>8. Routed' BY <1>2, <1>4 DEF ShardInv, Routed, Sh!Holds, Sh!RouteRecord
  <1>9. Emptied' BY <1>2 DEF ShardInv, Emptied, Sh!Idle
  <1>10. Moving'
    <2> SUFFICES ASSUME ~broken' PROVE Whole' /\ Sh!Idle'
      BY DEF Moving, Sh!Idle, Sh!Reading, Sh!Dropping, Sh!Writing, ShardParameters
    <2>1. Sh!Idle /\ ~broken /\ Sh!Idle' BY <1>2 DEF Sh!Idle, ShardInv, ShardTypes
    <2>2. Whole BY <2>1 DEF ShardInv, Moving
    <2>3. \A q : q \in made' <=> Stored1(q)' BY <1>2, <1>4, <2>2 DEF Whole, Stored1, Sh!Holds
    <2>4. ShardsOnce' BY <1>1, <1>3, <1>4, <2>2 DEF Whole, ShardsOnce, Sh!Holds, ShardInv, Fresh
    <2> QED BY <2>1, <2>3, <2>4 DEF Whole
  <1> QED BY <1>5, <1>6, <1>7, <1>8, <1>9, <1>10 DEF ShardInv

LEMMA FirstHolds ==
  ASSUME OneShard, NEW i \in Sh!Id, \E s \in Sh!Shard : Sh!Holds(s, i)
  PROVE  Sh!First(i) \in Sh!Shard /\ Sh!Holds(Sh!First(i), i)
  <1>1. PICK s \in Sh!Shard : Sh!Holds(s, i) OBVIOUS
  <1>2. {t \in Sh!Shard : Sh!Holds(t, i)} = {s} BY <1>1 DEF OneShard
  <1>3. Sh!Min({s}) = s BY <1>1 DEF Sh!Min, Sh!Shard
  <1> QED BY <1>1, <1>2, <1>3 DEF Sh!First

LEMMA LocateKeeps ==
  ASSUME ShardParameters, ShardInv, NEW i \in Sh!Id, NEW new \in Sh!Fields \cup {NoRec}, Sh!Locate(i, new)
  PROVE  ShardInv'
  <1>1. Sh!First(i) \in Sh!Shard BY FirstHolds DEF Sh!Locate, ShardInv
  <1>2. ShardTypes' BY <1>1 DEF Sh!Locate, ShardInv, ShardTypes
  <1>3. Fresh' /\ OneShard' /\ Routed' /\ Emptied'
   
     BY DEF Sh!Locate, ShardInv, Fresh, OneShard, Routed, Emptied, Sh!Holds, Sh!RouteRecord,
            Sh!Idle
  <1>4. Moving'
   
     BY DEF Sh!Locate, ShardInv, Moving, Whole, WholeRead, Stored1, Read1, ShardsOnce,
            BucketOnce,
           Apart, Sh!Holds, Sh!At, Sh!Idle, Sh!Reading, Sh!Dropping, Sh!Writing
  <1> QED BY <1>2, <1>3, <1>4 DEF ShardInv

LEMMA UseKeeps == ASSUME ShardParameters, ShardInv, Sh!Use PROVE ShardInv'
  <1> DEFINE s == client.shard
             i == client.id
             old == shards[s][i]
             new == Sh!Used(old)
  <1>1. s \in Sh!Shard /\ i \in Sh!Id /\ client.new \in Sh!Fields \cup {NoRec} /\ client' = Sh!NoCall
        /\ UNCHANGED <<nextId, step, bucket>>
    BY DEF Sh!Use, ShardInv, ShardTypes
  <1>2. CASE old = NoRec
    <2>1. UNCHANGED <<shards, rekeyed, made, broken, nextId, step, bucket>> BY <1>2 DEF Sh!Use
    <2>2. ShardTypes' BY <1>1, <2>1 DEF ShardInv, ShardTypes
    <2>3. Fresh' /\ OneShard' /\ Routed' /\ Emptied'
      BY <2>1 DEF ShardInv, Fresh, OneShard, Routed, Emptied, Sh!Holds, Sh!RouteRecord, Sh!Idle
    <2>4. Moving'
      BY <2>1 DEF ShardInv, Moving, Whole, WholeRead, Stored1, Read1, ShardsOnce, BucketOnce,
             Apart, Sh!Holds, Sh!At, Sh!Idle, Sh!Reading, Sh!Dropping, Sh!Writing
    <2> QED BY <2>2, <2>3, <2>4 DEF ShardInv
  <1>3. CASE old # NoRec
    <2>1. /\ shards' = [shards EXCEPT ![s][i] = new]
          /\ rekeyed' = IF new # NoRec /\ Sh!RouteRecord(new) # s THEN rekeyed \cup {i} ELSE rekeyed \ {i}
          /\ made' = (made \ {old}) \cup ({new} \ {NoRec})
          /\ broken' = (broken \/ step # 0)
      BY <1>3 DEF Sh!Use, Sh!Crosses
    <2>2. old \in Sh!Rec BY <1>1, <1>3 DEF ShardInv, ShardTypes
    <2>3. new \in Sh!Rec \cup {NoRec} /\ (new # NoRec => new.no = old.no)
      BY <1>1, <2>2 DEF Sh!Used, Sh!Stored, Sh!Rec, Sh!Fields
    <2>4. \A t \in Sh!Shard, j \in Sh!Id :
            shards'[t][j] = IF t = s /\ j = i THEN new ELSE shards[t][j]
      BY <1>1, <2>1 DEF ShardInv, ShardTypes
    <2>5. Sh!Holds(s, i) BY <1>3 DEF Sh!Holds
    <2>6. shards' \in [Sh!Shard -> [Sh!Id -> Sh!Rec \cup {NoRec}]]
      BY <1>1, <2>1, <2>3 DEF ShardInv, ShardTypes
    <2> HIDE DEF new, old, s, i
    <2>o. old = shards[s][i] BY DEF old
    <2>7. ShardTypes' BY <1>1, <2>1, <2>3, <2>6 DEF ShardInv, ShardTypes
    <2>8. Fresh' BY <1>1, <1>3, <2>1, <2>3, <2>4, <2>5, <2>o DEF ShardInv, Fresh, Sh!Holds
    <2>9. OneShard' BY <1>1, <2>4, <2>5 DEF ShardInv, OneShard, Sh!Holds
    <2>10. Routed'
      BY <1>1, <2>1, <2>4, <2>5, <2>9 DEF ShardInv, Routed, OneShard, Sh!Holds, Sh!RouteRecord
    <2>11. Emptied' BY <1>1 DEF ShardInv, Emptied, Sh!Idle
    <2>12. Moving'
      <3> SUFFICES ASSUME ~broken' PROVE Whole' /\ Sh!Idle'
        BY DEF Moving, Sh!Idle, Sh!Reading, Sh!Dropping, Sh!Writing, ShardParameters
      <3>1. Sh!Idle /\ ~broken /\ Sh!Idle' BY <1>1, <2>1 DEF Sh!Idle, ShardInv, ShardTypes
      <3>2. Whole BY <3>1 DEF ShardInv, Moving
      <3>3. \A t \in Sh!Shard, j \in Sh!Id : shards[t][j] = old => t = s /\ j = i
        BY <1>1, <1>3, <2>5, <3>2, <2>o DEF Whole, ShardsOnce, Sh!Holds
      <3>4. ASSUME NEW q PROVE q \in made' <=> Stored1(q)'
        <4>1. q \in made <=> Stored1(q) BY <3>2 DEF Whole
        <4>2. CASE q = old
          <5>1. q \in made' <=> q = new BY <1>3, <2>1, <4>2
          <5>2. Stored1(q)' => q = new BY <2>4, <3>3, <4>2 DEF Stored1, Sh!Holds
          <5>3. q = new => Stored1(q)' BY <1>1, <1>3, <2>4, <4>2 DEF Stored1, Sh!Holds
          <5> QED BY <5>1, <5>2, <5>3
        <4>3. CASE q # old
          <5>1. q \in made' <=> q \in made \/ (q = new /\ new # NoRec) BY <2>1, <4>3
          <5>2. Stored1(q)' <=> Stored1(q) \/ (q = new /\ new # NoRec)
            BY <1>1, <2>4, <4>3, <2>o DEF Stored1, Sh!Holds
          <5> QED BY <4>1, <5>1, <5>2
        <4> QED BY <4>2, <4>3
      <3>5. ShardsOnce'
        BY <1>1, <2>3, <2>4, <2>5, <3>2, <2>o DEF Whole, ShardsOnce, Sh!Holds
      <3> QED BY <3>1, <3>4, <3>5 DEF Whole
    <2> QED BY <2>7, <2>8, <2>9, <2>10, <2>11, <2>12 DEF ShardInv
  <1> QED BY <1>2, <1>3

LEMMA StartKeeps == ASSUME ShardParameters, ShardInv, Sh!RebalanceStarts PROVE ShardInv'
  <1>1. /\ step = 0 /\ step' = 1
        /\ UNCHANGED <<shards, nextId, client, bucket, rekeyed, made, broken>>
    BY DEF Sh!RebalanceStarts, Sh!Idle
  <1>2. ShardTypes' BY <1>1 DEF ShardInv, ShardTypes, ShardParameters
  <1>3. Fresh' /\ OneShard' /\ Routed' /\ Emptied'
    BY <1>1 DEF ShardInv, Fresh, OneShard, Routed, Emptied, Sh!Holds, Sh!RouteRecord, Sh!Idle
  <1>4. Moving'
    <2> SUFFICES ASSUME ~broken' PROVE Whole' /\ WholeRead(0)'
     
       BY <1>1 DEF Moving, Sh!Idle, Sh!Reading, Sh!Dropping, Sh!Writing, ShardParameters,
              WholeRead
    <2>1. Whole /\ bucket = {} BY <1>1 DEF ShardInv, Moving, Emptied, Sh!Idle
    <2>2. WholeRead(0)' BY <1>1, <2>1 DEF WholeRead, Sh!Shard, ShardParameters
    <2> QED BY <1>1, <2>1, <2>2 DEF Whole, Stored1, ShardsOnce, Sh!Holds
  <1> QED BY <1>2, <1>3, <1>4 DEF ShardInv

LEMMA ReadKeeps == ASSUME ShardParameters, ShardInv, Sh!ReadShard PROVE ShardInv'
  <1> DEFINE s == step - 1
  <1>1. /\ step \in 1..Shards /\ step' = step + 1 /\ bucket' = bucket \cup Sh!RecordsOf(s)
        /\ UNCHANGED <<shards, nextId, client, rekeyed, made, broken>>
    BY DEF Sh!ReadShard, Sh!Reading
  <1>2. s \in Sh!Shard /\ step \in Nat /\ Shards \in Nat BY <1>1 DEF Sh!Shard, ShardParameters
  <1>3. \A x : x \in Sh!RecordsOf(s) <=> \E i \in Sh!Id : Sh!Holds(s, i) /\ x = Sh!At(s, i)
    BY DEF Sh!RecordsOf
  <1>4. Sh!RecordsOf(s) \subseteq [shard : Sh!Shard, id : Sh!Id, rec : Sh!Rec]
    BY <1>2, <1>3 DEF Sh!At, Sh!Holds, ShardInv, ShardTypes
  <1>5. ShardTypes' BY <1>1, <1>2, <1>4 DEF ShardInv, ShardTypes
  <1>6. \A x \in Sh!RecordsOf(s) : x.rec.no < nextId
    BY <1>2, <1>3 DEF Sh!At, ShardInv, Fresh
  <1>7. Fresh' /\ OneShard' /\ Routed'
    BY <1>1, <1>6 DEF ShardInv, Fresh, OneShard, Routed, Sh!Holds, Sh!RouteRecord
  <1>8. Emptied' BY <1>1, <1>2 DEF Emptied, Sh!Idle
  <1>9. Moving'
    <2> SUFFICES ASSUME ~broken' PROVE Moving'
      BY DEF Moving
    <2>1. Whole /\ WholeRead(s) BY <1>1 DEF ShardInv, Moving, Sh!Reading
    <2>2. Whole' BY <1>1, <2>1 DEF Whole, Stored1, ShardsOnce, Sh!Holds
    <2>4. ASSUME NEW x
         
           PROVE  x \in bucket' <=> \E t \in Sh!Shard, i \in Sh!Id : t < step /\ Sh!Holds(t, i) /\ x = Sh!At(t, i)
      <3>1. \A t \in Sh!Shard : t < step <=> (t < s \/ t = s) BY <1>2 DEF Sh!Shard
      <3> QED BY <1>1, <1>2, <1>3, <2>1, <3>1 DEF WholeRead
    <2>5. CASE step < Shards
      <3>1. step' - 1 = step BY <1>1, <1>2
      <3>2. WholeRead(step - 1)' BY <1>1, <2>4, <3>1 DEF WholeRead, Sh!Holds, Sh!At
      <3>3. ~Sh!Idle' /\ ~Sh!Dropping' /\ ~Sh!Writing'
        BY <1>1, <1>2, <2>5 DEF Sh!Idle, Sh!Dropping, Sh!Writing
      <3> QED BY <2>2, <3>2, <3>3 DEF Moving
    <2>6. CASE step = Shards
      <3>1. \A t \in Sh!Shard : t < step BY <1>2, <2>6 DEF Sh!Shard
      <3>2. ASSUME NEW q PROVE q \in made' <=> Read1(q)'
        <4>1. Read1(q)' <=> \E t \in Sh!Shard, i \in Sh!Id : Sh!Holds(t, i) /\ q = shards[t][i]
          <5>1. \A t \in Sh!Shard, i \in Sh!Id : Sh!At(t, i).rec = shards[t][i] BY DEF Sh!At
          <5>2. \A x : x \in bucket' <=> \E t \in Sh!Shard, i \in Sh!Id : Sh!Holds(t, i) /\ x = Sh!At(t, i)
            BY <2>4, <3>1
          <5>3. Read1(q)' <=> \E x \in bucket' : x.rec = q BY DEF Read1
          <5> HIDE DEF Sh!At
          <5> QED BY <5>1, <5>2, <5>3
        <4>2. q \in made <=> Stored1(q) BY <2>1 DEF Whole
        <4> QED BY <1>1, <4>1, <4>2 DEF Stored1
      <3>3. BucketOnce'
        <4> SUFFICES ASSUME NEW x \in bucket', NEW y \in bucket', x.rec.no = y.rec.no
                     PROVE  x = y
          BY DEF BucketOnce
        <4>1. PICK t1 \in Sh!Shard, i1 \in Sh!Id : Sh!Holds(t1, i1) /\ x = Sh!At(t1, i1) BY <2>4
        <4>2. PICK t2 \in Sh!Shard, i2 \in Sh!Id : Sh!Holds(t2, i2) /\ y = Sh!At(t2, i2) BY <2>4
        <4>3. x.rec = shards[t1][i1] /\ y.rec = shards[t2][i2] BY <4>1, <4>2 DEF Sh!At
        <4>4. t1 = t2 /\ i1 = i2 BY <2>1, <4>1, <4>2, <4>3 DEF Whole, ShardsOnce
        <4> QED BY <4>1, <4>2, <4>4
      <3>4. \A t \in Sh!Shard, i \in Sh!Id : t < step' - Shards - 1 => ~Sh!Holds(t, i)'
        BY <1>1, <1>2, <2>6 DEF Sh!Shard
      <3>5. ~Sh!Idle' /\ ~Sh!Reading' /\ ~Sh!Writing'
        BY <1>1, <1>2, <2>6 DEF Sh!Idle, Sh!Reading, Sh!Writing
      <3> QED BY <3>2, <3>3, <3>4, <3>5 DEF Moving
    <2> QED BY <1>1, <1>2, <2>5, <2>6
  <1> QED BY <1>5, <1>7, <1>8, <1>9 DEF ShardInv

LEMMA DropKeeps == ASSUME ShardParameters, ShardInv, Sh!DropShard PROVE ShardInv'
  <1> DEFINE s == step - Shards - 1
  <1>1. /\ step \in (Shards + 1)..(2 * Shards) /\ step' = step + 1
        /\ shards' = [shards EXCEPT ![s] = [i \in Sh!Id |-> NoRec]]
        /\ rekeyed' = {i \in rekeyed : ~Sh!Holds(s, i)}
        /\ UNCHANGED <<nextId, client, bucket, made, broken>>
    BY DEF Sh!DropShard, Sh!Dropping
  <1>2. s \in Sh!Shard /\ step \in Nat /\ Shards \in Nat /\ s = step - Shards - 1
    BY <1>1 DEF Sh!Shard, ShardParameters
  <1>3. \A t \in Sh!Shard, i \in Sh!Id : shards'[t][i] = IF t = s THEN NoRec ELSE shards[t][i]
    BY <1>1, <1>2 DEF ShardInv, ShardTypes
  <1>4. shards' \in [Sh!Shard -> [Sh!Id -> Sh!Rec \cup {NoRec}]]
    BY <1>1, <1>2 DEF ShardInv, ShardTypes
  <1> HIDE DEF s
  <1>5. ShardTypes' BY <1>1, <1>2, <1>4 DEF ShardInv, ShardTypes
  <1>6. \A t \in Sh!Shard, i \in Sh!Id : Sh!Holds(t, i)' <=> t # s /\ Sh!Holds(t, i)
    BY <1>3 DEF Sh!Holds
  <1>7. Fresh' BY <1>1, <1>3, <1>6 DEF ShardInv, Fresh
  <1>8. OneShard' BY <1>6 DEF ShardInv, OneShard
  <1>9. Routed'
    <2> SUFFICES ASSUME NEW t \in Sh!Shard, NEW i \in Sh!Id, Sh!Holds(t, i)', i \notin rekeyed'
                 PROVE  Sh!RouteRecord(shards'[t][i]) = t
      BY DEF Routed, Sh!RouteRecord
    <2>1. t # s /\ Sh!Holds(t, i) BY <1>6
    <2>2. ~Sh!Holds(s, i) BY <1>2, <2>1 DEF ShardInv, OneShard
    <2>3. i \notin rekeyed BY <1>1, <2>2
    <2> QED BY <1>3, <2>1, <2>3 DEF ShardInv, Routed
  <1>10. Emptied' BY <1>1, <1>2 DEF Emptied, Sh!Idle
  <1>11. Moving'
    <2> SUFFICES ASSUME ~broken' PROVE Moving'
      BY DEF Moving
    <2>1. /\ \A r : r \in made <=> Read1(r)
          /\ BucketOnce
          /\ \A t \in Sh!Shard, i \in Sh!Id : t < s => ~Sh!Holds(t, i)
      BY <1>1, <1>2 DEF ShardInv, Moving, Sh!Dropping
    <2>2. \A r : r \in made' <=> Read1(r)' BY <1>1, <2>1 DEF Read1
    <2>3. BucketOnce' BY <1>1, <2>1 DEF BucketOnce
    <2>4. \A t \in Sh!Shard, i \in Sh!Id : t < s + 1 => ~Sh!Holds(t, i)'
      BY <1>2, <1>6, <2>1 DEF Sh!Shard
    <2>5. CASE step < 2 * Shards
      <3>1. step' - Shards - 1 = s + 1 BY <1>1, <1>2
      <3>2. ~Sh!Idle' /\ ~Sh!Reading' /\ ~Sh!Writing'
        BY <1>1, <1>2, <2>5 DEF Sh!Idle, Sh!Reading, Sh!Writing
      <3>3. \A t \in Sh!Shard, i \in Sh!Id : t < step' - Shards - 1 => ~Sh!Holds(t, i)'
        BY <2>4, <3>1
      <3> QED BY <2>2, <2>3, <3>2, <3>3 DEF Moving
    <2>6. CASE step = 2 * Shards
      <3>1. \A t \in Sh!Shard, i \in Sh!Id : ~Sh!Holds(t, i)' BY <1>2, <2>4, <2>6 DEF Sh!Shard
      <3>2. ~Sh!Idle' /\ ~Sh!Reading' /\ ~Sh!Dropping'
        BY <1>1, <1>2, <2>6 DEF Sh!Idle, Sh!Reading, Sh!Dropping
      <3>3. \A r : r \in made' <=> Stored1(r)' \/ Read1(r)' BY <2>2, <3>1 DEF Stored1
      <3>4. ShardsOnce' /\ Apart' BY <3>1 DEF ShardsOnce, Apart
      <3> QED BY <2>3, <3>2, <3>3, <3>4 DEF Moving
    <2> QED BY <1>1, <1>2, <2>5, <2>6
  <1> QED BY <1>5, <1>7, <1>8, <1>9, <1>10, <1>11 DEF ShardInv

LEMMA WriteBackKeeps == ASSUME ShardParameters, ShardInv, Sh!WriteBack PROVE ShardInv'
  <1>1. PICK x \in bucket : Sh!Place(x.rec) /\ bucket' = bucket \ {x}
    BY DEF Sh!WriteBack
  <1> DEFINE r == x.rec
             d == Sh!RouteRecord(r)
  <1>2. /\ Sh!Writing /\ nextId <= MaxId /\ nextId' = nextId + 1
        /\ UNCHANGED <<client, step, rekeyed, made, broken>>
    BY DEF Sh!WriteBack
  <1>3. r \in Sh!Rec /\ r.no < nextId BY <1>1 DEF ShardInv, ShardTypes, Fresh
  <1>4. nextId \in Nat /\ r.no \in Nat
    BY <1>3 DEF ShardInv, ShardTypes, ShardParameters, Sh!Rec, Sh!Id
  <1>0. Sh!Place(r) BY <1>1
  <1>x. x \in bucket /\ x.rec = r OBVIOUS
  <1> HIDE DEF r
  <1>5. /\ shards' \in [Sh!Shard -> [Sh!Id -> Sh!Rec \cup {NoRec}]]
        /\ d \in Sh!Shard /\ nextId \in Sh!Id /\ nextId' \in 1..(MaxId + 1)
        /\ \A s \in Sh!Shard, i \in Sh!Id :
             shards'[s][i] = IF s = d /\ i = nextId THEN r ELSE shards[s][i]
        /\ \A s \in Sh!Shard : ~Sh!Holds(s, nextId)
        /\ r # NoRec
    BY <1>0, <1>2, <1>3, <1>4, Placed
  <1>6. ShardTypes' BY <1>1, <1>2, <1>5 DEF ShardInv, ShardTypes
  <1>7. Fresh'
    <2>1. \A s \in Sh!Shard, i \in Sh!Id : Sh!Holds(s, i)' => i < nextId' /\ shards'[s][i].no < nextId'
      <3> SUFFICES ASSUME NEW s \in Sh!Shard, NEW i \in Sh!Id, Sh!Holds(s, i)'
                   PROVE  i < nextId' /\ shards'[s][i].no < nextId'
        OBVIOUS
      <3>1. CASE s = d /\ i = nextId BY <1>2, <1>3, <1>4, <1>5, <3>1
      <3>2. CASE ~(s = d /\ i = nextId)
        <4>1. shards'[s][i] = shards[s][i] /\ Sh!Holds(s, i) BY <1>5, <3>2 DEF Sh!Holds
        <4>2. shards[s][i] \in Sh!Rec BY <4>1 DEF Sh!Holds, ShardInv, ShardTypes
        <4>3. shards[s][i].no \in Nat /\ i \in Nat BY <4>2 DEF Sh!Rec, Sh!Id
        <4>4. i < nextId /\ shards[s][i].no < nextId BY <4>1 DEF ShardInv, Fresh
        <4> QED BY <1>2, <1>4, <4>1, <4>3, <4>4
      <3> QED BY <3>1, <3>2
    <2>2. \A q \in Sh!Rec : q.no \in Nat BY DEF Sh!Rec, Sh!Id
    <2>3. \A q \in made' : q.no < nextId'
      BY <1>2, <1>4, <2>2 DEF ShardInv, Fresh, ShardTypes
    <2>4. \A y \in bucket' : y.rec.no < nextId'
      BY <1>1, <1>2, <1>4, <2>2 DEF ShardInv, Fresh, ShardTypes
    <2> QED BY <2>1, <2>3, <2>4 DEF Fresh, Sh!Holds
  <1>8. OneShard' BY <1>5 DEF ShardInv, OneShard, Sh!Holds
  <1>9. Routed' BY <1>2, <1>5 DEF ShardInv, Routed, Sh!Holds, Sh!RouteRecord
  <1>10. Emptied' BY <1>2 DEF Emptied, Sh!Idle, Sh!Writing, ShardParameters
  <1>11. Moving'
    <2> SUFFICES ASSUME ~broken' PROVE Moving'
      BY DEF Moving
    <2>1. /\ \A q : q \in made <=> Stored1(q) \/ Read1(q)
          /\ ShardsOnce /\ BucketOnce /\ Apart
      BY <1>2 DEF ShardInv, Moving
    <2>2. ASSUME NEW q PROVE q \in made' <=> Stored1(q)' \/ Read1(q)'
      <3>1. Stored1(q)' <=> Stored1(q) \/ q = r BY <1>5 DEF Stored1, Sh!Holds
      <3>2. Read1(q) <=> Read1(q)' \/ q = r BY <1>1, <1>x DEF Read1
      <3> QED BY <1>2, <2>1, <3>1, <3>2
    <2>3. BucketOnce' BY <1>1, <2>1 DEF BucketOnce
    <2>4. \A s \in Sh!Shard, i \in Sh!Id : Sh!Holds(s, i) => shards[s][i].no # r.no
      BY <1>x, <2>1 DEF Apart
    <2>5. ShardsOnce' BY <1>5, <2>1, <2>4 DEF ShardsOnce, Sh!Holds
    <2>6. \A y \in bucket' : y \in bucket /\ y.rec.no # r.no
      BY <1>1, <1>x, <2>1 DEF BucketOnce
    <2>7. Apart' BY <1>5, <2>1, <2>6 DEF Apart, Sh!Holds
    <2>8. ~Sh!Idle' /\ ~Sh!Reading' /\ ~Sh!Dropping'
      BY <1>2 DEF Sh!Idle, Sh!Reading, Sh!Dropping, Sh!Writing, ShardParameters
    <2> QED BY <2>2, <2>3, <2>5, <2>7, <2>8 DEF Moving
  <1> QED BY <1>6, <1>7, <1>8, <1>9, <1>10, <1>11 DEF ShardInv

LEMMA EndKeeps == ASSUME ShardParameters, ShardInv, Sh!RebalanceEnds PROVE ShardInv'
  <1>1. /\ Sh!Writing /\ bucket = {} /\ step' = 0
        /\ UNCHANGED <<shards, nextId, client, bucket, rekeyed, made, broken>>
    BY DEF Sh!RebalanceEnds
  <1>2. ShardTypes' BY <1>1 DEF ShardInv, ShardTypes, ShardParameters
  <1>3. Fresh' /\ OneShard' /\ Routed' /\ Emptied'
    BY <1>1 DEF ShardInv, Fresh, OneShard, Routed, Emptied, Sh!Holds, Sh!RouteRecord
  <1>4. Moving'
    <2> SUFFICES ASSUME ~broken' PROVE Whole'
      BY <1>1 DEF Moving, Sh!Idle, Sh!Reading, Sh!Dropping, Sh!Writing, ShardParameters
    <2>1. (\A q : q \in made <=> Stored1(q) \/ Read1(q)) /\ ShardsOnce
      BY <1>1 DEF ShardInv, Moving
    <2>2. \A q : ~Read1(q) BY <1>1 DEF Read1
    <2> QED BY <1>1, <2>1, <2>2 DEF Whole, Stored1, ShardsOnce, Sh!Holds
  <1> QED BY <1>2, <1>3, <1>4 DEF ShardInv

LEMMA CrashKeeps == ASSUME ShardParameters, ShardInv, Sh!Crash PROVE ShardInv'
  <1>1. /\ broken' = (broken \/ ~Sh!Idle)
        /\ step' = 0 /\ bucket' = {} /\ client' = Sh!NoCall
        /\ UNCHANGED <<shards, nextId, rekeyed, made>>
    BY DEF Sh!Crash
  <1>2. ShardTypes' BY <1>1 DEF ShardInv, ShardTypes, ShardParameters
  <1>3. Fresh' /\ OneShard' /\ Routed' /\ Emptied'
    BY <1>1 DEF ShardInv, Fresh, OneShard, Routed, Emptied, Sh!Holds, Sh!RouteRecord
  <1>4. Moving'
    <2> SUFFICES ASSUME ~broken' PROVE Whole'
      BY <1>1 DEF Moving, Sh!Idle, Sh!Reading, Sh!Dropping, Sh!Writing, ShardParameters
    <2>1. Whole BY <1>1 DEF ShardInv, Moving
    <2> QED BY <1>1, <2>1 DEF Whole, Stored1, ShardsOnce, Sh!Holds
  <1> QED BY <1>2, <1>3, <1>4 DEF ShardInv

LEMMA ShardingStep == ASSUME ShardParameters, ShardInv, [Sh!Next]_(Sh!vars) PROVE ShardInv'
  <1>1. CASE UNCHANGED Sh!vars
    <2>1. ShardTypes' BY <1>1 DEF Sh!vars, ShardInv, ShardTypes
    <2>2. Fresh' /\ OneShard' /\ Routed' /\ Emptied'
     
       BY <1>1 DEF Sh!vars, ShardInv, Fresh, OneShard, Routed, Emptied, Sh!Holds,
              Sh!RouteRecord, Sh!Idle
    <2>3. Moving'
      BY <1>1 DEF Sh!vars, ShardInv, Moving, Whole, WholeRead, Stored1, Read1, ShardsOnce,
             BucketOnce, Apart, Sh!Holds, Sh!At, Sh!Idle, Sh!Reading, Sh!Dropping, Sh!Writing
    <2> QED BY <2>1, <2>2, <2>3 DEF ShardInv
  <1>2. CASE \E f \in Sh!Fields : Sh!Insert(f) BY <1>2, InsertKeeps
  <1>3. CASE \E i \in Sh!Id, new \in Sh!Fields \cup {NoRec} : Sh!Locate(i, new)
    BY <1>3, LocateKeeps
  <1>4. CASE \/ Sh!RebalanceStarts \/ Sh!ReadShard \/ Sh!DropShard
             \/ Sh!Use \/ Sh!WriteBack \/ Sh!RebalanceEnds \/ Sh!Crash
    BY <1>4, StartKeeps, ReadKeeps, DropKeeps, UseKeeps, WriteBackKeeps, EndKeeps, CrashKeeps
  <1> QED BY <1>1, <1>2, <1>3, <1>4 DEF Sh!Next

\* What the invariant says of the properties of the runs.
LEMMA ShardingMeans ==
  ASSUME ShardParameters, ShardInv PROVE Sh!OneShardPerId /\ Sh!FoundByKey /\ Sh!NothingLost
  <1>1. Sh!OneShardPerId
    <2> SUFFICES ASSUME NEW x \in Sh!Held, NEW y \in Sh!Held, x[2] = y[2] PROVE x = y
      BY DEF Sh!OneShardPerId
    <2>1. x = <<x[1], x[2]>> /\ y = <<y[1], y[2]>> /\ x[1] \in Sh!Shard /\ y[1] \in Sh!Shard
          /\ x[2] \in Sh!Id /\ Sh!Holds(x[1], x[2]) /\ Sh!Holds(y[1], y[2])
      BY DEF Sh!Held
    <2>2. x[1] = y[1] BY <2>1 DEF ShardInv, OneShard
    <2> QED BY <2>1, <2>2
  <1>2. Sh!FoundByKey
    <2> SUFFICES ASSUME NEW i \in Sh!Id, Sh!GetAnywhere(i) # NoRec, i \notin rekeyed
                 PROVE  Sh!Get(i, Sh!GetAnywhere(i).key) = Sh!GetAnywhere(i)
      BY DEF Sh!FoundByKey
    <2>1. \E s \in Sh!Shard : Sh!Holds(s, i) BY DEF Sh!GetAnywhere
    <2>2. Sh!First(i) \in Sh!Shard /\ Sh!Holds(Sh!First(i), i) BY <2>1, FirstHolds DEF ShardInv
    <2>3. Sh!GetAnywhere(i) = shards[Sh!First(i)][i] BY <2>1 DEF Sh!GetAnywhere
    <2>4. Sh!RouteRecord(shards[Sh!First(i)][i]) = Sh!First(i) BY <2>2 DEF ShardInv, Routed
    <2> QED BY <2>3, <2>4 DEF Sh!Get, Sh!RouteRecord
  <1>3. Sh!NothingLost
    <2> SUFFICES ASSUME Sh!Idle, ~broken
                 PROVE  /\ {Sh!RecAt(x) : x \in Sh!Held} = made
                        /\ \A x, y \in Sh!Held : Sh!RecAt(x).no = Sh!RecAt(y).no => x = y
      BY DEF Sh!NothingLost
    <2>1. Whole BY DEF ShardInv, Moving
    <2>2. \A x \in Sh!Held : /\ x = <<x[1], x[2]>> /\ x[1] \in Sh!Shard /\ x[2] \in Sh!Id
                          /\ Sh!Holds(x[1], x[2]) /\ Sh!RecAt(x) = shards[x[1]][x[2]]
      BY DEF Sh!Held, Sh!RecAt
    <2>3. \A s \in Sh!Shard, i \in Sh!Id : Sh!Holds(s, i) => <<s, i>> \in Sh!Held /\ Sh!RecAt(<<s, i>>) = shards[s][i]
      BY DEF Sh!Held, Sh!RecAt
    <2>4. ASSUME NEW q PROVE q \in {Sh!RecAt(x) : x \in Sh!Held} <=> Stored1(q)
      <3>1. q \in {Sh!RecAt(x) : x \in Sh!Held} <=> \E x \in Sh!Held : q = Sh!RecAt(x) OBVIOUS
      <3>2. (\E x \in Sh!Held : q = Sh!RecAt(x)) => Stored1(q) BY <2>2 DEF Stored1
      <3>3. ASSUME Stored1(q) PROVE \E x \in Sh!Held : q = Sh!RecAt(x)
        <4>1. PICK s \in Sh!Shard, i \in Sh!Id : Sh!Holds(s, i) /\ shards[s][i] = q
          BY <3>3 DEF Stored1
        <4>2. <<s, i>> \in Sh!Held /\ Sh!RecAt(<<s, i>>) = q BY <2>3, <4>1
        <4> QED BY <4>2
      <3> QED BY <3>1, <3>2, <3>3
    <2>5. {Sh!RecAt(x) : x \in Sh!Held} = made BY <2>1, <2>4 DEF Whole
    <2>6. ASSUME NEW x \in Sh!Held, NEW y \in Sh!Held, Sh!RecAt(x).no = Sh!RecAt(y).no
      PROVE x = y
      <3>1. x[1] = y[1] /\ x[2] = y[2] BY <2>1, <2>2, <2>6 DEF Whole, ShardsOnce
      <3> QED BY <2>2, <3>1
    <2> QED BY <2>5, <2>6
  <1> QED BY <1>1, <1>2, <1>3

-----------------------------------------------------------------------------
(***************************************************************************)
(* The parts together.                                                     *)
(***************************************************************************)

\* The invariants of the writers hold for every number of writers, attempts and versions.
THEOREM WritersAlways == Spec => []WriterIInv
  <1> USE ClusterAssumption
  <1>1. Init => WriterIInv BY WriterInit
  <1>2. WriterIInv /\ [Next]_vars => WriterIInv' BY WriterStep
  <1> QED BY <1>1, <1>2, PTL DEF Spec

\* The invariants of the pool, for every number of items and workers.
THEOREM PoolAlways == Pool!Spec => []PoolInv
  <1> USE ClusterAssumption
  <1>1. Pool!Init => PoolInv BY PoolInit
  <1>2. PoolInv /\ [Pool!Next]_(Pool!vars) => PoolInv' BY PoolStep
  <1> QED BY <1>1, <1>2, PTL DEF Pool!Spec

\* The invariants of the replication, for any replicas, events and room in the sockets.
THEOREM ReplicationAlways == Repl!Spec => []ReplInv
  <1> USE ClusterAssumption
  <1>1. Repl!Init => ReplInv BY ReplicationInit
  <1>2. ReplInv /\ [Repl!Next]_(Repl!vars) => ReplInv' BY ReplicationStep
  <1> QED BY <1>1, <1>2, PTL DEF Repl!Spec

\* The invariants of the shards, for any number of shards, keys and records.
THEOREM ShardsAlways == Sh!Spec => []ShardInv
  <1> USE ClusterAssumption
  <1>1. Sh!Init => ShardInv BY ShardingInit
  <1>2. ShardInv /\ [Sh!Next]_(Sh!vars) => ShardInv' BY ShardingStep
  <1> QED BY <1>1, <1>2, PTL DEF Sh!Spec

\* A behaviour of the composition is a behaviour of every part.
THEOREM Parts == ClusterSpec => Spec /\ Pool!Spec /\ Repl!Spec /\ Sh!Spec
  <1>1. ClusterInit => Init /\ Pool!Init /\ Repl!Init /\ Sh!Init BY DEF ClusterInit
  <1>2. [ClusterNext]_clusterVars =>
          /\ [Next]_vars /\ [Pool!Next]_(Pool!vars)
          /\ [Repl!Next]_(Repl!vars) /\ [Sh!Next]_(Sh!vars)
    <2> SUFFICES ASSUME [ClusterNext]_clusterVars
                 PROVE  /\ [Next]_vars /\ [Pool!Next]_(Pool!vars)
                        /\ [Repl!Next]_(Repl!vars) /\ [Sh!Next]_(Sh!vars)
      OBVIOUS
    <2>1. \/ Next /\ UNCHANGED <<poolVars, replVars, shardVars>>
          \/ Pool!Next /\ UNCHANGED <<vars, replVars, shardVars>>
          \/ Repl!Next /\ UNCHANGED <<vars, poolVars, shardVars>>
          \/ Sh!Next /\ UNCHANGED <<vars, poolVars, replVars>>
          \/ UNCHANGED <<vars, poolVars, replVars, shardVars>>
      BY DEF ClusterNext, clusterVars
    <2>2. /\ UNCHANGED poolVars => UNCHANGED Pool!vars
          /\ UNCHANGED replVars => UNCHANGED Repl!vars
          /\ UNCHANGED shardVars => UNCHANGED Sh!vars
      BY DEF poolVars, replVars, shardVars, Pool!vars, Repl!vars, Sh!vars
    <2> QED BY <2>1, <2>2
  <1> QED BY <1>1, <1>2, PTL DEF ClusterSpec, Spec, Pool!Spec, Repl!Spec, Sh!Spec

\* The types of the writers' state, at most MaxRetries attempts among them
\* (multi_writer.py:83).
THEOREM MultiWriterTypeOK == ClusterSpec => []TypeOK
  BY WritersAlways, Parts, PTL DEF WriterIInv, WriterInv

\* An update not crossed by a direct user replaces the version it expected
\* (multi_writer.py:45).
THEOREM MultiWriterCas == ClusterSpec => []CasIsExact
  BY WritersAlways, Parts, PTL DEF WriterIInv, WriterInv

\* At most one update replaces a version (multi_writer.py:47).
THEOREM MultiWriterOneWinner == ClusterSpec => []OneWinner
  BY WritersAlways, Parts, PTL DEF WriterIInv, WriterInv

\* An update raises an error only when it was crossed (multi_writer.py:108-113).
THEOREM MultiWriterErrors == ClusterSpec => []ErrorOnlyWhenCrossed
  BY WritersAlways, Parts, PTL DEF WriterIInv, WriterInv

\* One writer at a time has the lock of the record (multi_writer.py:85).
THEOREM MultiWriterInTurn == ClusterSpec => []InTurn
  BY WritersAlways, Parts, PTL DEF WriterIInv, WriterInv

\* The stream is the history of the primary, the ring buffer its end, and a connected
\* replica has the inserts in their order, none twice and none left out
\* (cdc.py:52-126, replication.py:108-112, 217).
THEOREM ReplicasFollow == ClusterSpec => []ReplicaFollows
  <1>1. ReplInv => ReplicaFollows BY ReplicationMeans DEF ReplicaFollows
  <1> QED BY <1>1, ReplicationAlways, Parts, PTL

\* The pool accounts for every item in the threads it promises, and the shards have every
\* record once, where its key leads (multi_writer.py:164-197, sharding.py:90-102, 218).
THEOREM NothingGetsLost == ClusterSpec => []NothingLost
  <1> USE ClusterAssumption
  <1>1. PoolInv /\ ShardInv => NothingLost BY PoolMeans, ShardingMeans DEF NothingLost
  <1> QED BY <1>1, PoolAlways, ShardsAlways, Parts, PTL
=============================================================================
