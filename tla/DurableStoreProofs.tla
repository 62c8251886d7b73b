------------------------- MODULE DurableStoreProofs -------------------------
(***************************************************************************)
(* What the write-ahead log guarantees, for any number of ids, contents,   *)
(* threads, restarts and any sizes of buffer and log: a promised write is  *)
(* found again after a crash at any point of a write, of an automatic      *)
(* snapshot, a checkpoint or close, in batch mode and with a log cut off   *)
(* anywhere behind its last fsync.  Serial lists the assumptions; the      *)
(* README says what goes wrong without them.                               *)
(*                                                                         *)
(* NoLostWrite is not inductive.  The strengthening says that the last     *)
(* record about an id in the log and its buffer, or the snapshot if there  *)
(* is none, carries the contents in memory, and that no record about a     *)
(* promised id is behind the last fsync (LogInv).  The first part survives *)
(* a stale log on top of a new snapshot, the second a log that is cut off. *)
(***************************************************************************)
EXTENDS DurableStore, SequenceTheorems, WellFoundedInduction, TLAPS

SyncOps == {"insert", "update", "delete", "delete_many", "checkpoint", "close"}
OneThread == \A t, u \in Thread : t = u

\* Calls that hold core._lock, by any number of threads; or all but drop by one thread,
\* without failing saves, which end_batch and snapshot do not tell their callers of.
Serial ==
  /\ \/ Ops \subseteq SyncOps
     \/ Ops \subseteq AllOps \ {"drop"} /\ OneThread /\ "save" \notin Faults
  /\ "append" \notin Faults
  /\ InitSnap = TRUE

\* No crash has left an incomplete record.
NeverTorn == "tear" \notin Faults \/ faults = 0

WriteOps == {"insert", "update", "delete", "delete_many"}
SaveOps == {"checkpoint", "close", "snapshot", "batch"}

ModeInv ==
  /\ known = TRUE /\ hasSnap = TRUE
  /\ restarts = 0 \/ NeverTorn => torn = FALSE
  /\ Ops \subseteq SyncOps => sync = TRUE /\ wbuf = <<>> /\ synced = Len(wal)
  /\ sync = TRUE <=> batch = FALSE /\ \A t \in Thread : pc[t] # "endsync"
  /\ wbuf # <<>> /\ sync = TRUE =>
       \E t \in Thread : pc[t] \in {"encode", "replace", "rotate"} /\ job[t].op = "batch"

\* One call at a time; a save works on the contents in memory, and at its end buffer and
\* log have nothing that is not on the disk.
CallerInv ==
  \A t \in Thread :
    /\ pc[t] \in {"idle", "log", "flush", "encode", "endsync", "done"} \cup SavePcs
    /\ job[t].op \in WriteOps \cup SaveOps \cup {"none"}
    /\ pc[t] \in {"log", "flush"} => job[t].op \in WriteOps
    /\ pc[t] = "endsync" => job[t].op = "batch" /\ batch = FALSE
    /\ pc[t] # "idle" => lock = t \/ OneThread
    /\ pc[t] = "log" => /\ job[t].entry \in Entry
                        /\ data[job[t].entry.key] = job[t].entry.rec
                        /\ prom[job[t].entry.key] = NoPromise
    /\ pc[t] \in SavePcs => job[t].img = data
    /\ pc[t] \in {"rotate", "remove"} => snap = data
    /\ pc[t] = "remove" => wbuf = <<>>
    /\ pc[t] = "done" /\ job[t].op \in SaveOps => wbuf = <<>> /\ synced = Len(wal)

Pending(k) == \E t \in Thread : pc[t] = "log" /\ job[t].entry.key = k

\* delete_many snapshots in batch mode, too: what is only in the buffer is then missing
\* in what _merge_from_disk reads.
Merging == batch = TRUE /\ \E t \in Thread : pc[t] \in SavePcs

\* What the files say of k: its last log record, or else the snapshot.
Latest(base, w, k) ==
  IF Touches(w, k) = {} THEN base[k] ELSE w[Max(Touches(w, k))].rec

Logged == wal \o wbuf

\* The same contents as in memory, and the disk has it when it is promised.
LogOf(k) ==
  /\ ~Pending(k) /\ (Merging => prom[k] # NoPromise)
       => SameContents(Latest(snap, Logged, k), data[k])
  /\ prom[k] # NoPromise => Touches(Logged, k) \subseteq 1..synced

LogInv == torn = FALSE => \A k \in Key : LogOf(k)

PromInv ==
  \A k \in Key :
    /\ (restarts <= 1 \/ NeverTorn) /\ prom[k] \in Rec => SameContents(prom[k], data[k])
    /\ NeverTorn /\ prom[k] = NoRec => data[k] = NoRec

StoreInv == TypeOK /\ ModeInv /\ CallerInv /\ LogInv /\ PromInv

-----------------------------------------------------------------------------
(* Induction on numbers, as the least and the greatest element of a set.   *)

LEMMA Least ==
  ASSUME NEW T \in SUBSET Nat, T # {}
  PROVE  \E x \in T : \A y \in T : x <= y
<1> DEFINE R == OpToRel(<, Nat)
<1>1. IsWellFoundedOn(R, Nat)
  BY NatLessThanWellFounded
<1>2. \A x, y \in Nat : y < x => <<y, x>> \in R
  BY DEF OpToRel
<1> HIDE DEF R
<1>3. PICK x \in T : \A y \in T : ~ (<<y, x>> \in R)
  BY <1>1, WFMin
<1>4. \A y \in T : x <= y
  <2> TAKE y \in T
  <2>1. x \in Nat /\ y \in Nat /\ ~(y < x)
    BY <1>2, <1>3
  <2> QED BY <2>1
<1> QED BY <1>4

LEMMA Greatest ==
  ASSUME NEW T \in SUBSET Nat, NEW n \in Nat, \A t \in T : t <= n, T # {}
  PROVE  \E x \in T : \A y \in T : y <= x
<1> DEFINE U == {u \in Nat : \E t \in T : u = n - t}
<1>1. U # {}
  <2>1. PICK t \in T : TRUE
    OBVIOUS
  <2>2. n - t \in Nat /\ t <= n
    BY <2>1
  <2> QED BY <2>1, <2>2
<1>2. U \in SUBSET Nat
  OBVIOUS
<1> HIDE DEF U
<1>3. PICK u \in U : \A v \in U : u <= v
  BY <1>1, <1>2, Least
<1> USE DEF U
<1>4. PICK x \in T : u = n - x /\ u \in Nat
  BY <1>3
<1>5. \A y \in T : y <= x
  <2> TAKE y \in T
  <2>1. n - y \in Nat /\ x \in Nat /\ y \in Nat
    OBVIOUS
  <2>2. n - y \in U
    BY <2>1
  <2>3. n - x <= n - y
    BY <1>3, <1>4, <2>2
  <2> QED BY <2>1, <2>3
<1> QED BY <1>5

-----------------------------------------------------------------------------
(* The log.                                                                *)

LEMMA MaxIs ==
  ASSUME NEW T, T \subseteq Nat, NEW i \in T, \A j \in T : j <= i
  PROVE  Max(T) = i
<1> DEFINE M == Max(T)
<1>1. M \in T /\ \A y \in T : M >= y
  BY DEF Max
<1>2. M \in Nat /\ i \in Nat /\ M >= i /\ M <= i
  BY <1>1
<1>3. M = i
  <2> HIDE DEF M
  <2> QED BY <1>2
<1> QED BY <1>3

LEMMA TouchesType ==
  ASSUME NEW w \in Seq(Entry), NEW k
  PROVE  Touches(w, k) \subseteq 1..Len(w) /\ Touches(w, k) \subseteq Nat
BY LenProperties DEF Touches

\* The last record about an id.
LEMMA LastTouch ==
  ASSUME NEW w \in Seq(Entry), NEW k, Touches(w, k) # {}
  PROVE  /\ Max(Touches(w, k)) \in Touches(w, k)
         /\ \A j \in Touches(w, k) : j <= Max(Touches(w, k))
         /\ w[Max(Touches(w, k))] \in Entry
         /\ \A base : Latest(base, w, k) = w[Max(Touches(w, k))].rec
<1>1. Touches(w, k) \in SUBSET Nat /\ Len(w) \in Nat /\ \A j \in Touches(w, k) : j <= Len(w)
  BY TouchesType, LenProperties
<1>2. PICK i \in Touches(w, k) : \A j \in Touches(w, k) : j <= i
  BY <1>1, Greatest
<1>3. Max(Touches(w, k)) = i
  BY <1>1, <1>2, MaxIs
<1>4. w[i] \in Entry
  BY TouchesType, ElementOfSeq
<1> QED BY <1>2, <1>3, <1>4 DEF Latest

LEMMA TouchesAppend ==
  ASSUME NEW w \in Seq(Entry), NEW e \in Entry, NEW k
  PROVE  Touches(Append(w, e), k) =
           IF e.key = k THEN Touches(w, k) \cup {Len(w) + 1} ELSE Touches(w, k)
<1>1. /\ DOMAIN Append(w, e) = 1..(Len(w) + 1)
      /\ DOMAIN w = 1..Len(w)
      /\ Len(w) \in Nat
      /\ \A i \in 1..Len(w) : Append(w, e)[i] = w[i]
      /\ Append(w, e)[Len(w) + 1] = e
  BY AppendProperties, LenProperties
<1>2. 1..(Len(w) + 1) = 1..Len(w) \cup {Len(w) + 1} /\ Len(w) + 1 \notin 1..Len(w)
  BY <1>1
<1> QED BY <1>1, <1>2 DEF Touches

\* A log that another one continues, without a further record about k.
LEMMA LatestPrefix ==
  ASSUME NEW base, NEW w \in Seq(Entry), NEW v \in Seq(Entry), NEW k,
         Len(v) <= Len(w), \A i \in 1..Len(v) : v[i] = w[i],
         Touches(w, k) \subseteq 1..Len(v)
  PROVE  Touches(v, k) = Touches(w, k) /\ Latest(base, v, k) = Latest(base, w, k)
<1>1. DOMAIN w = 1..Len(w) /\ DOMAIN v = 1..Len(v) /\ Len(w) \in Nat /\ Len(v) \in Nat
  BY LenProperties
<1>2. Touches(v, k) = Touches(w, k)
  BY <1>1 DEF Touches
<1>3. CASE Touches(w, k) = {}
  BY <1>2, <1>3 DEF Latest
<1>4. CASE Touches(w, k) # {}
  <2>1. Max(Touches(w, k)) \in 1..Len(v)
    BY <1>4, LastTouch
  <2> QED BY <1>2, <1>4, <2>1 DEF Latest
<1> QED BY <1>2, <1>3, <1>4

\* A record appended to the log becomes the last one about its id.
LEMMA LatestAppend ==
  ASSUME NEW base, NEW w \in Seq(Entry), NEW e \in Entry, NEW k
  PROVE  Latest(base, Append(w, e), k) = IF e.key = k THEN e.rec ELSE Latest(base, w, k)
<1>1. PICK v \in Seq(Entry) : v = Append(w, e)
  BY AppendProperties
<1>2. v[Len(w) + 1] = e /\ Len(v) = Len(w) + 1 /\ \A i \in 1..Len(w) : v[i] = w[i]
  BY <1>1, AppendProperties
<1>3. Touches(v, k) = IF e.key = k THEN Touches(w, k) \cup {Len(w) + 1} ELSE Touches(w, k)
  BY <1>1, TouchesAppend
<1>4. Touches(w, k) \subseteq 1..Len(w) /\ Len(w) \in Nat
  BY TouchesType, LenProperties
<1>5. CASE e.key = k
  <2>1. Touches(v, k) = Touches(w, k) \cup {Len(w) + 1}
    BY <1>3, <1>5
  <2>2. PICK i : i = Len(w) + 1
    OBVIOUS
  <2>3. i \in Touches(v, k) /\ \A j \in Touches(v, k) : j <= i
    BY <2>1, <2>2, <1>4
  <2>4. Touches(v, k) \subseteq Nat
    BY TouchesType
  <2>5. Max(Touches(v, k)) = i
    BY <2>3, <2>4, MaxIs
  <2>6. Latest(base, v, k) = v[i].rec
    BY <2>3, <2>5 DEF Latest
  <2> QED BY <1>1, <1>2, <1>5, <2>2, <2>6
<1>6. CASE e.key # k
  <2>1. Touches(v, k) \subseteq 1..Len(w) /\ Len(w) <= Len(v)
    BY <1>2, <1>3, <1>4, <1>6
  <2>2. \A i \in 1..Len(w) : w[i] = v[i]
    BY <1>2
  <2> QED BY <1>1, <1>6, <2>1, <2>2, LatestPrefix
<1> QED BY <1>5, <1>6

LEMMA EmptyLog ==
  ASSUME NEW base, NEW k
  PROVE  Touches(<<>>, k) = {} /\ Latest(base, <<>>, k) = base[k]
<1>1. Touches(<<>>, k) = {}
  BY DEF Touches
<1> QED BY <1>1 DEF Latest

\* Replay yields a map, with the contents of Latest (versions may differ).
LEMMA ReplayIsLatest ==
  ASSUME NEW base \in Map, NEW w \in Seq(Entry)
  PROVE  /\ ApplyWal(base, w) \in Map
         /\ \A k \in Key : SameContents(ApplyWal(base, w)[k], Latest(base, w, k))
<1> SUFFICES ASSUME NEW k \in Key
             PROVE  /\ ApplyWal(base, w)[k] \in Rec \cup {NoRec}
                    /\ SameContents(ApplyWal(base, w)[k], Latest(base, w, k))
  BY DEF ApplyWal, Map
<1>1. CASE Touches(w, k) = {}
  BY <1>1 DEF ApplyWal, Latest, SameContents, Map
<1>2. CASE Touches(w, k) # {}
  <2>1. PICK i : i = Max(Touches(w, k))
    OBVIOUS
  <2>2. Latest(base, w, k) = w[i].rec /\ w[i] \in Entry
    BY <1>2, <2>1, LastTouch
  <2>3. ApplyWal(base, w)[k] =
          IF w[i].op = "update" /\ Existed(base, w, k, i)
            THEN [w[i].rec EXCEPT !.ver = @ + 1] ELSE w[i].rec
    BY <1>2, <2>1 DEF ApplyWal
  <2>4. w[i].rec \in Rec \cup {NoRec} /\ (w[i].op = "update" => w[i].rec \in Rec)
    BY <2>2 DEF Entry
  <2>5. ASSUME w[i].rec \in Rec
        PROVE  /\ [w[i].rec EXCEPT !.ver = @ + 1] \in Rec
               /\ [w[i].rec EXCEPT !.ver = @ + 1].val = w[i].rec.val
    BY <2>5 DEF Rec
  <2> QED BY <2>2, <2>3, <2>4, <2>5, NoRecAssumption DEF SameContents
<1> QED BY <1>1, <1>2

-----------------------------------------------------------------------------
(* What a restart finds.                                                   *)

LEMMA LoggedType ==
  ASSUME NEW w \in Seq(Entry), NEW b \in Seq(Entry)
  PROVE  /\ w \o b \in Seq(Entry) /\ Len(w) \in Nat /\ Len(w) <= Len(w \o b)
         /\ \A i \in 1..Len(w) : (w \o b)[i] = w[i]
<1>1. Len(w) \in Nat /\ Len(b) \in Nat
  BY LenProperties
<1>2. Len(w \o b) = Len(w) + Len(b) /\ w \o b \in Seq(Entry)
  BY ConcatProperties
<1>3. \A i \in 1..(Len(w) + Len(b)) : (w \o b)[i] = IF i <= Len(w) THEN w[i] ELSE b[i - Len(w)]
  BY ConcatProperties
<1>4. \A i \in 1..Len(w) : i \in 1..(Len(w) + Len(b)) /\ i <= Len(w)
  BY <1>1
<1>5. Len(w) <= Len(w) + Len(b)
  BY <1>1
<1> QED BY <1>1, <1>2, <1>3, <1>4, <1>5

LEMMA PrefixType ==
  ASSUME NEW w \in Seq(Entry), NEW n \in 0..Len(w)
  PROVE  /\ SubSeq(w, 1, n) \in Seq(Entry) /\ Len(SubSeq(w, 1, n)) = n
         /\ \A i \in 1..n : SubSeq(w, 1, n)[i] = w[i]
<1>1. Len(w) \in Nat /\ n \in Int /\ \A i \in 1..n : i \in 1..Len(w) /\ 1 + i - 1 = i
  BY LenProperties
<1>2. \A i \in 1..n : w[i] \in Entry
  BY <1>1, ElementOfSeq
<1>3. n - 1 + 1 = n /\ (1 <= n \/ n = 0)
  BY <1>1
<1>4. /\ SubSeq(w, 1, n) \in Seq(Entry)
      /\ Len(SubSeq(w, 1, n)) = IF 1 <= n THEN n - 1 + 1 ELSE 0
      /\ \A i \in 1..(n - 1 + 1) : SubSeq(w, 1, n)[i] = w[1 + i - 1]
  BY <1>1, <1>2, SubSeqProperties
<1> QED BY <1>1, <1>3, <1>4

\* The part of the log that is left has the last record about an id with no record
\* behind the last fsync.
LEMMA FoundAt ==
  ASSUME TypeOK, hasSnap = TRUE, NEW n \in synced..Len(wal)
  PROVE  /\ n \in 0..Len(wal) /\ SubSeq(wal, 1, n) \in Seq(Entry)
         /\ RecoveredAt(n) = LoadAt(n) /\ LoadAt(n) = ApplyWal(snap, SubSeq(wal, 1, n))
         /\ LoadAt(n) \in Map
         /\ \A k \in Key : Touches(Logged, k) \subseteq 1..synced =>
              /\ Touches(SubSeq(wal, 1, n), k) = Touches(Logged, k)
              /\ Latest(snap, SubSeq(wal, 1, n), k) = Latest(snap, Logged, k)
              /\ SameContents(LoadAt(n)[k], Latest(snap, Logged, k))
<1>1. wal \in Seq(Entry) /\ wbuf \in Seq(Entry) /\ snap \in Map /\ synced \in 0..Len(wal)
  BY DEF TypeOK
<1>2. Len(wal) \in Nat /\ n \in 0..Len(wal) /\ synced <= n
  BY <1>1, LenProperties
<1>3. PICK p \in Seq(Entry) : /\ p = SubSeq(wal, 1, n) /\ Len(p) = n
                              /\ \A i \in 1..n : p[i] = wal[i]
  BY <1>1, <1>2, PrefixType
<1>4. /\ Logged \in Seq(Entry) /\ Len(wal) <= Len(Logged)
      /\ \A i \in 1..Len(wal) : Logged[i] = wal[i]
  BY <1>1, LoggedType DEF Logged
<1>5. RecoveredAt(n) = LoadAt(n) /\ LoadAt(n) = ApplyWal(snap, p)
  BY <1>3 DEF RecoveredAt, LoadAt, ReadAll
<1>6. LoadAt(n) \in Map /\ \A k \in Key : SameContents(LoadAt(n)[k], Latest(snap, p, k))
  BY <1>1, <1>5, ReplayIsLatest
<1>7. ASSUME NEW k \in Key, Touches(Logged, k) \subseteq 1..synced
      PROVE  Touches(p, k) = Touches(Logged, k) /\ Latest(snap, p, k) = Latest(snap, Logged, k)
  <2>1. Len(Logged) \in Nat
    BY <1>4, LenProperties
  <2>2. Len(p) <= Len(Logged) /\ \A i \in 1..Len(p) : p[i] = Logged[i]
    BY <1>2, <1>3, <1>4, <2>1
  <2>3. Touches(Logged, k) \subseteq 1..Len(p)
    BY <1>1, <1>2, <1>3, <1>7
  <2> QED BY <1>4, <2>2, <2>3, LatestPrefix
<1> QED BY <1>2, <1>3, <1>5, <1>6, <1>7

\* With a whole log, what is promised is what memory has and what a restart finds.
LEMMA FoundIsMemory ==
  ASSUME StoreInv, torn = FALSE, NEW k \in Key, prom[k] # NoPromise, NEW n \in synced..Len(wal)
  PROVE  /\ SameContents(Latest(snap, Logged, k), data[k])
         /\ SameContents(LoadAt(n)[k], data[k])
         /\ RecoveredAt(n) = LoadAt(n) /\ LoadAt(n) \in Map
<1>1. ~Pending(k)
  BY DEF StoreInv, CallerInv, Pending
<1>2. SameContents(Latest(snap, Logged, k), data[k]) /\ Touches(Logged, k) \subseteq 1..synced
  BY <1>1 DEF StoreInv, LogInv, LogOf
<1>3. TypeOK /\ hasSnap = TRUE
  BY DEF StoreInv, ModeInv
<1> QED BY <1>2, <1>3, FoundAt DEF SameContents

LEMMA OthersIdle ==
  ASSUME CallerInv, NEW t \in Thread, lock \in {NoThread, t} \/ pc[t] # "idle" \/ OneThread
  PROVE  \A u \in Thread : u # t => pc[u] = "idle"
BY SentinelAssumption DEF CallerInv, OneThread

LEMMA NobodyPending ==
  ASSUME CallerInv, NEW t \in Thread, lock \in {NoThread, t} \/ pc[t] # "idle" \/ OneThread,
         pc[t] # "log", NEW k
  PROVE  ~Pending(k)
BY OthersIdle DEF Pending

LEMMA StoreInvInit == ASSUME Serial, Init PROVE StoreInv
<1>1. Empty \in Map /\ \A k \in Key : Empty[k] = NoRec
  BY DEF Empty, Map
<1>2. <<>> \in Seq(Entry) /\ Len(<<>>) = 0
  BY EmptySeq
<1>3. TypeOK
  <2>1. /\ data \in Map /\ snap \in Map /\ wbuf \in Seq(Entry) /\ wal \in Seq(Entry)
        /\ known \in BOOLEAN /\ hasSnap \in BOOLEAN
        /\ sync \in BOOLEAN /\ batch \in BOOLEAN /\ torn \in BOOLEAN
        /\ lock \in Thread \cup {NoThread} /\ used \subseteq Key
    BY <1>1, <1>2, BoundAssumption DEF Init
  <2>2. synced \in 0..Len(wal) /\ faults \in 0..MaxFaults /\ restarts \in 0..MaxRestarts
    BY <1>2, BoundAssumption DEF Init
  <2>3. pc \in [Thread -> Pcs] /\ prom \in [Key -> Rec \cup {NoRec, NoPromise}]
    BY DEF Pcs, Empty, Init
  <2>4. job \in [Thread -> Call]
    BY <1>1 DEF Idle, Call, Init
  <2> QED BY <2>1, <2>2, <2>3, <2>4 DEF TypeOK
<1>4. ModeInv
  BY <1>2 DEF ModeInv, Serial, Init
<1>5. CallerInv
  BY DEF CallerInv, Idle, Init, SavePcs
<1>6. Logged = <<>>
  BY <1>2, ConcatEmptySeq DEF Logged, Init
<1>7. LogInv
  BY <1>1, <1>6, EmptyLog DEF LogInv, LogOf, SameContents, Init
<1>8. PromInv
  BY <1>1 DEF PromInv, SameContents, Init
<1> QED BY <1>3, <1>4, <1>5, <1>7, <1>8 DEF StoreInv

-----------------------------------------------------------------------------
(* The replay is the loop of _apply_wal.                                   *)

LEMMA ExistedPrefix ==
  ASSUME NEW base, NEW w \in Seq(Entry), NEW e \in Entry, NEW k, NEW i \in 1..(Len(w) + 1)
  PROVE  Existed(base, Append(w, e), k, i) =
           IF {j \in Touches(w, k) : j < i} = {} THEN base[k] # NoRec
           ELSE w[Max({j \in Touches(w, k) : j < i})].op # "delete"
<1> DEFINE before == {j \in Touches(w, k) : j < i}
<1>1. /\ Len(w) \in Nat /\ Touches(w, k) \subseteq 1..Len(w)
      /\ \A j \in 1..Len(w) : Append(w, e)[j] = w[j]
  BY TouchesType, LenProperties, AppendProperties
<1>2. {j \in Touches(Append(w, e), k) : j < i} = before
  BY <1>1, TouchesAppend
<1>3. Existed(base, Append(w, e), k, i) =
        IF before = {} THEN base[k] # NoRec ELSE Append(w, e)[Max(before)].op # "delete"
  BY <1>2 DEF Existed
<1>4. ASSUME before # {} PROVE Max(before) \in 1..Len(w)
  <2>1. before \in SUBSET Nat /\ \A j \in before : j <= Len(w)
    BY <1>1
  <2>2. PICK m \in before : \A j \in before : j <= m
    <3> HIDE DEF before
    <3> QED BY <1>1, <1>4, <2>1, Greatest
  <2>3. Max(before) = m
    <3> HIDE DEF before
    <3> QED BY <2>1, <2>2, MaxIs
  <2> QED BY <1>1, <2>3
<1> QED BY <1>1, <1>3, <1>4

LEMMA ApplyAppend ==
  ASSUME NEW base \in Map, NEW w \in Seq(Entry), NEW e \in Entry
  PROVE  ApplyWal(base, Append(w, e)) = ApplyEntry(ApplyWal(base, w), e)
<1>1. PICK v \in Seq(Entry) : v = Append(w, e)
  BY AppendProperties
<1>2. /\ Len(w) \in Nat /\ \A k : Touches(w, k) \subseteq 1..Len(w) /\ Touches(w, k) \subseteq Nat
      /\ v[Len(w) + 1] = e /\ \A i \in 1..Len(w) : v[i] = w[i]
  BY <1>1, TouchesType, LenProperties, AppendProperties
<1>3. PICK m \in Map : m = ApplyWal(base, w)
  BY ReplayIsLatest
<1>4. e.key \in Key /\ e.rec \in Rec \cup {NoRec}
  BY DEF Entry
<1>5. ASSUME NEW k \in Key, k # e.key PROVE ApplyWal(base, v)[k] = m[k]
  <2>1. Touches(v, k) = Touches(w, k)
    BY <1>1, <1>5, TouchesAppend
  <2>2. CASE Touches(w, k) = {}
    BY <1>3, <1>5, <2>1, <2>2 DEF ApplyWal
  <2>3. CASE Touches(w, k) # {}
    <3>1. PICK i : i = Max(Touches(w, k))
      OBVIOUS
    <3>2. i \in 1..Len(w) /\ i \in 1..(Len(w) + 1)
      BY <1>2, <2>3, <3>1, LastTouch
    <3>3. Existed(base, v, k, i) = Existed(base, w, k, i)
      <4>1. Existed(base, v, k, i) = IF {j \in Touches(w, k) : j < i} = {} THEN base[k] # NoRec
                                     ELSE w[Max({j \in Touches(w, k) : j < i})].op # "delete"
        BY <1>1, <3>2, ExistedPrefix
      <4> QED BY <4>1 DEF Existed
    <3>4. v[i] = w[i]
      BY <1>2, <3>2
    <3> QED BY <1>3, <1>5, <2>1, <2>3, <3>1, <3>3, <3>4 DEF ApplyWal
  <2> QED BY <2>2, <2>3
<1>6. ASSUME NEW k \in Key, k = e.key
      PROVE  ApplyWal(base, v)[k] =
               IF e.op = "update" /\ m[k] # NoRec THEN [e.rec EXCEPT !.ver = @ + 1] ELSE e.rec
  <2>1. PICK i : i = Len(w) + 1
    OBVIOUS
  <2>2. Touches(v, k) = Touches(w, k) \cup {i} /\ i \in Nat /\ i \in 1..(Len(w) + 1)
    BY <1>1, <1>2, <1>6, <2>1, TouchesAppend
  <2>3. Touches(v, k) \subseteq Nat /\ \A j \in Touches(v, k) : j <= i
    BY <1>2, <2>1, <2>2
  <2>4. Max(Touches(v, k)) = i
    BY <2>2, <2>3, MaxIs
  <2>5. ApplyWal(base, v)[k] =
          IF e.op = "update" /\ Existed(base, v, k, i) THEN [e.rec EXCEPT !.ver = @ + 1] ELSE e.rec
    BY <1>2, <2>1, <2>2, <2>4 DEF ApplyWal
  <2>6. {j \in Touches(w, k) : j < i} = Touches(w, k)
    BY <1>2, <2>1
  <2>7. Existed(base, v, k, i) = IF Touches(w, k) = {} THEN base[k] # NoRec
                                 ELSE w[Max(Touches(w, k))].op # "delete"
    <3>1. Existed(base, v, k, i) = IF {j \in Touches(w, k) : j < i} = {} THEN base[k] # NoRec
                                   ELSE w[Max({j \in Touches(w, k) : j < i})].op # "delete"
      BY <1>1, <2>2, ExistedPrefix
    <3> QED BY <2>6, <3>1
  <2>8. CASE Touches(w, k) = {}
    BY <1>3, <2>5, <2>7, <2>8 DEF ApplyWal
  <2>9. CASE Touches(w, k) # {}
    <3>1. PICK l \in Entry : l = w[Max(Touches(w, k))] /\ Latest(base, w, k) = l.rec
      BY <2>9, LastTouch
    <3>2. l.op # "delete" <=> l.rec # NoRec
      BY <3>1, NoRecAssumption DEF Entry
    <3>3. m[k] = NoRec <=> l.rec = NoRec
      BY <1>3, <3>1, ReplayIsLatest DEF SameContents
    <3> QED BY <2>5, <2>7, <2>9, <3>1, <3>2, <3>3
  <2> QED BY <2>8, <2>9
<1>7. ApplyWal(base, v) = [k \in Key |-> ApplyWal(base, v)[k]]
  BY DEF ApplyWal
<1> QED BY <1>1, <1>3, <1>4, <1>5, <1>6, <1>7 DEF ApplyEntry, Map

LEMMA PrefixStep ==
  ASSUME NEW w \in Seq(Entry), NEW i \in 1..Len(w)
  PROVE  /\ SubSeq(w, 1, i - 1) \in Seq(Entry) /\ w[i] \in Entry
         /\ SubSeq(w, 1, i) = Append(SubSeq(w, 1, i - 1), w[i])
<1>1. Len(w) \in Nat /\ i - 1 \in 0..Len(w) /\ i \in 0..Len(w) /\ i - 1 + 1 = i
  BY LenProperties
<1>2. PICK u \in Seq(Entry) : /\ u = SubSeq(w, 1, i - 1) /\ Len(u) = i - 1
                              /\ \A j \in 1..(i - 1) : u[j] = w[j]
  BY <1>1, PrefixType
<1>3. PICK v \in Seq(Entry) : /\ v = SubSeq(w, 1, i) /\ Len(v) = i
                              /\ \A j \in 1..i : v[j] = w[j]
  BY <1>1, PrefixType
<1>4. w[i] \in Entry
  BY ElementOfSeq
<1>5. PICK a \in Seq(Entry) : /\ a = Append(u, w[i]) /\ Len(a) = i /\ a[i] = w[i]
                              /\ \A j \in 1..(i - 1) : a[j] = u[j]
  <2>1. PICK a \in Seq(Entry) : a = Append(u, w[i])
    BY <1>4, AppendProperties
  <2>2. Len(a) = Len(u) + 1 /\ a[Len(u) + 1] = w[i] /\ \A j \in 1..Len(u) : a[j] = u[j]
    BY <1>4, <2>1, AppendProperties
  <2> QED BY <1>1, <1>2, <2>1, <2>2
<1>6. \A j \in 1..i : a[j] = v[j]
  <2> TAKE j \in 1..i
  <2>1. j = i \/ j \in 1..(i - 1)
    BY <1>1
  <2> QED BY <1>2, <1>3, <1>5, <2>1
<1>7. a = v
  BY <1>3, <1>5, <1>6, SeqEqual
<1> QED BY <1>2, <1>3, <1>4, <1>5, <1>7

\* The declarative ApplyWal computes what the loop over the records computes.
LEMMA ReplayIsTheLoop ==
  ASSUME NEW base \in Map, NEW w \in Seq(Entry)
  PROVE  ApplyWal(base, w) = ApplyLoop(base, w)
<1> DEFINE N == 0..Len(w)
           Turns(m) == m = [i \in N |-> IF i = 0 THEN base ELSE ApplyEntry(m[i - 1], w[i])]
           f == [i \in N |-> ApplyWal(base, SubSeq(w, 1, i))]
<1>1. Len(w) \in Nat /\ N \subseteq Nat /\ 0 \in N /\ Len(w) \in N
      /\ \A i \in N : i # 0 => i - 1 \in N /\ i \in 1..Len(w) /\ i - 1 < i
  BY LenProperties
<1>2. SubSeq(w, 1, 0) = <<>> /\ SubSeq(w, 1, Len(w)) = w
  BY <1>1, SubSeqEmpty, SubSeqFull
<1>3. f[0] = base
  <2>1. ApplyWal(base, <<>>) = base
    BY EmptyLog DEF ApplyWal, Map
  <2> QED BY <1>1, <1>2, <2>1
<1>4. ASSUME NEW i \in N, i # 0 PROVE f[i] = ApplyEntry(f[i - 1], w[i])
  <2>1. i \in 1..Len(w) /\ i - 1 \in N
    BY <1>1, <1>4
  <2>2. ApplyWal(base, SubSeq(w, 1, i)) = ApplyEntry(ApplyWal(base, SubSeq(w, 1, i - 1)), w[i])
    BY <2>1, PrefixStep, ApplyAppend
  <2> QED BY <2>1, <2>2
<1>5. f = [i \in N |-> f[i]]
  OBVIOUS
<1>6. f[Len(w)] = ApplyWal(base, w)
  BY <1>1, <1>2
<1> HIDE DEF f
<1>7. Turns(f)
  BY <1>3, <1>4, <1>5
<1>8. ASSUME NEW g, Turns(g) PROVE g[Len(w)] = f[Len(w)]
  <2> DEFINE T == {i \in N : g[i] # f[i]}
  <2>1. \A i \in N : g[i] = IF i = 0 THEN base ELSE ApplyEntry(g[i - 1], w[i])
    BY <1>8
  <2>2. ASSUME T # {} PROVE FALSE
    <3>1. T \in SUBSET Nat
      BY <1>1
    <3>2. PICK x \in T : \A y \in T : x <= y
      <4> HIDE DEF T
      <4> QED BY <2>2, <3>1, Least
    <3>3. x \in N /\ g[x] # f[x] /\ x # 0
      BY <1>3, <2>1, <3>2
    <3>4. x - 1 \in N /\ ~(x <= x - 1)
      BY <1>1, <3>3
    <3>5. g[x - 1] = f[x - 1]
      BY <3>2, <3>4
    <3> QED BY <1>4, <2>1, <3>3, <3>5
  <2> QED BY <1>1, <2>2
<1>9. ApplyLoop(base, w) = (CHOOSE m : Turns(m))[Len(w)]
  BY DEF ApplyLoop
<1> QED BY <1>6, <1>7, <1>8, <1>9

-----------------------------------------------------------------------------
(* The steps of a write.                                                   *)

LEMMA WriteStep ==
  ASSUME StoreInv, NEW t \in Thread, NEW o \in WriteOps, NEW e \in Entry,
         Write(t, o, e), used' \subseteq Key
  PROVE  StoreInv'
<1> USE DEF StoreInv, Write, Enter, disk
<1>1. e.key \in Key /\ e.rec \in Rec \cup {NoRec}
  BY DEF Entry
<1>2. Empty \in Map
  BY DEF Empty, Map
<1>3. TypeOK'
  BY <1>1, <1>2 DEF TypeOK, Pcs, Map, WriteOps, AllOps, Call
<1>4. /\ data'[e.key] = e.rec /\ prom'[e.key] = NoPromise
      /\ pc' = [pc EXCEPT ![t] = "log"] /\ pc'[t] = "log"
      /\ job'[t].entry = e /\ job'[t].op = o
  BY <1>1 DEF TypeOK, Map
<1>5. \A k \in Key : k # e.key => data'[k] = data[k] /\ prom'[k] = prom[k]
  BY DEF TypeOK, Map
<1>6. \A u \in Thread : u # t => pc[u] = "idle" /\ pc'[u] = "idle" /\ job'[u] = job[u]
  BY <1>4, OthersIdle DEF TypeOK
<1>7. ModeInv'
  <2>1. (\A u \in Thread : pc[u] # "endsync") /\ ~(wbuf # <<>> /\ sync = TRUE)
    BY <1>6 DEF ModeInv
  <2>2. \A u \in Thread : pc'[u] # "endsync"
    BY <1>4, <1>6
  <2> QED BY <2>1, <2>2 DEF ModeInv, NeverTorn
<1>8. CallerInv'
  BY <1>4, <1>6 DEF CallerInv, SavePcs
<1>9. LogInv'
  <2>0. /\ Logged' = Logged /\ snap' = snap /\ torn' = torn /\ synced' = synced
        /\ \A k : Latest(snap, Logged, k)' = Latest(snap, Logged, k)
        /\ \A k : Touches(Logged, k)' = Touches(Logged, k)
    BY DEF Logged, Latest, Touches
  <2> SUFFICES ASSUME torn = FALSE, NEW k \in Key
               PROVE  /\ ~Pending(k)' => SameContents(Latest(snap, Logged, k), data'[k])
                      /\ prom'[k] # NoPromise => Touches(Logged, k) \subseteq 1..synced
    <3> HIDE DEF Write, Enter, StoreInv
    <3> QED BY <2>0 DEF LogInv, LogOf, SameContents
  <2>1. ~Pending(k)' => k # e.key
    BY <1>4 DEF Pending
  <2>2. ~Pending(k) /\ ~Merging
    BY <1>6, NobodyPending DEF Merging, SavePcs
  <2>3. /\ SameContents(Latest(snap, Logged, k), data[k])
        /\ prom[k] # NoPromise => Touches(Logged, k) \subseteq 1..synced
    BY <2>2 DEF LogInv, LogOf
  <2> QED BY <1>4, <1>5, <2>1, <2>3
<1>10. PromInv'
  BY <1>4, <1>5, NoRecAssumption DEF PromInv, SameContents, NeverTorn
<1> QED BY <1>3, <1>7, <1>8, <1>9, <1>10

\* What a record on its way to the log does there: it is written through, buffered, or
\* written with the buffer.
LEMMA LogFiles ==
  ASSUME Serial, StoreInv, NEW t \in Thread, Log(t)
  PROVE  /\ wal' \in Seq(Entry) /\ wbuf' \in Seq(Entry) /\ synced' \in 0..Len(wal')
         /\ torn = FALSE => Logged' = Append(Logged, job[t].entry)
         /\ synced <= synced'
         /\ sync = TRUE => wbuf = <<>> /\ wbuf' = <<>>
         /\ sync = TRUE /\ torn = FALSE => synced' = Len(Logged')
         /\ sync = TRUE /\ synced = Len(wal) => synced' = Len(wal')
<1> USE DEF StoreInv
<1>1. PICK e \in Entry : e = job[t].entry
  BY DEF Log, CallerInv
<1>2. wal \in Seq(Entry) /\ wbuf \in Seq(Entry) /\ synced \in 0..Len(wal) /\ Len(wal) \in Nat
  BY LenProperties DEF TypeOK
<1>3. \A u \in Thread : u # t => pc[u] = "idle"
  BY OthersIdle DEF Log
<1>4. sync = TRUE => wbuf = <<>>
  BY <1>3 DEF ModeInv, Log
<1>5. wal \o <<>> = wal /\ Append(wal, e) \o <<>> = Append(wal, e)
  BY <1>2, AppendProperties, ConcatEmptySeq
<1>6. Append(wal, e) \in Seq(Entry) /\ Len(Append(wal, e)) = Len(wal) + 1
  BY <1>2, AppendProperties
<1>7. /\ Append(wbuf, e) \in Seq(Entry) /\ wal \o Append(wbuf, e) \in Seq(Entry)
      /\ Len(wal) <= Len(wal \o Append(wbuf, e))
  <2>1. Append(wbuf, e) \in Seq(Entry)
    BY <1>2, AppendProperties
  <2> QED BY <1>2, <2>1, LoggedType
<1>8. wal \o Append(wbuf, e) = Append(wal \o wbuf, e)
  <2>1. Append(wbuf, e) = wbuf \o <<e>> /\ <<e>> \in Seq(Entry)
    BY <1>2, AppendIsConcat
  <2>2. wal \o wbuf \in Seq(Entry)
    BY <1>2, LoggedType
  <2>3. Append(wal \o wbuf, e) = (wal \o wbuf) \o <<e>>
    BY <2>2, AppendIsConcat
  <2>4. (wal \o wbuf) \o <<e>> = wal \o (wbuf \o <<e>>)
    BY <1>2, <2>1, ConcatAssociative
  <2> QED BY <2>1, <2>3, <2>4
<1>9. CASE sync = TRUE
  <2>1. wbuf' = wbuf /\ AppendToFile(e)
    BY <1>1, <1>9 DEF Log, Serial, MayFail
  <2>2. CASE torn = TRUE
    BY <1>2, <1>4, <1>9, <2>1, <2>2 DEF AppendToFile
  <2>3. CASE torn = FALSE
    <3>1. wal' = Append(wal, e) /\ synced' = Len(wal) + 1
      BY <2>1, <2>3 DEF AppendToFile
    <3>2. Logged' = Append(Logged, e) /\ Logged' = wal'
      BY <1>4, <1>5, <1>9, <2>1, <3>1 DEF Logged
    <3> QED BY <1>1, <1>2, <1>4, <1>6, <1>9, <2>1, <2>3, <3>1, <3>2
  <2> QED BY <2>2, <2>3 DEF TypeOK
<1>10. CASE sync = FALSE /\ wbuf' = Append(wbuf, e) /\ UNCHANGED <<wal, synced>>
  BY <1>1, <1>2, <1>7, <1>8, <1>10 DEF Logged
<1>11. CASE sync = FALSE /\ FlushBuffer(Append(wbuf, e))
  <2>1. wbuf' = <<>> /\ synced' = synced /\ wal' = IF torn THEN wal ELSE wal \o Append(wbuf, e)
    BY <1>11 DEF FlushBuffer
  <2>2. wal' \in Seq(Entry) /\ Len(wal) <= Len(wal') /\ Len(wal') \in Nat
    BY <1>2, <1>7, <2>1, LenProperties
  <2>3. Logged' = wal'
    BY <2>1, <2>2, ConcatEmptySeq DEF Logged
  <2>4. torn = FALSE => Logged' = Append(Logged, e)
    BY <1>8, <2>1, <2>3 DEF Logged
  <2>5. <<>> \in Seq(Entry)
    BY EmptySeq
  <2> QED BY <1>1, <1>2, <1>11, <2>1, <2>2, <2>4, <2>5
<1> QED BY <1>1, <1>9, <1>10, <1>11 DEF Log, TypeOK

LEMMA LogStep ==
  ASSUME Serial, StoreInv, NEW t \in Thread, Log(t) PROVE StoreInv'
<1> USE DEF StoreInv
<1> DEFINE e == job[t].entry
<1>1. e \in Entry /\ e.key \in Key /\ data[e.key] = e.rec /\ prom[e.key] = NoPromise
      /\ e.rec \in Rec \cup {NoRec} /\ pc[t] = "log"
  BY DEF Log, CallerInv, Entry
<1>2. /\ prom' = (IF sync THEN [prom EXCEPT ![e.key] = e.rec] ELSE prom)
      /\ pc' = [pc EXCEPT ![t] = "flush"]
      /\ UNCHANGED <<data, known, sync, batch, snap, hasSnap, torn, lock, job, restarts, used>>
  BY DEF Log
<1>3. faults' = faults
  BY DEF Log, Serial, MayFail
<1>4. /\ wal' \in Seq(Entry) /\ wbuf' \in Seq(Entry) /\ synced' \in 0..Len(wal')
      /\ torn = FALSE => Logged' = Append(Logged, e)
      /\ synced <= synced'
      /\ sync = TRUE => wbuf = <<>> /\ wbuf' = <<>>
      /\ sync = TRUE /\ torn = FALSE => synced' = Len(Logged')
      /\ sync = TRUE /\ synced = Len(wal) => synced' = Len(wal')
  BY LogFiles
<1> HIDE DEF e
<1>5. TypeOK'
  BY <1>1, <1>2, <1>3, <1>4 DEF TypeOK, Pcs, Map
<1>6. /\ pc'[t] = "flush" /\ job'[t].op \in WriteOps
      /\ \A u \in Thread : u # t => pc[u] = "idle" /\ pc'[u] = "idle"
  BY <1>1, <1>2, OthersIdle DEF TypeOK, CallerInv
<1>7. ModeInv'
  <2>1. (\A u \in Thread : pc[u] # "endsync") /\ \A u \in Thread : pc'[u] # "endsync"
    BY <1>1, <1>6
  <2> HIDE DEF StoreInv
  <2>2. ModeInv
    BY DEF StoreInv
  <2> QED BY <1>2, <1>3, <1>4, <2>1, <2>2 DEF ModeInv, NeverTorn
<1>8. CallerInv'
  BY <1>1, <1>2, <1>6 DEF CallerInv, SavePcs
<1>9. \A k \in Key : k # e.key => ~Pending(k)
  BY <1>6 DEF Pending, e
<1>10. ~Merging
  BY <1>1, <1>6 DEF Merging, SavePcs
<1>11. \A k \in Key : k # e.key => prom'[k] = prom[k]
  BY <1>1, <1>2 DEF TypeOK
<1>12. LogInv'
  <2> SUFFICES ASSUME torn = FALSE, NEW k \in Key
               PROVE  /\ SameContents(Latest(snap, Logged', k), data[k])
                      /\ prom'[k] # NoPromise => Touches(Logged', k) \subseteq 1..synced'
    <3>1. /\ \A k : Latest(snap, Logged, k)' = Latest(snap, Logged', k)
          /\ \A k : Touches(Logged, k)' = Touches(Logged', k)
      BY <1>2 DEF Latest, Touches
    <3>2. ASSUME torn = FALSE, NEW k \in Key
          PROVE  LogOf(k)'
      BY <1>2, <3>1, <3>2 DEF LogOf, SameContents
    <3> QED BY <1>2, <3>2 DEF LogInv
  <2>1. Logged \in Seq(Entry) /\ Logged' = Append(Logged, e) /\ synced \in Nat /\ synced' \in Nat
    <3>1. wal \in Seq(Entry) /\ wbuf \in Seq(Entry) /\ synced \in 0..Len(wal)
      BY DEF TypeOK
    <3>2. Len(wal) \in Nat /\ Len(wal') \in Nat
      BY <1>4, <3>1, LenProperties
    <3>3. Logged \in Seq(Entry)
      BY <3>1, LoggedType DEF Logged
    <3> QED BY <1>4, <3>1, <3>2, <3>3
  <2>2. Latest(snap, Logged', k) = IF e.key = k THEN e.rec ELSE Latest(snap, Logged, k)
    BY <1>1, <2>1, LatestAppend
  <2>3. k # e.key => SameContents(Latest(snap, Logged, k), data[k])
    BY <1>9, <1>10 DEF LogInv, LogOf
  <2>4. Touches(Logged', k) = IF e.key = k THEN Touches(Logged, k) \cup {Len(Logged) + 1}
                                           ELSE Touches(Logged, k)
    BY <1>1, <2>1, TouchesAppend
  <2>5. CASE k # e.key
    <3>1. prom'[k] # NoPromise => Touches(Logged, k) \subseteq 1..synced
      BY <1>11, <2>5 DEF LogInv, LogOf
    <3>2. 1..synced \subseteq 1..synced'
      BY <1>4, <2>1
    <3> QED BY <2>2, <2>3, <2>4, <2>5, <3>1, <3>2
  <2>6. CASE k = e.key
    <3>1. prom'[k] # NoPromise => sync = TRUE
      BY <1>1, <1>2, <2>6 DEF TypeOK
    <3>2. prom'[k] # NoPromise => Touches(Logged', k) \subseteq 1..synced'
      <4>1. Logged' \in Seq(Entry)
        BY <1>1, <2>1, AppendProperties
      <4>2. Touches(Logged', k) \subseteq 1..Len(Logged')
        BY <4>1, TouchesType
      <4> QED BY <1>4, <3>1, <4>2
    <3>3. SameContents(Latest(snap, Logged', k), data[k])
      BY <1>1, <2>2, <2>6 DEF SameContents
    <3> QED BY <3>2, <3>3
  <2> QED BY <2>5, <2>6
<1>13. PromInv'
  BY <1>1, <1>2, <1>3, <1>11 DEF PromInv, SameContents, TypeOK, NeverTorn
<1> QED BY <1>5, <1>7, <1>8, <1>12, <1>13

-----------------------------------------------------------------------------
(* Steps that leave records, files and promises alone.                     *)

LEMMA CallMoves ==
  ASSUME StoreInv, TypeOK', ModeInv', CallerInv',
         UNCHANGED <<data, snap, wal, wbuf, synced, torn, restarts, prom>>,
         NeverTorn' => NeverTorn, Merging => Merging', \A k : Pending(k) => Pending(k)'
  PROVE  StoreInv'
<1>1. /\ \A k : Latest(snap, Logged, k)' = Latest(snap, Logged, k)
      /\ \A k : Touches(Logged, k)' = Touches(Logged, k)
  BY DEF Logged, Latest, Touches
<1>2. ASSUME NEW k \in Key, LogOf(k) PROVE LogOf(k)'
  BY <1>1, <1>2 DEF LogOf, SameContents
<1>3. LogInv'
  BY <1>2 DEF StoreInv, LogInv
<1>4. PromInv'
  BY DEF StoreInv, PromInv, SameContents
<1> QED BY <1>3, <1>4 DEF StoreInv

LEMMA FlushOneSkipsStep ==
  ASSUME Serial, StoreInv, NEW t \in Thread, FlushOneSkips(t) PROVE StoreInv'
<1> USE DEF FlushOneSkips, disk
<1>1. pc[t] = "flush" /\ pc' = [pc EXCEPT ![t] = "done"] /\ pc'[t] = "done"
  BY DEF StoreInv, TypeOK
<1>2. \A u \in Thread : u # t => pc[u] = "idle" /\ pc'[u] = "idle"
  BY <1>1, OthersIdle DEF StoreInv
<1>3. TypeOK'
  BY DEF StoreInv, TypeOK, Pcs
<1>4. ModeInv'
  BY <1>1, <1>2 DEF StoreInv, ModeInv, NeverTorn
<1>5. CallerInv'
  BY <1>1, <1>2 DEF StoreInv, CallerInv, SavePcs, WriteOps, SaveOps
<1>6. ~Merging /\ \A k : ~Pending(k)
  BY <1>1, <1>2 DEF Merging, Pending, SavePcs
<1> QED BY <1>3, <1>4, <1>5, <1>6, CallMoves DEF NeverTorn

LEMMA CheckpointStep ==
  ASSUME Serial, StoreInv, NEW t \in Thread, Checkpoint(t) PROVE StoreInv'
<1> USE DEF Enter, disk
<1>1. PICK o \in {"checkpoint", "close"} \cap Ops :
        /\ Enter(t)
        /\ job' = [job EXCEPT ![t].op = o]
        /\ pc' = [pc EXCEPT ![t] = "encode"]
        /\ UNCHANGED <<data, known, wbuf, sync, batch, disk, faults, restarts, used, prom>>
  BY DEF Checkpoint
<1>2. \A u \in Thread : pc[u] = "idle"
  BY <1>1, OthersIdle DEF StoreInv
<1>3. /\ pc'[t] = "encode" /\ job'[t].op = o
      /\ \A u \in Thread : u # t => pc'[u] = "idle" /\ job'[u] = job[u]
  BY <1>1, <1>2 DEF StoreInv, TypeOK, Call
<1>4. TypeOK'
  BY <1>1 DEF StoreInv, TypeOK, Pcs, Call, AllOps
<1>5. ModeInv'
  BY <1>1, <1>2, <1>3 DEF StoreInv, ModeInv, NeverTorn
<1>6. CallerInv'
  BY <1>1, <1>2, <1>3 DEF StoreInv, CallerInv, SavePcs, WriteOps, SaveOps
<1>7. ~Merging /\ \A k : ~Pending(k)
  BY <1>2 DEF Merging, Pending, SavePcs
<1> QED BY <1>1, <1>4, <1>5, <1>6, <1>7, CallMoves DEF NeverTorn

LEMMA SnapshotStep ==
  ASSUME Serial, StoreInv, NEW t \in Thread, Snapshot(t) PROVE StoreInv'
<1> USE DEF Snapshot, disk
<1>1. OneThread
  BY DEF Serial, SyncOps
<1>2. \A u \in Thread : pc[u] = "idle"
  BY <1>1 DEF OneThread
<1>3. /\ pc'[t] = "encode" /\ job'[t].op = "snapshot"
      /\ \A u \in Thread : u # t => pc'[u] = "idle" /\ job'[u] = job[u]
  BY <1>2 DEF StoreInv, TypeOK, Call
<1>4. TypeOK'
  BY DEF StoreInv, TypeOK, Pcs, Call, AllOps
<1>5. ModeInv'
  BY <1>2, <1>3 DEF StoreInv, ModeInv, NeverTorn
<1>6. CallerInv'
  BY <1>1, <1>2, <1>3 DEF StoreInv, CallerInv, SavePcs, WriteOps, SaveOps
<1>7. ~Merging /\ \A k : ~Pending(k)
  BY <1>2 DEF Merging, Pending, SavePcs
<1> QED BY <1>4, <1>5, <1>6, <1>7, CallMoves DEF NeverTorn

LEMMA EncodeStep ==
  ASSUME Serial, StoreInv, NEW t \in Thread, Encode(t) PROVE StoreInv'
<1> USE DEF Encode, disk
<1>1. pc[t] = "encode" /\ pc'[t] = "replace" /\ job'[t].img = data /\ job'[t].op = job[t].op
  BY DEF StoreInv, TypeOK, Call
<1>2. \A u \in Thread : u # t => pc[u] = "idle" /\ pc'[u] = "idle" /\ job'[u] = job[u]
  BY <1>1, OthersIdle DEF StoreInv, TypeOK
<1>3. TypeOK'
  BY DEF StoreInv, TypeOK, Pcs, SavePcs, Call
<1>4. ModeInv'
  BY <1>1, <1>2 DEF StoreInv, ModeInv, NeverTorn
<1>5. CallerInv'
  BY <1>1, <1>2 DEF StoreInv, CallerInv, SavePcs
<1>6. ~Merging /\ \A k : ~Pending(k)
  BY <1>1, <1>2 DEF Merging, Pending, SavePcs
<1> QED BY <1>3, <1>4, <1>5, <1>6, CallMoves DEF NeverTorn

LEMMA SaveFailsStep ==
  ASSUME Serial, StoreInv, NEW t \in Thread, SaveFails(t) PROVE StoreInv'
<1> USE DEF SaveFails, disk
<1>1. pc[t] = "replace" /\ pc'[t] = "done" /\ Ops \subseteq SyncOps
  BY DEF Serial, StoreInv, TypeOK
<1>2. \A u \in Thread : u # t => pc[u] = "idle" /\ pc'[u] = "idle"
  BY <1>1, OthersIdle DEF StoreInv
<1>3. faults \in Nat /\ faults' = faults + 1 /\ faults + 1 \in 0..MaxFaults
  BY BoundAssumption DEF StoreInv, TypeOK
<1>4. TypeOK'
  BY <1>3 DEF StoreInv, TypeOK, Pcs
<1>5. sync = TRUE /\ wbuf = <<>> /\ synced = Len(wal) /\ batch = FALSE
  BY <1>1 DEF StoreInv, ModeInv
<1>6. NeverTorn' => NeverTorn
  BY <1>3 DEF NeverTorn
<1>7. ModeInv'
  BY <1>1, <1>2, <1>5, <1>6 DEF StoreInv, ModeInv
<1>8. CallerInv'
  BY <1>1, <1>2, <1>5 DEF StoreInv, CallerInv, SavePcs
<1>9. ~Merging /\ \A k : ~Pending(k)
  BY <1>1, <1>2, <1>5 DEF Merging, Pending
<1> QED BY <1>4, <1>6, <1>7, <1>8, <1>9, CallMoves

LEMMA BeginBatchStep ==
  ASSUME Serial, StoreInv, NEW t \in Thread, BeginBatch(t) PROVE StoreInv'
<1> USE DEF BeginBatch, disk
<1>1. OneThread /\ ~(Ops \subseteq SyncOps)
  BY DEF Serial, SyncOps
<1>2. \A u \in Thread : pc[u] = "idle"
  BY <1>1 DEF OneThread
<1>3. TypeOK'
  BY DEF StoreInv, TypeOK
<1>4. ModeInv'
  BY <1>1, <1>2 DEF StoreInv, ModeInv, NeverTorn
<1>5. CallerInv'
  BY <1>2 DEF StoreInv, CallerInv, SavePcs
<1>6. ~Merging /\ \A k : ~Pending(k)
  BY <1>2 DEF Merging, Pending, SavePcs
<1> QED BY <1>3, <1>4, <1>5, <1>6, CallMoves DEF NeverTorn

LEMMA EndBatchStep ==
  ASSUME Serial, StoreInv, NEW t \in Thread, EndBatch(t) PROVE StoreInv'
<1> USE DEF EndBatch, disk
<1>1. sync = FALSE /\ ~(Ops \subseteq SyncOps) /\ OneThread
  BY DEF Serial, StoreInv, TypeOK, ModeInv
<1>2. \A u \in Thread : pc[u] = "idle"
  BY <1>1 DEF OneThread
<1>3. /\ pc'[t] = "endsync" /\ job'[t].op = "batch"
      /\ \A u \in Thread : u = t
  BY <1>1 DEF StoreInv, TypeOK, Call, OneThread
<1>4. TypeOK'
  BY DEF StoreInv, TypeOK, Pcs, Call, AllOps
<1>5. ModeInv'
  BY <1>1, <1>3 DEF StoreInv, ModeInv, NeverTorn
<1>6. CallerInv'
  BY <1>1, <1>3 DEF StoreInv, CallerInv, SavePcs, WriteOps, SaveOps
<1>7. ~Merging /\ \A k : ~Pending(k)
  BY <1>2 DEF Merging, Pending, SavePcs
<1> QED BY <1>4, <1>5, <1>6, <1>7, CallMoves DEF NeverTorn

-----------------------------------------------------------------------------
(* The steps of a save.                                                    *)

LEMMA EndBatchSyncStep ==
  ASSUME Serial, StoreInv, NEW t \in Thread, EndBatchSync(t) PROVE StoreInv'
<1> USE DEF EndBatchSync
<1>1. sync = FALSE /\ ~(Ops \subseteq SyncOps) /\ OneThread /\ batch = FALSE
  BY DEF Serial, StoreInv, TypeOK, ModeInv, CallerInv
<1>2. pc[t] = "endsync" /\ pc'[t] = "encode" /\ job[t].op = "batch" /\ \A u \in Thread : u = t
  BY <1>1 DEF StoreInv, TypeOK, CallerInv, OneThread
<1>3. Len(wal) \in Nat /\ synced \in 0..Len(wal) /\ 1..synced \subseteq 1..synced'
  BY LenProperties DEF StoreInv, TypeOK
<1>4. TypeOK'
  BY <1>3 DEF StoreInv, TypeOK, Pcs
<1>5. ModeInv'
  BY <1>1, <1>2 DEF StoreInv, ModeInv, NeverTorn
<1>6. CallerInv'
  BY <1>1, <1>2 DEF StoreInv, CallerInv, SavePcs
<1>7. /\ \A k : Latest(snap, Logged, k)' = Latest(snap, Logged, k)
      /\ \A k : Touches(Logged, k)' = Touches(Logged, k)
  BY DEF Logged, Latest, Touches
<1>8. ~Merging /\ \A k : ~Pending(k)
  BY <1>1, <1>2 DEF Merging, Pending
<1>9. ASSUME NEW k \in Key, LogOf(k) PROVE LogOf(k)'
  BY <1>3, <1>7, <1>8, <1>9 DEF LogOf, SameContents
<1>10. LogInv'
  BY <1>9 DEF StoreInv, LogInv
<1>11. PromInv'
  BY DEF StoreInv, PromInv, SameContents, NeverTorn
<1> QED BY <1>4, <1>5, <1>6, <1>10, <1>11 DEF StoreInv

\* Outside batch mode _merge_from_disk finds what memory has.
LEMMA MergeIsNoOp ==
  ASSUME Serial, StoreInv, NEW t \in Thread, FlushOneSaves(t), torn = FALSE, batch = FALSE
  PROVE  data' = data
<1>1. pc[t] = "flush" /\ \A u \in Thread : u # t => pc[u] = "idle"
  BY OthersIdle DEF FlushOneSaves, StoreInv
<1>2. sync = TRUE /\ wbuf = <<>>
  BY <1>1 DEF StoreInv, ModeInv
<1>3. wal \in Seq(Entry) /\ synced \in 0..Len(wal) /\ Len(wal) \in Nat /\ data \in Map /\ snap \in Map
  BY LenProperties DEF StoreInv, TypeOK
<1>4. Logged = wal
  BY <1>2, <1>3, ConcatEmptySeq DEF Logged
<1>5. SubSeq(wal, 1, Len(wal)) = wal
  BY <1>3, SubSeqFull
<1>6. LoadAt(Len(wal)) \in Map /\
      \A k \in Key : SameContents(LoadAt(Len(wal))[k], Latest(snap, Logged, k))
  BY <1>3, <1>4, <1>5, ReplayIsLatest DEF LoadAt, ReadAll
<1>7. \A k \in Key : SameContents(Latest(snap, Logged, k), data[k])
  BY <1>1 DEF StoreInv, LogInv, LogOf, Pending, Merging
<1>8. \A k \in Key : data[k] = NoRec => LoadAt(Len(wal))[k] = NoRec
  BY <1>6, <1>7 DEF SameContents
<1>9. data' = [k \in Key |-> IF data[k] = NoRec THEN LoadAt(Len(wal))[k] ELSE data[k]]
  BY DEF FlushOneSaves
<1> QED BY <1>3, <1>8, <1>9 DEF Map

LEMMA FlushOneSavesStep ==
  ASSUME Serial, StoreInv, NEW t \in Thread, FlushOneSaves(t) PROVE StoreInv'
<1> USE DEF disk
<1>1. PICK found : found = LoadAt(Len(wal))
  OBVIOUS
<1>2. PICK merged : merged = [k \in Key |-> IF data[k] = NoRec THEN found[k] ELSE data[k]]
  OBVIOUS
<1>3. /\ data' = merged
      /\ job' = [job EXCEPT ![t].img = merged]
      /\ pc[t] = "flush" /\ pc' = [pc EXCEPT ![t] = "replace"]
      /\ batch => job[t].op = "delete_many"
      /\ UNCHANGED <<known, wbuf, sync, batch, snap, hasSnap, wal, synced, torn, lock, faults,
                     restarts, used, prom>>
  BY <1>1, <1>2 DEF FlushOneSaves
<1>4. Len(wal) \in synced..Len(wal) /\ found \in Map
  <2>1. wal \in Seq(Entry) /\ snap \in Map /\ synced \in 0..Len(wal) /\ Len(wal) \in Nat
    BY LenProperties DEF StoreInv, TypeOK
  <2>2. Len(wal) \in synced..Len(wal)
    BY <2>1
  <2> QED BY <1>1, <2>2, FoundAt DEF StoreInv, ModeInv
<1>5. merged \in Map /\ data \in Map
  BY <1>2, <1>4 DEF StoreInv, TypeOK, Map
<1>6. /\ pc'[t] = "replace" /\ job'[t].img = merged /\ job'[t].op = job[t].op
      /\ \A u \in Thread : u # t => pc[u] = "idle" /\ pc'[u] = "idle" /\ job'[u] = job[u]
  BY <1>3, OthersIdle DEF StoreInv, TypeOK, Call
<1>7. TypeOK'
  BY <1>3, <1>5 DEF StoreInv, TypeOK, Pcs, SavePcs, Call
<1>8. ModeInv'
  BY <1>3, <1>6 DEF StoreInv, ModeInv, NeverTorn
<1>9. CallerInv'
  BY <1>3, <1>6 DEF StoreInv, CallerInv, SavePcs
<1>10. ~Merging /\ \A k : ~Pending(k)
  BY <1>3, <1>6 DEF Merging, Pending, SavePcs
<1>11. torn = FALSE => \A k \in Key : prom[k] # NoPromise => SameContents(found[k], data[k])
  BY <1>1, <1>4, FoundIsMemory
<1>12. ASSUME torn = FALSE, NEW k \in Key PROVE LogOf(k)'
  <2>1. /\ Latest(snap, Logged, k)' = Latest(snap, Logged, k)
        /\ Touches(Logged, k)' = Touches(Logged, k)
    BY <1>3 DEF Logged, Latest, Touches
  <2>2. LogOf(k)
    BY <1>12 DEF StoreInv, LogInv
  <2>3. SameContents(Latest(snap, Logged, k), data[k])
    BY <1>10, <2>2 DEF LogOf
  <2>4. prom[k] # NoPromise => Touches(Logged, k) \subseteq 1..synced
    BY <2>2 DEF LogOf
  <2>5. prom[k] # NoPromise => data'[k] = data[k]
    BY <1>2, <1>3, <1>11, <1>12 DEF SameContents
  <2>6. batch = FALSE => data'[k] = data[k]
    BY <1>12, MergeIsNoOp
  <2>7. batch = TRUE => Merging'
    BY <1>3, <1>6 DEF Merging, SavePcs
  <2>8. batch \in BOOLEAN
    BY DEF StoreInv, TypeOK
  <2>9. (Merging' => prom[k] # NoPromise) => SameContents(Latest(snap, Logged, k), data'[k])
    BY <2>3, <2>5, <2>6, <2>7, <2>8
  <2> QED BY <1>3, <2>1, <2>4, <2>9 DEF LogOf, SameContents
<1>13. LogInv'
  BY <1>3, <1>12 DEF LogInv
<1>14. PromInv'
  <2> SUFFICES ASSUME NEW k \in Key
               PROVE  /\ (restarts <= 1 \/ NeverTorn) /\ prom[k] \in Rec
                           => SameContents(prom[k], data'[k])
                      /\ NeverTorn /\ prom[k] = NoRec => data'[k] = NoRec
    BY <1>3 DEF PromInv, SameContents, NeverTorn
  <2>1. /\ (restarts <= 1 \/ NeverTorn) /\ prom[k] \in Rec => SameContents(prom[k], data[k])
        /\ NeverTorn /\ prom[k] = NoRec => data[k] = NoRec
    BY DEF StoreInv, PromInv
  <2>2. prom[k] \in Rec /\ SameContents(prom[k], data[k]) => data'[k] = data[k]
    BY <1>2, <1>3, NoRecAssumption DEF SameContents
  <2>3. NeverTorn /\ prom[k] = NoRec => found[k] = NoRec
    BY <1>11, <2>1, NoRecAssumption DEF SameContents, StoreInv, ModeInv
  <2> QED BY <1>2, <1>3, <2>1, <2>2, <2>3
<1> QED BY <1>7, <1>8, <1>9, <1>13, <1>14 DEF StoreInv

\* The old log on top of the new snapshot: its last records repeat what is in memory.
LEMMA ReplaceStep ==
  ASSUME Serial, StoreInv, NEW t \in Thread, Replace(t) PROVE StoreInv'
<1> USE DEF Replace
<1>1. pc[t] = "replace" /\ pc'[t] = "rotate" /\ job[t].img = data /\ snap' = data
  BY DEF StoreInv, TypeOK, CallerInv, SavePcs
<1>2. \A u \in Thread : u # t => pc[u] = "idle" /\ pc'[u] = "idle"
  BY <1>1, OthersIdle DEF StoreInv
<1>3. TypeOK'
  BY <1>1 DEF StoreInv, TypeOK, Pcs, SavePcs
<1>4. ModeInv'
  BY <1>1, <1>2 DEF StoreInv, ModeInv, NeverTorn
<1>5. CallerInv'
  BY <1>1, <1>2 DEF StoreInv, CallerInv, SavePcs
<1>6. ASSUME NEW k \in Key, LogOf(k) PROVE LogOf(k)'
  <2>1. Touches(Logged, k)' = Touches(Logged, k)
    BY DEF Logged, Touches
  <2>2. Latest(snap, Logged, k)' = Latest(data, Logged, k)
    BY <1>1, <2>1 DEF Latest, Logged
  <2>3. ~Pending(k) /\ (Merging' = Merging)
    BY <1>1, <1>2 DEF Pending, Merging, SavePcs
  <2>4. CASE Touches(Logged, k) = {}
    <3>1. Latest(data, Logged, k) = data[k]
      BY <2>4 DEF Latest
    <3> QED BY <1>6, <2>1, <2>2, <3>1 DEF LogOf, SameContents
  <2>5. CASE Touches(Logged, k) # {}
    <3>1. Latest(data, Logged, k) = Latest(snap, Logged, k)
      BY <2>5 DEF Latest
    <3> QED BY <1>6, <2>1, <2>2, <2>3, <3>1 DEF LogOf, SameContents
  <2> QED BY <2>4, <2>5
<1>7. LogInv'
  BY <1>6 DEF StoreInv, LogInv
<1>8. PromInv'
  BY DEF StoreInv, PromInv, SameContents, NeverTorn
<1> QED BY <1>3, <1>4, <1>5, <1>7, <1>8 DEF StoreInv

LEMMA RotateFlushStep ==
  ASSUME Serial, StoreInv, NEW t \in Thread, RotateFlush(t) PROVE StoreInv'
<1> USE DEF RotateFlush, FlushBuffer
<1>1. pc[t] = "rotate" /\ pc'[t] = "remove" /\ wbuf' = <<>>
  BY DEF StoreInv, TypeOK
<1>2. \A u \in Thread : u # t => pc[u] = "idle" /\ pc'[u] = "idle"
  BY <1>1, OthersIdle DEF StoreInv
<1>3. /\ wal \in Seq(Entry) /\ wbuf \in Seq(Entry) /\ synced \in 0..Len(wal)
      /\ wal \o wbuf \in Seq(Entry) /\ Len(wal) <= Len(wal \o wbuf)
  BY LoggedType DEF StoreInv, TypeOK
<1>4. wal' \in Seq(Entry) /\ Len(wal) <= Len(wal') /\ Len(wal') \in Nat /\ Len(wal) \in Nat
  <2>1. wal' \in Seq(Entry) /\ (wal' = wal \/ wal' = wal \o wbuf)
    BY <1>3
  <2>2. Len(wal) \in Nat /\ Len(wal') \in Nat
    BY <1>3, <2>1, LenProperties
  <2> QED BY <1>3, <2>1, <2>2
<1>5. torn = FALSE => Logged' = Logged
  BY <1>4, ConcatEmptySeq DEF Logged
<1>6. wbuf = <<>> => wal' = wal
  BY <1>3, ConcatEmptySeq
<1>7. TypeOK'
  <2>1. synced' \in 0..Len(wal') /\ <<>> \in Seq(Entry)
    BY <1>3, <1>4, EmptySeq
  <2> QED BY <1>1, <1>4, <2>1 DEF StoreInv, TypeOK, Pcs, SavePcs
<1> HIDE DEF RotateFlush, FlushBuffer
<1>8. /\ pc' = [pc EXCEPT ![t] = "remove"]
      /\ UNCHANGED <<data, known, sync, batch, snap, hasSnap, torn, lock, job, faults, restarts,
                     used, prom, synced>>
  BY DEF RotateFlush, FlushBuffer
<1>9. ModeInv'
  BY <1>1, <1>2, <1>6, <1>8 DEF StoreInv, ModeInv, NeverTorn
<1>10. CallerInv'
  BY <1>1, <1>2, <1>8 DEF StoreInv, CallerInv, SavePcs
<1>11. ASSUME torn = FALSE, NEW k \in Key, LogOf(k) PROVE LogOf(k)'
  <2>1. Touches(Logged, k)' = Touches(Logged, k) /\ Latest(snap, Logged, k)' = Latest(snap, Logged, k)
    BY <1>5, <1>8, <1>11 DEF Touches, Latest
  <2>2. ~Pending(k) /\ (Merging' = Merging)
    BY <1>1, <1>2, <1>8 DEF Pending, Merging, SavePcs
  <2> QED BY <1>8, <1>11, <2>1, <2>2 DEF LogOf, SameContents
<1>12. LogInv'
  BY <1>8, <1>11 DEF StoreInv, LogInv
<1>13. PromInv'
  BY <1>8 DEF StoreInv, PromInv, SameContents, NeverTorn
<1> QED BY <1>7, <1>9, <1>10, <1>12, <1>13 DEF StoreInv

LEMMA RotateRemoveStep ==
  ASSUME Serial, StoreInv, NEW t \in Thread, RotateRemove(t) PROVE StoreInv'
<1> USE DEF RotateRemove
<1>1. pc[t] = "remove" /\ pc'[t] = "done" /\ wbuf = <<>> /\ snap = data
  BY DEF StoreInv, TypeOK, CallerInv
<1>2. \A u \in Thread : u # t => pc[u] = "idle" /\ pc'[u] = "idle"
  BY <1>1, OthersIdle DEF StoreInv
<1>3. <<>> \in Seq(Entry) /\ Len(<<>>) = 0
  BY EmptySeq
<1>4. Logged' = <<>>
  BY <1>1, <1>3, ConcatEmptySeq DEF Logged
<1>5. TypeOK'
  <2>1. wal' \in Seq(Entry) /\ torn' \in BOOLEAN /\ synced' = 0 /\ Len(wal') = 0
    BY <1>3
  <2>2. pc' \in [Thread -> Pcs]
    BY DEF StoreInv, TypeOK, Pcs
  <2>3. synced' \in 0..Len(wal')
    <3> HIDE DEF RotateRemove
    <3> QED BY <2>1
  <2> QED BY <2>1, <2>2, <2>3 DEF StoreInv, TypeOK
<1>6. ModeInv'
  BY <1>1, <1>2, <1>3 DEF StoreInv, ModeInv, NeverTorn
<1>7. CallerInv'
  BY <1>1, <1>2, <1>3 DEF StoreInv, CallerInv, SavePcs
<1>8. ASSUME NEW k \in Key PROVE LogOf(k)'
  <2>1. Touches(Logged, k)' = {} /\ Latest(snap, Logged, k)' = snap[k]
    BY <1>4, EmptyLog DEF Touches, Latest
  <2> QED BY <1>1, <2>1 DEF LogOf, SameContents
<1>9. LogInv'
  BY <1>8 DEF LogInv
<1>10. PromInv'
  BY DEF StoreInv, PromInv, SameContents, NeverTorn
<1> QED BY <1>5, <1>6, <1>7, <1>9, <1>10 DEF StoreInv

-----------------------------------------------------------------------------
(* The end of a call, and of the process.                                  *)

\* At the end of a call that promises the saved records there is nothing in the buffer and
\* nothing behind the last fsync.
LEMMA ReturnStep ==
  ASSUME Serial, StoreInv, NEW t \in Thread, Return(t) PROVE StoreInv'
<1> USE DEF disk
<1>1. /\ pc[t] = "done"
      /\ prom' = Promised(t)
      /\ lock' = (IF lock = t THEN NoThread ELSE lock)
      /\ pc' = [pc EXCEPT ![t] = "idle"]
      /\ job' = [job EXCEPT ![t] = Idle]
      /\ UNCHANGED <<data, known, wbuf, sync, batch, disk, faults, restarts, used>>
  BY DEF Return
<1>2. /\ pc'[t] = "idle" /\ job'[t].op = "none"
      /\ \A u \in Thread : u # t => pc[u] = "idle" /\ pc'[u] = "idle" /\ job'[u] = job[u]
  BY <1>1, OthersIdle DEF StoreInv, TypeOK, Idle
<1>3. \A k \in Key : \/ prom'[k] = prom[k]
                     \/ /\ prom'[k] = data[k]
                        /\ job[t].op \in SaveOps
  BY <1>1 DEF Promised, SaveOps
<1>4. TypeOK'
  <2>1. Idle \in Call
    BY DEF Idle, Call, Empty, Map
  <2>2. job' \in [Thread -> Call] /\ pc' \in [Thread -> Pcs] /\ lock' \in Thread \cup {NoThread}
    BY <1>1, <2>1 DEF StoreInv, TypeOK, Pcs
  <2>3. prom' \in [Key -> Rec \cup {NoRec, NoPromise}]
    BY <1>1 DEF StoreInv, TypeOK, Promised, Map
  <2> QED BY <1>1, <2>2, <2>3 DEF StoreInv, TypeOK
<1>5. ModeInv'
  BY <1>1, <1>2 DEF StoreInv, ModeInv, NeverTorn
<1>6. CallerInv'
  BY <1>1, <1>2 DEF StoreInv, CallerInv, SavePcs
<1>7. ~Merging /\ \A k : ~Pending(k)
  BY <1>1, <1>2 DEF Merging, Pending, SavePcs
<1>8. job[t].op \in SaveOps => \A k : Touches(Logged, k) \subseteq 1..synced
  <2>1. job[t].op \in SaveOps => wbuf = <<>> /\ synced = Len(wal)
    BY <1>1 DEF StoreInv, CallerInv
  <2>2. wal \in Seq(Entry)
    BY DEF StoreInv, TypeOK
  <2>3. wbuf = <<>> => Logged = wal
    BY <2>2, ConcatEmptySeq DEF Logged
  <2> QED BY <2>1, <2>2, <2>3, TouchesType
<1>9. ASSUME NEW k \in Key, LogOf(k) PROVE LogOf(k)'
  <2>1. Touches(Logged, k)' = Touches(Logged, k) /\ Latest(snap, Logged, k)' = Latest(snap, Logged, k)
    BY <1>1 DEF Touches, Latest, Logged
  <2>2. prom'[k] # NoPromise => Touches(Logged, k) \subseteq 1..synced
    BY <1>3, <1>8, <1>9 DEF LogOf
  <2> QED BY <1>1, <1>7, <1>9, <2>1, <2>2 DEF LogOf, SameContents
<1>10. LogInv'
  BY <1>1, <1>9 DEF StoreInv, LogInv
<1>11. PromInv'
  <2> SUFFICES ASSUME NEW k \in Key
               PROVE  /\ (restarts <= 1 \/ NeverTorn) /\ prom'[k] \in Rec
                           => SameContents(prom'[k], data[k])
                      /\ NeverTorn /\ prom'[k] = NoRec => data[k] = NoRec
    BY <1>1 DEF PromInv, SameContents, NeverTorn
  <2> QED BY <1>3 DEF StoreInv, PromInv, SameContents
<1> QED BY <1>4, <1>5, <1>6, <1>10, <1>11 DEF StoreInv

\* A restart reads back what is left of the log.
LEMMA RestartStep ==
  ASSUME StoreInv, Restart, snap' = snap, hasSnap' = hasSnap,
         wal' \in Seq(Entry), synced' \in 0..Len(wal'), torn' \in BOOLEAN,
         faults' \in 0..MaxFaults, used' \subseteq Key,
         prom' \in [Key -> Rec \cup {NoRec, NoPromise}],
         NeverTorn' => torn' = FALSE,
         Ops \subseteq SyncOps => synced' = Len(wal'),
         torn' = FALSE => \A k \in Key : prom'[k] # NoPromise => Touches(wal', k) \subseteq 1..synced',
         PromInv'
  PROVE  StoreInv'
<1> USE DEF Restart
<1>1. data' = ApplyWal(snap, wal') /\ data' \in Map /\ known' = TRUE /\ hasSnap' = TRUE
  BY ReplayIsLatest DEF StoreInv, TypeOK, ModeInv
<1>2. restarts' \in 0..MaxRestarts /\ restarts' # 0
  BY BoundAssumption DEF StoreInv, TypeOK
<1>3. <<>> \in Seq(Entry) /\ wbuf' = <<>> /\ Logged' = wal'
  BY EmptySeq, ConcatEmptySeq DEF Logged
<1>4. TypeOK'
  <2>1. Idle \in Call
    BY DEF Idle, Call, Empty, Map
  <2>2. job' \in [Thread -> Call] /\ pc' \in [Thread -> Pcs]
    BY <2>1 DEF Pcs
  <2> QED BY <1>1, <1>2, <1>3, <2>2 DEF StoreInv, TypeOK
<1>5. \A u \in Thread : pc'[u] = "idle" /\ job'[u].op = "none"
  BY DEF Idle
<1>6. ModeInv'
  BY <1>1, <1>2, <1>3, <1>5 DEF ModeInv
<1>7. CallerInv'
  BY <1>5 DEF CallerInv, SavePcs
<1>8. LogInv'
  <2> SUFFICES ASSUME torn' = FALSE, NEW k \in Key PROVE LogOf(k)'
    BY DEF LogInv
  <2>1. SameContents(data'[k], Latest(snap, wal', k))
    BY <1>1, ReplayIsLatest DEF StoreInv, TypeOK
  <2>2. Touches(Logged, k)' = Touches(wal', k) /\ Latest(snap, Logged, k)' = Latest(snap, wal', k)
    BY <1>3 DEF Touches, Latest
  <2> QED BY <2>1, <2>2 DEF LogOf, SameContents
<1> QED BY <1>4, <1>6, <1>7, <1>8 DEF StoreInv

LEMMA CloseAllStep ==
  ASSUME Serial, StoreInv, NEW t \in Thread, CloseAll(t) PROVE StoreInv'
<1>1. /\ pc[t] = "done" /\ job[t].op = "close"
      /\ wal' = (IF torn THEN wal ELSE wal \o wbuf) /\ synced' = Len(wal')
      /\ prom' = [k \in Key |-> IF known THEN data[k] ELSE prom[k]]
      /\ Restart
      /\ UNCHANGED <<snap, hasSnap, torn, faults, used>>
  BY DEF CloseAll
<1>2. wbuf = <<>>
  BY <1>1 DEF StoreInv, CallerInv, SaveOps
<1>3. wal \in Seq(Entry) /\ wal' = wal /\ synced' = Len(wal) /\ Logged = wal /\ Len(wal) \in Nat
  BY <1>1, <1>2, ConcatEmptySeq, LenProperties DEF StoreInv, TypeOK, Logged
<1>4. data \in Map /\ \A k \in Key : prom'[k] = data[k]
  BY <1>1 DEF StoreInv, TypeOK, ModeInv
<1>5. \A k \in Key : Touches(wal', k) \subseteq 1..synced'
  BY <1>3, TouchesType
<1>6. NeverTorn' => NeverTorn /\ torn = FALSE
  BY <1>1 DEF NeverTorn, StoreInv, ModeInv
<1>7. restarts' <= 1 => torn = FALSE
  <2>1. restarts' = restarts + 1 /\ restarts \in Nat
    BY <1>1, BoundAssumption DEF Restart, StoreInv, TypeOK
  <2>2. restarts' <= 1 => restarts = 0
    BY <2>1
  <2> QED BY <2>2 DEF StoreInv, ModeInv
<1>8. ~Merging /\ \A k : ~Pending(k)
  <2>1. \A u \in Thread : u # t => pc[u] = "idle"
    BY <1>1, OthersIdle DEF StoreInv
  <2> QED BY <1>1, <2>1 DEF Merging, Pending, SavePcs
<1>9. ASSUME torn = FALSE, NEW k \in Key PROVE SameContents(data[k], data'[k])
  <2>1. SameContents(Latest(snap, wal, k), data[k])
    BY <1>3, <1>8, <1>9 DEF StoreInv, LogInv, LogOf
  <2>2. data' = ApplyWal(snap, wal)
    BY <1>1, <1>3 DEF Restart, StoreInv, ModeInv
  <2>3. SameContents(data'[k], Latest(snap, wal, k))
    BY <1>3, <2>2, ReplayIsLatest DEF StoreInv, TypeOK
  <2> QED BY <2>1, <2>3 DEF SameContents
<1>10. PromInv'
  <2> SUFFICES ASSUME NEW k \in Key
               PROVE  /\ (restarts' <= 1 \/ NeverTorn') /\ prom'[k] \in Rec
                           => SameContents(prom'[k], data'[k])
                      /\ NeverTorn' /\ prom'[k] = NoRec => data'[k] = NoRec
    BY DEF PromInv, SameContents
  <2> QED BY <1>4, <1>6, <1>7, <1>9 DEF SameContents
<1>11. prom' \in [Key -> Rec \cup {NoRec, NoPromise}]
  BY <1>1 DEF StoreInv, TypeOK, Map
<1>12. synced' \in 0..Len(wal') /\ wal' \in Seq(Entry)
  BY <1>3
<1>13. /\ torn' = torn /\ torn' \in BOOLEAN /\ faults' \in 0..MaxFaults /\ used' \subseteq Key
       /\ snap' = snap /\ hasSnap' = hasSnap
  BY <1>1 DEF StoreInv, TypeOK
<1> QED BY <1>1, <1>3, <1>5, <1>6, <1>10, <1>11, <1>12, <1>13, RestartStep

LEMMA CrashStep ==
  ASSUME Serial, StoreInv, Crash PROVE StoreInv'
<1>1. PICK n \in synced..Len(wal), tear \in BOOLEAN :
        /\ wal' = SubSeq(wal, 1, n)
        /\ tear = TRUE => "tear" \in Faults /\ faults < MaxFaults
        /\ torn' = (torn \/ tear)
        /\ faults' = IF tear THEN faults + 1 ELSE faults
        /\ Restart
        /\ UNCHANGED <<snap, hasSnap, synced, used, prom>>
  BY DEF Crash, MayFail
<1>2. /\ wal \in Seq(Entry) /\ synced \in 0..Len(wal) /\ Len(wal) \in Nat
      /\ faults \in 0..MaxFaults /\ restarts \in Nat
  BY BoundAssumption, LenProperties DEF StoreInv, TypeOK
<1>3. n \in 0..Len(wal) /\ synced <= n
  BY <1>2
<1>4. wal' \in Seq(Entry) /\ Len(wal') = n
  BY <1>1, <1>2, <1>3, PrefixType
<1>5. synced' \in 0..Len(wal')
  BY <1>1, <1>2, <1>3, <1>4
<1>6. faults' \in 0..MaxFaults /\ (NeverTorn' => NeverTorn /\ tear = FALSE)
  BY <1>1, <1>2, BoundAssumption DEF NeverTorn
<1>7. NeverTorn' => torn = FALSE /\ torn' = FALSE
  BY <1>1, <1>6 DEF StoreInv, ModeInv
<1>8. Ops \subseteq SyncOps => synced' = Len(wal')
  BY <1>1, <1>2, <1>3, <1>4 DEF StoreInv, ModeInv
<1>9. /\ RecoveredAt(n) = LoadAt(n) /\ data' = LoadAt(n)
      /\ \A k \in Key : Touches(Logged, k) \subseteq 1..synced => Touches(wal', k) = Touches(Logged, k)
  BY <1>1, FoundAt DEF StoreInv, ModeInv, Restart
<1>10. ASSUME torn = FALSE, NEW k \in Key, prom[k] # NoPromise
       PROVE  Touches(wal', k) \subseteq 1..synced' /\ SameContents(data'[k], data[k])
  <2>1. SameContents(data'[k], data[k])
    BY <1>9, <1>10, FoundIsMemory
  <2>2. LogOf(k)
    BY <1>10 DEF StoreInv, LogInv
  <2> QED BY <1>1, <1>9, <1>10, <2>1, <2>2 DEF LogOf
<1>11. restarts' <= 1 => torn = FALSE /\ restarts <= 1
  <2>1. restarts' = restarts + 1
    BY <1>1 DEF Restart
  <2>2. restarts' <= 1 => restarts = 0
    BY <1>2, <2>1
  <2> QED BY <2>2 DEF StoreInv, ModeInv
<1>12. PromInv'
  <2> SUFFICES ASSUME NEW k \in Key
               PROVE  /\ (restarts' <= 1 \/ NeverTorn') /\ prom[k] \in Rec
                           => SameContents(prom[k], data'[k])
                      /\ NeverTorn' /\ prom[k] = NoRec => data'[k] = NoRec
    BY <1>1 DEF PromInv, SameContents
  <2>1. /\ (restarts <= 1 \/ NeverTorn) /\ prom[k] \in Rec => SameContents(prom[k], data[k])
        /\ NeverTorn /\ prom[k] = NoRec => data[k] = NoRec
    BY DEF StoreInv, PromInv
  <2>2. torn = FALSE /\ prom[k] # NoPromise => SameContents(data'[k], data[k])
    BY <1>10
  <2> QED BY <1>6, <1>7, <1>11, <2>1, <2>2, NoRecAssumption DEF SameContents
<1>13. /\ torn' \in BOOLEAN /\ used' \subseteq Key /\ snap' = snap /\ hasSnap' = hasSnap
       /\ prom' \in [Key -> Rec \cup {NoRec, NoPromise}] /\ (torn' = FALSE => torn = FALSE)
       /\ prom' = prom /\ Restart
  BY <1>1 DEF StoreInv, TypeOK
<1> QED BY <1>4, <1>5, <1>6, <1>7, <1>8, <1>10, <1>12, <1>13, RestartStep

-----------------------------------------------------------------------------
(* All steps.                                                              *)

LEMMA InsertStep ==
  ASSUME Serial, StoreInv, NEW t \in Thread, Insert(t) PROVE StoreInv'
<1>1. PICK k \in Key \ used, v \in Val :
        /\ Write(t, "insert", [op |-> "insert", key |-> k, rec |-> [val |-> v, ver |-> 1]])
        /\ used' = used \cup {k}
  BY DEF Insert
<1>2. PICK e : e = [op |-> "insert", key |-> k, rec |-> [val |-> v, ver |-> 1]]
  OBVIOUS
<1>3. e \in Entry
  BY <1>2 DEF Entry, Rec
<1>4. used' \subseteq Key
  BY <1>1 DEF StoreInv, TypeOK
<1> QED BY <1>1, <1>2, <1>3, <1>4, WriteStep DEF WriteOps

LEMMA UpdateStep ==
  ASSUME Serial, StoreInv, NEW t \in Thread, Update(t) PROVE StoreInv'
<1>1. PICK k \in Key, v \in Val :
        /\ data[k] # NoRec
        /\ Write(t, "update", [op |-> "update", key |-> k,
                               rec |-> [val |-> v, ver |-> data[k].ver + 1]])
  BY DEF Update
<1>2. PICK e : e = [op |-> "update", key |-> k, rec |-> [val |-> v, ver |-> data[k].ver + 1]]
  OBVIOUS
<1>3. data[k] \in Rec
  BY <1>1 DEF StoreInv, TypeOK, Map
<1>4. e \in Entry
  BY <1>2, <1>3 DEF Entry, Rec
<1>5. used' \subseteq Key
  BY DEF Update, StoreInv, TypeOK
<1> QED BY <1>1, <1>2, <1>4, <1>5, WriteStep DEF WriteOps

LEMMA DeleteStep ==
  ASSUME Serial, StoreInv, NEW t \in Thread, Delete(t) PROVE StoreInv'
<1>1. PICK k \in Key, o \in {"delete", "delete_many"} :
        Write(t, o, [op |-> "delete", key |-> k, rec |-> NoRec])
  BY DEF Delete
<1>2. PICK e : e = [op |-> "delete", key |-> k, rec |-> NoRec]
  OBVIOUS
<1>3. e \in Entry
  BY <1>2 DEF Entry
<1>4. used' \subseteq Key
  BY DEF Delete, StoreInv, TypeOK
<1> QED BY <1>1, <1>2, <1>3, <1>4, WriteStep DEF WriteOps

\* The collection is never dropped, so _flush_all always saves it.
LEMMA NeverDropped ==
  ASSUME Serial, StoreInv, NEW t \in Thread
  PROVE  ~NothingToSave(t) /\ ~Drop(t) /\ ~DropSnap(t) /\ ~DropWal(t)
<1>1. known = TRUE /\ pc[t] \notin {"dropsnap", "dropwal"}
  BY DEF StoreInv, ModeInv, CallerInv, SavePcs
<1>2. "drop" \notin Ops
  BY DEF Serial, SyncOps
<1> QED BY <1>1, <1>2 DEF NothingToSave, Drop, DropSnap, DropWal

LEMMA StoreInvStutter == ASSUME StoreInv, UNCHANGED vars PROVE StoreInv'
<1> USE DEF vars, disk
<1>1. TypeOK' /\ ModeInv'
  BY DEF StoreInv, TypeOK, ModeInv, NeverTorn
<1>2. CallerInv'
  BY DEF StoreInv, CallerInv
<1>3. NeverTorn' = NeverTorn /\ Merging' = Merging /\ \A k : Pending(k)' = Pending(k)
  BY DEF NeverTorn, Merging, Pending
<1> QED BY <1>1, <1>2, <1>3, CallMoves

LEMMA StoreInvNext == ASSUME Serial, StoreInv, [Next]_vars PROVE StoreInv'
<1>1. ASSUME NEW t \in Thread, Client(t) PROVE StoreInv'
  BY <1>1, InsertStep, UpdateStep, DeleteStep, LogStep, FlushOneSkipsStep DEF Client
<1>2. ASSUME NEW t \in Thread, Save(t) PROVE StoreInv'
  BY <1>2, FlushOneSavesStep, CheckpointStep, SnapshotStep, EncodeStep, ReplaceStep,
     SaveFailsStep, RotateFlushStep, RotateRemoveStep, ReturnStep, NeverDropped DEF Save
<1>3. ASSUME NEW t \in Thread, Mode(t) PROVE StoreInv'
  BY <1>3, BeginBatchStep, EndBatchStep, EndBatchSyncStep, CloseAllStep, NeverDropped DEF Mode
<1> QED BY <1>1, <1>2, <1>3, CrashStep, StoreInvStutter DEF Next

\* The inductive invariant holds in every reachable state.
THEOREM StoreInvAlways == ASSUME Serial PROVE Spec => []StoreInv
<1>1. Init => StoreInv
  BY StoreInvInit
<1>2. StoreInv /\ [Next]_vars => StoreInv'
  BY StoreInvNext
<1> QED BY <1>1, <1>2, PTL DEF Spec

\* Every variable keeps its type: the log and its buffer are sequences of whole records, and
\* the count of fsynced records stays within the log.
THEOREM TypeCorrect == ASSUME Serial PROVE Spec => []TypeOK
<1>1. StoreInv => TypeOK
  BY DEF StoreInv
<1> QED BY <1>1, StoreInvAlways, PTL

-----------------------------------------------------------------------------
(* What a restart finds.                                                   *)

LEMMA FoundIsPromised ==
  ASSUME StoreInv, torn = FALSE, NEW k \in Key, NEW n \in synced..Len(wal)
  PROVE  /\ (restarts <= 1 \/ NeverTorn) /\ prom[k] \in Rec
              => SameContents(RecoveredAt(n)[k], prom[k])
         /\ NeverTorn /\ prom[k] = NoRec => RecoveredAt(n)[k] = NoRec
<1>1. prom[k] # NoPromise => SameContents(RecoveredAt(n)[k], data[k])
  BY FoundIsMemory
<1>2. /\ (restarts <= 1 \/ NeverTorn) /\ prom[k] \in Rec => SameContents(prom[k], data[k])
      /\ NeverTorn /\ prom[k] = NoRec => data[k] = NoRec
  BY DEF StoreInv, PromInv
<1> QED BY <1>1, <1>2, NoRecAssumption DEF SameContents

LEMMA FoundWhenQuiet ==
  ASSUME Serial, StoreInv, torn = FALSE PROVE QuietDiskIsMemory
<1> SUFFICES ASSUME \A t \in Thread : pc[t] = "idle", sync = TRUE, NEW k \in Key
             PROVE  SameContents(RecoveredAt(Len(wal))[k], data[k])
  BY DEF QuietDiskIsMemory, StoreInv, TypeOK
<1>1. wbuf = <<>> /\ ~Merging /\ ~Pending(k)
  BY DEF StoreInv, ModeInv, Merging, Pending, SavePcs
<1>2. wal \in Seq(Entry) /\ synced \in 0..Len(wal) /\ Len(wal) \in Nat /\ snap \in Map
  BY LenProperties DEF StoreInv, TypeOK
<1>3. SubSeq(wal, 1, Len(wal)) = wal /\ Logged = wal
  BY <1>1, <1>2, SubSeqFull, ConcatEmptySeq DEF Logged
<1>4. RecoveredAt(Len(wal)) = ApplyWal(snap, wal)
  BY <1>3 DEF RecoveredAt, LoadAt, ReadAll, StoreInv, ModeInv
<1>5. SameContents(ApplyWal(snap, wal)[k], Latest(snap, wal, k))
  BY <1>2, ReplayIsLatest
<1>6. SameContents(Latest(snap, wal, k), data[k])
  BY <1>1, <1>3 DEF StoreInv, LogInv, LogOf
<1> QED BY <1>4, <1>5, <1>6 DEF SameContents

LEMMA PromisesHere == ASSUME Serial, StoreInv PROVE PromisesKept
<1>1. torn = FALSE /\ restarts <= 1 => NoLostWrite
  BY FoundIsPromised DEF NoLostWrite
<1>2. torn = FALSE => QuietDiskIsMemory
  BY FoundWhenQuiet
<1>3. faults = 0 => NeverTorn /\ torn = FALSE
  BY DEF NeverTorn, StoreInv, ModeInv
<1>4. NeverTorn /\ torn = FALSE => NoLostWrite /\ NoResurrection
  BY FoundIsPromised DEF NoLostWrite, NoResurrection
<1>5. torn \in BOOLEAN
  BY DEF StoreInv, TypeOK
<1> QED BY <1>1, <1>2, <1>3, <1>4, <1>5 DEF PromisesKept

\* A promised write is found, with its contents, by a restart after a crash at any point, in
\* batch mode too; an incomplete record that a crash leaves behind is what can lose one, and
\* only a second crash makes it so for good.  With no such record no promised delete is
\* undone (wal/log.py:42-129, binary_store.py:53-106, engine.py:884-905).
THEOREM PromisesAreKept == ASSUME Serial PROVE Spec => []PromisesKept
<1>1. Serial => (StoreInv => PromisesKept)
  BY PromisesHere
<1> QED BY <1>1, StoreInvAlways, PTL

\* Where crashes cut the log between two records, the promises hold throughout.
Whole == Serial /\ "tear" \notin Faults

LEMMA WholeLog ==
  ASSUME Whole, StoreInv PROVE NoLostWrite /\ NoResurrection /\ QuietDiskIsMemory
<1>1. NeverTorn /\ torn = FALSE
  BY DEF Whole, NeverTorn, StoreInv, ModeInv
<1> QED BY <1>1, FoundIsPromised, FoundWhenQuiet DEF NoLostWrite, NoResurrection, Whole

\* A write that insert, update, checkpoint, snapshot or end_batch has returned from is
\* found, with its contents, by a restart after a crash at any point, however many restarts
\* came before (wal/log.py:42-73, binary_store.py:53-106).
THEOREM WritesSurvive == ASSUME Whole PROVE Spec => []NoLostWrite
<1>1. Whole => (StoreInv => NoLostWrite) /\ Serial
  BY WholeLog DEF Whole
<1> QED BY <1>1, StoreInvAlways, PTL

\* A record whose delete has returned is not found by a restart, although the
\* log may be replayed on a snapshot it is already part of.
THEOREM DeletesSurvive == ASSUME Whole PROVE Spec => []NoResurrection
<1>1. Whole => (StoreInv => NoResurrection) /\ Serial
  BY WholeLog DEF Whole
<1> QED BY <1>1, StoreInvAlways, PTL

\* Between calls the files alone give back the contents in memory.
THEOREM FilesMatchMemory == ASSUME Whole PROVE Spec => []QuietDiskIsMemory
<1>1. Whole => (StoreInv => QuietDiskIsMemory) /\ Serial
  BY WholeLog DEF Whole
<1> QED BY <1>1, StoreInvAlways, PTL

\* The merge before an automatic snapshot (engine.py:309-321) brings no deleted record back:
\* outside batch mode it finds nothing that memory does not have.  (In batch mode
\* delete_many merges, too, and does bring a record back whose delete is in the buffer.)
THEOREM MergeKeepsDeleted ==
  ASSUME Whole, Ops \subseteq SyncOps PROVE Spec => MergeAddsOnlyUnknown
<1> DEFINE Kept == restarts' = restarts =>
                     \A k \in used : data[k] = NoRec => data'[k] = NoRec
<1>1. ASSUME StoreInv, [Next]_vars, restarts' = restarts, NEW k \in used, data[k] = NoRec
      PROVE  data'[k] = NoRec
  <2>1. data \in Map /\ k \in Key /\ restarts \in Nat
    BY <1>1, BoundAssumption DEF StoreInv, TypeOK
  <2>2. ASSUME NEW t \in Thread, Insert(t) PROVE data'[k] = NoRec
    BY <1>1, <2>1, <2>2 DEF Insert, Write, Map
  <2>3. ASSUME NEW t \in Thread, Update(t) PROVE data'[k] = NoRec
    BY <1>1, <2>1, <2>3 DEF Update, Write, Map
  <2>4. ASSUME NEW t \in Thread, Delete(t) PROVE data'[k] = NoRec
    BY <1>1, <2>1, <2>4 DEF Delete, Write, Map
  <2>5. ASSUME NEW t \in Thread, FlushOneSaves(t) PROVE data'[k] = NoRec
    <3>1. batch = FALSE /\ torn = FALSE
      BY <1>1 DEF StoreInv, ModeInv, Whole, NeverTorn
    <3> QED BY <1>1, <2>5, <3>1, MergeIsNoOp DEF Whole
  <2>6. ASSUME Restart PROVE FALSE
    <3>1. restarts' = restarts + 1
      BY <2>6 DEF Restart
    <3> QED BY <1>1, <2>1, <3>1
  <2>7. ASSUME NEW t \in Thread, Log(t) \/ FlushOneSkips(t) PROVE data'[k] = NoRec
    BY <1>1, <2>7 DEF Log, FlushOneSkips
  <2>8. ASSUME NEW t \in Thread, Save(t), ~FlushOneSaves(t) PROVE data'[k] = NoRec
    BY <1>1, <2>8 DEF Save, Checkpoint, Snapshot, Encode, NothingToSave, Replace,
                      SaveFails, RotateFlush, RotateRemove, Return
  <2>9. ASSUME NEW t \in Thread, Mode(t) PROVE data'[k] = NoRec
    BY <1>1, <2>6, <2>9, NeverDropped
       DEF Mode, BeginBatch, EndBatch, EndBatchSync, CloseAll, Whole
  <2>10. CASE UNCHANGED vars
    BY <1>1, <2>10 DEF vars
  <2>11. CASE Crash
    BY <2>6, <2>11 DEF Crash
  <2> QED BY <1>1, <2>2, <2>3, <2>4, <2>5, <2>7, <2>8, <2>9, <2>10, <2>11 DEF Next, Client
<1>2. StoreInv /\ [Next]_vars => [Kept]_vars
  BY <1>1
<1>3. Spec => []StoreInv
  BY StoreInvAlways DEF Whole
<1> QED BY <1>2, <1>3, PTL DEF Spec, MergeAddsOnlyUnknown
-----------------------------------------------------------------------------
(* Versions.  Replay counts the version of an updated record up, so a      *)
(* restart may find, and the next snapshot keep, a version one ahead.      *)

FoundVer(k) == ApplyWal(snap, Logged)[k].ver
LastVer(k) == Latest(snap, Logged, k).ver

\* Memory is between the last record and its replay; a promise is not ahead of memory, nor
\* more than one behind, nor older than the last record.
VerOf(k) ==
  data[k] # NoRec =>
    /\ ~Pending(k) /\ (Merging => prom[k] # NoPromise)
         => LastVer(k) <= data[k].ver /\ data[k].ver <= FoundVer(k)
    /\ prom[k] \in Rec =>
         /\ prom[k].ver <= data[k].ver /\ data[k].ver <= prom[k].ver + 1
         /\ Touches(Logged, k) # {} => LastVer(k) <= prom[k].ver

VerInv == \A k \in Key : VerOf(k)

LEMMA ExistedSame ==
  ASSUME NEW base, NEW w \in Seq(Entry), NEW v, NEW k, NEW i,
         Touches(v, k) = Touches(w, k), \A j \in Touches(w, k) : v[j] = w[j]
  PROVE  Existed(base, v, k, i) = Existed(base, w, k, i)
<1> DEFINE before == {j \in Touches(w, k) : j < i}
<1>1. before \in SUBSET Nat /\ Len(w) \in Nat /\ \A j \in before : j <= Len(w)
  BY TouchesType, LenProperties
<1>2. ASSUME before # {} PROVE Max(before) \in Touches(w, k)
  <2>1. PICK m \in before : \A j \in before : j <= m
    <3> HIDE DEF before
    <3> QED BY <1>1, <1>2, Greatest
  <2>2. Max(before) = m
    <3> HIDE DEF before
    <3> QED BY <1>1, <2>1, MaxIs
  <2> QED BY <2>1, <2>2
<1>3. {j \in Touches(v, k) : j < i} = before
  OBVIOUS
<1> QED BY <1>2, <1>3 DEF Existed

LEMMA ApplyPrefix ==
  ASSUME NEW base, NEW w \in Seq(Entry), NEW v \in Seq(Entry), NEW k \in Key,
         Len(v) <= Len(w), \A i \in 1..Len(v) : v[i] = w[i],
         Touches(w, k) \subseteq 1..Len(v)
  PROVE  ApplyWal(base, v)[k] = ApplyWal(base, w)[k]
<1>1. Touches(v, k) = Touches(w, k)
  BY LatestPrefix
<1>2. CASE Touches(w, k) = {}
  BY <1>1, <1>2 DEF ApplyWal
<1>3. CASE Touches(w, k) # {}
  <2>1. PICK i : i = Max(Touches(w, k))
    OBVIOUS
  <2>2. i \in Touches(w, k) /\ v[i] = w[i]
    BY <1>3, <2>1, LastTouch
  <2>3. Existed(base, v, k, i) = Existed(base, w, k, i)
    BY <1>1, ExistedSame
  <2> QED BY <1>1, <1>3, <2>1, <2>2, <2>3 DEF ApplyWal
<1> QED BY <1>2, <1>3

LEMMA ReplayVersion ==
  ASSUME NEW base \in Map, NEW w \in Seq(Entry), NEW k \in Key, Latest(base, w, k) # NoRec
  PROVE  /\ Latest(base, w, k) \in Rec /\ ApplyWal(base, w)[k] \in Rec
         /\ Latest(base, w, k).ver <= ApplyWal(base, w)[k].ver
         /\ ApplyWal(base, w)[k].ver <= Latest(base, w, k).ver + 1
         /\ Touches(w, k) = {} => ApplyWal(base, w)[k] = Latest(base, w, k)
<1>1. CASE Touches(w, k) = {}
  <2>1. ApplyWal(base, w)[k] = base[k] /\ Latest(base, w, k) = base[k] /\ base[k] \in Rec
    BY <1>1 DEF ApplyWal, Latest, Map
  <2>2. base[k].ver \in Nat
    BY <2>1 DEF Rec
  <2> QED BY <2>1, <2>2
<1>2. CASE Touches(w, k) # {}
  <2>1. PICK i : i = Max(Touches(w, k))
    OBVIOUS
  <2>2. Latest(base, w, k) = w[i].rec /\ w[i] \in Entry
    BY <1>2, <2>1, LastTouch
  <2>3. w[i].rec \in Rec /\ w[i].rec.ver \in Nat
    BY <2>2 DEF Entry, Rec
  <2>4. \/ ApplyWal(base, w)[k] = w[i].rec
        \/ ApplyWal(base, w)[k] = [w[i].rec EXCEPT !.ver = @ + 1]
    BY <1>2, <2>1 DEF ApplyWal
  <2>5. [w[i].rec EXCEPT !.ver = @ + 1] \in Rec /\
        [w[i].rec EXCEPT !.ver = @ + 1].ver = w[i].rec.ver + 1
    BY <2>3 DEF Rec
  <2>6. PICK n \in Nat : n = w[i].rec.ver
    BY <2>3
  <2>7. ApplyWal(base, w)[k] \in Rec /\ ApplyWal(base, w)[k].ver \in {n, n + 1}
    BY <2>3, <2>4, <2>5, <2>6
  <2> QED BY <1>2, <2>2, <2>3, <2>6, <2>7
<1> QED BY <1>1, <1>2

\* The same log on a snapshot that has the record, too, is not behind.
LEMMA NewerBase ==
  ASSUME NEW base \in Map, NEW newer \in Map, NEW w \in Seq(Entry), NEW k \in Key,
         newer[k] # NoRec, Touches(w, k) # {}, Latest(base, w, k) # NoRec
  PROVE  ApplyWal(base, w)[k].ver <= ApplyWal(newer, w)[k].ver
<1>1. PICK i : i = Max(Touches(w, k))
  OBVIOUS
<1>2. Latest(base, w, k) = w[i].rec /\ w[i] \in Entry
  BY <1>1, LastTouch
<1>3. w[i].rec \in Rec /\ w[i].rec.ver \in Nat
  BY <1>2 DEF Entry, Rec
<1>4. Existed(base, w, k, i) => Existed(newer, w, k, i)
  BY DEF Existed
<1>5. [w[i].rec EXCEPT !.ver = @ + 1].ver = w[i].rec.ver + 1
  BY <1>3 DEF Rec
<1> QED BY <1>1, <1>3, <1>4, <1>5 DEF ApplyWal

LEMMA NeverTornWhole == ASSUME Whole, StoreInv PROVE torn = FALSE
BY DEF Whole, NeverTorn, StoreInv, ModeInv

LEMMA LoggedIsLog ==
  ASSUME StoreInv PROVE /\ Logged \in Seq(Entry) /\ wal \in Seq(Entry) /\ snap \in Map
                        /\ data \in Map /\ prom \in [Key -> Rec \cup {NoRec, NoPromise}]
BY LoggedType DEF StoreInv, TypeOK, Logged

\* What is in memory, once it is in the log.
LEMMA LastIsLive ==
  ASSUME Whole, StoreInv, NEW k \in Key, data[k] # NoRec,
         ~Pending(k), Merging => prom[k] # NoPromise
  PROVE  /\ Latest(snap, Logged, k) # NoRec /\ data[k].ver \in Nat
         /\ LastVer(k) \in Nat /\ FoundVer(k) \in Nat
         /\ LastVer(k) <= FoundVer(k) /\ FoundVer(k) <= LastVer(k) + 1
         /\ Touches(Logged, k) = {} => FoundVer(k) = LastVer(k)
<1>1. SameContents(Latest(snap, Logged, k), data[k])
  BY NeverTornWhole DEF StoreInv, LogInv, LogOf
<1>2. Latest(snap, Logged, k) # NoRec /\ data[k] \in Rec
  BY <1>1, LoggedIsLog DEF SameContents, Map
<1>3. data[k].ver \in Nat
  BY <1>2 DEF Rec
<1>4. /\ Latest(snap, Logged, k).ver <= ApplyWal(snap, Logged)[k].ver
      /\ ApplyWal(snap, Logged)[k].ver <= Latest(snap, Logged, k).ver + 1
      /\ Touches(Logged, k) = {} => ApplyWal(snap, Logged)[k] = Latest(snap, Logged, k)
      /\ Latest(snap, Logged, k) \in Rec /\ ApplyWal(snap, Logged)[k] \in Rec
  BY <1>2, LoggedIsLog, ReplayVersion
<1>5. LastVer(k) \in Nat /\ FoundVer(k) \in Nat
  BY <1>4 DEF Rec, LastVer, FoundVer
<1> QED BY <1>2, <1>3, <1>4, <1>5 DEF LastVer, FoundVer

\* A record that a step does not touch.
LEMMA VerKept ==
  ASSUME NEW k \in Key, VerOf(k), data'[k] = data[k], prom'[k] = prom[k], snap' = snap,
         Logged' = Logged, (~Pending(k))' => ~Pending(k), Merging => Merging'
  PROVE  VerOf(k)'
<1>1. FoundVer(k)' = FoundVer(k) /\ LastVer(k)' = LastVer(k)
  BY DEF FoundVer, LastVer, Latest, Touches, ApplyWal, Existed
<1>2. Touches(Logged, k)' = Touches(Logged, k)
  BY DEF Touches
<1> QED BY <1>1, <1>2 DEF VerOf

LEMMA VerWrite ==
  ASSUME Whole, StoreInv, VerInv, NEW t \in Thread, NEW o, NEW e \in Entry, Write(t, o, e)
  PROVE  VerInv'
<1>1. /\ data' = [data EXCEPT ![e.key] = e.rec] /\ prom' = [prom EXCEPT ![e.key] = NoPromise]
      /\ pc' = [pc EXCEPT ![t] = "log"] /\ job' = [job EXCEPT ![t] = [op |-> o, entry |-> e, img |-> Empty]]
      /\ snap' = snap /\ wal' = wal /\ wbuf' = wbuf /\ pc[t] = "idle" /\ lock = NoThread
  BY DEF Write, Enter, disk
<1>2. \A u \in Thread : u # t => pc[u] = "idle"
  BY <1>1, OthersIdle DEF StoreInv
<1>3. ~Merging /\ \A k : ~Pending(k)
  BY <1>1, <1>2 DEF Merging, Pending, SavePcs
<1>4. Logged' = Logged
  BY <1>1 DEF Logged
<1>5. ASSUME NEW k \in Key, k # e.key PROVE VerOf(k)'
  <2>1. data'[k] = data[k] /\ prom'[k] = prom[k]
    BY <1>1, <1>5, LoggedIsLog DEF Map
  <2> QED BY <1>1, <1>3, <1>4, <2>1, VerKept DEF VerInv
<1>6. ASSUME NEW k \in Key, k = e.key PROVE VerOf(k)'
  <2>1. prom'[k] = NoPromise
    BY <1>1, <1>6, LoggedIsLog
  <2>2. Pending(k)'
    BY <1>1, <1>6 DEF Pending, StoreInv, TypeOK
  <2> QED BY <2>1, <2>2, NoRecAssumption DEF VerOf
<1> QED BY <1>5, <1>6 DEF VerInv

LEMMA VerLog ==
  ASSUME Whole, StoreInv, VerInv, StoreInv', NEW t \in Thread, Log(t)
  PROVE  VerInv'
<1>1. PICK e \in Entry : /\ e = job[t].entry /\ data[e.key] = e.rec /\ prom[e.key] = NoPromise
                         /\ pc[t] = "log" /\ e.key \in Key
  BY DEF StoreInv, CallerInv, Log, Entry
<1>2. /\ prom' = (IF sync THEN [prom EXCEPT ![e.key] = e.rec] ELSE prom)
      /\ pc' = [pc EXCEPT ![t] = "flush"] /\ snap' = snap /\ data' = data /\ job' = job
  BY <1>1 DEF Log
<1>3. Logged' = Append(Logged, e) /\ Logged \in Seq(Entry) /\ snap \in Map
  BY <1>1, LogFiles, LoggedIsLog, NeverTornWhole DEF Whole
<1>4. \A u \in Thread : u # t => pc[u] = "idle" /\ pc'[u] = "idle"
  BY <1>1, <1>2, OthersIdle DEF StoreInv, TypeOK
<1>5. /\ ~Merging /\ ~Merging'
      /\ \A k : k # e.key => ~Pending(k)
      /\ \A k : ~Pending(k)'
  BY <1>1, <1>2, <1>4 DEF Merging, Pending, SavePcs, StoreInv, TypeOK
<1>6. ASSUME NEW k \in Key, k # e.key PROVE VerOf(k)'
  <2>1. Latest(snap, Logged', k) = Latest(snap, Logged, k) /\ Touches(Logged', k) = Touches(Logged, k)
    BY <1>3, <1>6, LatestAppend, TouchesAppend
  <2>2. ApplyWal(snap, Logged')[k] = ApplyWal(snap, Logged)[k]
    <3>1. ApplyWal(snap, Logged') = ApplyEntry(ApplyWal(snap, Logged), e)
      BY <1>3, ApplyAppend
    <3>2. ApplyWal(snap, Logged) \in Map
      BY <1>3, ReplayIsLatest
    <3> QED BY <1>6, <3>1, <3>2 DEF ApplyEntry, Map
  <2>3. prom'[k] = prom[k]
    BY <1>2, <1>6, LoggedIsLog
  <2>4. FoundVer(k)' = FoundVer(k) /\ LastVer(k)' = LastVer(k) /\ Touches(Logged, k)' = Touches(Logged, k)
    <3>1. FoundVer(k)' = ApplyWal(snap, Logged')[k].ver
      BY <1>2 DEF FoundVer, ApplyWal, Touches, Existed
    <3>2. LastVer(k)' = Latest(snap, Logged', k).ver /\ Touches(Logged, k)' = Touches(Logged', k)
      BY <1>2 DEF LastVer, Latest, Touches
    <3> QED BY <2>1, <2>2, <3>1, <3>2 DEF FoundVer, LastVer
  <2> QED BY <1>2, <1>5, <1>6, <2>3, <2>4 DEF VerInv, VerOf
<1>7. ASSUME NEW k \in Key, k = e.key, data'[k] # NoRec PROVE VerOf(k)'
  <2>1. Latest(snap, Logged', k) = e.rec
    BY <1>3, <1>7, LatestAppend
  <2>2. LastVer(k)' = e.rec.ver
    BY <1>2, <2>1 DEF LastVer, Latest, Touches
  <2>3. /\ data'[k].ver \in Nat /\ LastVer(k)' \in Nat /\ FoundVer(k)' \in Nat
        /\ LastVer(k)' <= FoundVer(k)'
    <3>1. Whole'
      BY DEF Whole, Serial, OneThread
    <3>2. ~Pending(k)' /\ ~Merging'
      BY <1>5
    <3>3. /\ Logged' \in Seq(Entry)
          /\ data'[k] \in Rec /\ e.rec \in Rec
      BY <1>1, <1>2, <1>3, <1>7, AppendProperties, LoggedIsLog DEF Map
    <3>4. e.rec.ver \in Nat /\ e.rec # NoRec
      BY <3>3, NoRecAssumption DEF Rec
    <3>5. /\ Latest(snap, Logged', k).ver <= ApplyWal(snap, Logged')[k].ver
          /\ ApplyWal(snap, Logged')[k] \in Rec
      BY <1>3, <2>1, <3>3, <3>4, ReplayVersion
    <3>6. FoundVer(k)' = ApplyWal(snap, Logged')[k].ver
      BY <1>2 DEF FoundVer, ApplyWal, Touches, Existed
    <3> QED BY <1>1, <1>2, <1>7, <2>1, <2>2, <3>4, <3>5, <3>6 DEF Rec
  <2>4. data'[k].ver = e.rec.ver
    BY <1>1, <1>2, <1>7
  <2>5. prom'[k] \in Rec => prom'[k] = e.rec
    BY <1>1, <1>2, <1>7, LoggedIsLog, NoRecAssumption
  <2> QED BY <2>2, <2>3, <2>4, <2>5 DEF VerOf
<1> QED BY <1>6, <1>7 DEF VerInv, VerOf

LEMMA VerMerge ==
  ASSUME Whole, StoreInv, VerInv, NEW t \in Thread, FlushOneSaves(t)
  PROVE  VerInv'
<1>1. /\ pc[t] = "flush" /\ pc' = [pc EXCEPT ![t] = "replace"]
      /\ snap' = snap /\ wal' = wal /\ wbuf' = wbuf /\ batch' = batch /\ prom' = prom
      /\ \A k \in Key : data[k] # NoRec => data'[k] = data[k]
  <2>1. data' = [k \in Key |-> IF data[k] = NoRec THEN LoadAt(Len(wal))[k] ELSE data[k]]
    BY DEF FlushOneSaves
  <2> QED BY <2>1 DEF FlushOneSaves, disk
<1>2. \A u \in Thread : u # t => pc[u] = "idle"
  BY <1>1, OthersIdle DEF StoreInv
<1>3. ~Merging /\ \A k : ~Pending(k)
  BY <1>1, <1>2 DEF Merging, Pending, SavePcs
<1>4. Logged' = Logged
  BY <1>1 DEF Logged
<1>5. ASSUME NEW k \in Key, data[k] # NoRec PROVE VerOf(k)'
  BY <1>1, <1>3, <1>4, <1>5, VerKept DEF VerInv
<1>6. ASSUME NEW k \in Key, data[k] = NoRec PROVE VerOf(k)'
  <2>1. batch = FALSE => data'[k] = NoRec
    BY <1>6, MergeIsNoOp, NeverTornWhole DEF Whole
  <2>2. batch \in BOOLEAN /\ t \in DOMAIN pc
    BY DEF StoreInv, TypeOK
  <2>3. batch = TRUE => Merging'
    BY <1>1, <2>2 DEF Merging, SavePcs
  <2>4. ~(prom[k] \in Rec)
    <3>1. prom[k] \in Rec => SameContents(prom[k], data[k])
      BY DEF StoreInv, PromInv, Whole, NeverTorn
    <3> QED BY <1>6, <3>1, NoRecAssumption DEF SameContents
  <2>5. prom[k] = NoRec => data'[k] = NoRec
    <3>1. StoreInv'
      BY FlushOneSavesStep DEF Whole
    <3>2. NeverTorn'
      BY DEF Whole, NeverTorn
    <3> QED BY <1>1, <3>1, <3>2 DEF StoreInv, PromInv
  <2>6. prom[k] # NoPromise => data'[k] = NoRec
    BY <2>4, <2>5, LoggedIsLog
  <2> QED BY <1>1, <2>1, <2>2, <2>3, <2>4, <2>6 DEF VerOf
<1> QED BY <1>5, <1>6 DEF VerInv

LEMMA VerReplace ==
  ASSUME Whole, StoreInv, VerInv, NEW t \in Thread, Replace(t)
  PROVE  VerInv'
<1>1. /\ pc[t] = "replace" /\ pc' = [pc EXCEPT ![t] = "rotate"] /\ snap' = data
      /\ wal' = wal /\ wbuf' = wbuf /\ batch' = batch /\ prom' = prom /\ data' = data
  BY DEF Replace, StoreInv, CallerInv, SavePcs
<1>2. \A u \in Thread : u # t => pc[u] = "idle"
  BY <1>1, OthersIdle DEF StoreInv
<1>3. Merging' = Merging /\ \A k : ~Pending(k)
  BY <1>1, <1>2 DEF Merging, Pending, SavePcs, StoreInv, TypeOK
<1>4. Logged' = Logged
  BY <1>1 DEF Logged
<1> SUFFICES ASSUME NEW k \in Key, data[k] # NoRec PROVE VerOf(k)'
  BY <1>1 DEF VerInv, VerOf
<1>5. /\ FoundVer(k)' = ApplyWal(data, Logged)[k].ver
      /\ LastVer(k)' = Latest(data, Logged, k).ver
      /\ Touches(Logged, k)' = Touches(Logged, k)
  BY <1>1, <1>4 DEF FoundVer, LastVer, Latest, Touches, ApplyWal, Existed
<1>6. CASE Touches(Logged, k) = {}
  <2>1. ApplyWal(data, Logged)[k] = data[k] /\ Latest(data, Logged, k) = data[k]
    BY <1>6 DEF ApplyWal, Latest
  <2>2. data[k].ver \in Nat
    BY LoggedIsLog DEF Map, Rec
  <2> QED BY <1>1, <1>5, <1>6, <2>1, <2>2 DEF VerInv, VerOf
<1>7. CASE Touches(Logged, k) # {}
  <2>1. Latest(data, Logged, k) = Latest(snap, Logged, k)
    BY <1>7 DEF Latest
  <2>2. LastVer(k)' = LastVer(k)
    BY <1>5, <2>1 DEF LastVer
  <2>3. ASSUME Merging => prom[k] # NoPromise
        PROVE  LastVer(k)' <= data[k].ver /\ data[k].ver <= FoundVer(k)'
    <3>1. /\ Latest(snap, Logged, k) # NoRec /\ data[k].ver \in Nat
          /\ LastVer(k) \in Nat /\ FoundVer(k) \in Nat
      BY <1>3, <2>3, LastIsLive
    <3>2. LastVer(k) <= data[k].ver /\ data[k].ver <= FoundVer(k)
      BY <1>3, <2>3 DEF VerInv, VerOf
    <3>3. ApplyWal(snap, Logged)[k].ver <= ApplyWal(data, Logged)[k].ver
      BY <1>7, <3>1, LoggedIsLog, NewerBase
    <3>4. ApplyWal(data, Logged)[k] \in Rec
      BY <2>1, <3>1, LoggedIsLog, ReplayVersion
    <3>5. FoundVer(k)' \in Nat /\ FoundVer(k) <= FoundVer(k)'
      BY <1>5, <3>3, <3>4 DEF FoundVer, Rec
    <3> QED BY <2>2, <3>1, <3>2, <3>5
  <2>4. prom[k] \in Rec =>
          /\ prom[k].ver <= data[k].ver /\ data[k].ver <= prom[k].ver + 1
          /\ LastVer(k) <= prom[k].ver
    BY <1>7 DEF VerInv, VerOf
  <2> QED BY <1>1, <1>3, <1>5, <2>2, <2>3, <2>4 DEF VerOf
<1> QED BY <1>6, <1>7

LEMMA VerRemove ==
  ASSUME Whole, StoreInv, VerInv, NEW t \in Thread, RotateRemove(t)
  PROVE  VerInv'
<1>1. /\ pc[t] = "remove" /\ snap = data /\ wbuf = <<>>
      /\ wal' = <<>> /\ wbuf' = wbuf /\ snap' = snap /\ prom' = prom /\ data' = data
  BY DEF RotateRemove, StoreInv, CallerInv
<1>2. Logged' = <<>>
  BY <1>1, ConcatEmptySeq, EmptySeq DEF Logged
<1> SUFFICES ASSUME NEW k \in Key, data[k] # NoRec PROVE VerOf(k)'
  BY <1>1 DEF VerInv, VerOf
<1>3. Touches(Logged, k)' = {} /\ LastVer(k)' = data[k].ver /\ FoundVer(k)' = data[k].ver
  BY <1>1, <1>2, EmptyLog DEF Touches, LastVer, FoundVer, Latest, ApplyWal, Existed
<1>4. data[k].ver \in Nat
  BY LoggedIsLog DEF Map, Rec
<1>5. prom[k] \in Rec => prom[k].ver <= data[k].ver /\ data[k].ver <= prom[k].ver + 1
  BY DEF VerInv, VerOf
<1> QED BY <1>1, <1>3, <1>4, <1>5 DEF VerOf

LEMMA VerReturn ==
  ASSUME Whole, StoreInv, VerInv, NEW t \in Thread, Return(t)
  PROVE  VerInv'
<1>1. /\ pc[t] = "done" /\ snap' = snap /\ wal' = wal /\ wbuf' = wbuf /\ data' = data
      /\ \A k \in Key : prom'[k] = prom[k] \/ prom'[k] = data[k]
      /\ pc' = [pc EXCEPT ![t] = "idle"]
  BY DEF Return, Promised, disk
<1>2. \A u \in Thread : u # t => pc[u] = "idle"
  BY <1>1, OthersIdle DEF StoreInv
<1>3. ~Merging /\ \A k : ~Pending(k)
  BY <1>1, <1>2 DEF Merging, Pending, SavePcs
<1>4. Logged' = Logged
  BY <1>1 DEF Logged
<1> SUFFICES ASSUME NEW k \in Key, data[k] # NoRec PROVE VerOf(k)'
  BY <1>1 DEF VerInv, VerOf
<1>5. CASE prom'[k] = prom[k]
  BY <1>1, <1>3, <1>4, <1>5, VerKept DEF VerInv
<1>6. CASE prom'[k] = data[k]
  <2>1. /\ FoundVer(k)' = FoundVer(k) /\ LastVer(k)' = LastVer(k)
        /\ Touches(Logged, k)' = Touches(Logged, k)
    BY <1>1, <1>4 DEF FoundVer, LastVer, Latest, Touches, ApplyWal, Existed
  <2>2. LastVer(k) <= data[k].ver /\ data[k].ver <= FoundVer(k) /\ data[k].ver \in Nat
    BY <1>3, LastIsLive DEF VerInv, VerOf
  <2> QED BY <1>1, <1>6, <2>1, <2>2 DEF VerOf
<1> QED BY <1>1, <1>5, <1>6

\* What promises of the last process say of the next one's memory.
LEMMA VerRestart ==
  ASSUME snap \in Map, snap' = snap, wal' \in Seq(Entry), wbuf' = <<>>,
         data' = ApplyWal(snap, wal'),
         \A k \in Key : prom'[k] \in Rec /\ data'[k] # NoRec =>
           /\ prom'[k].ver <= data'[k].ver /\ data'[k].ver <= prom'[k].ver + 1
           /\ Touches(wal', k) # {} => Latest(snap, wal', k).ver <= prom'[k].ver
  PROVE  VerInv'
<1>1. Logged' = wal'
  BY ConcatEmptySeq DEF Logged
<1> SUFFICES ASSUME NEW k \in Key, data'[k] # NoRec PROVE VerOf(k)'
  BY DEF VerInv, VerOf
<1>2. /\ FoundVer(k)' = data'[k].ver
      /\ LastVer(k)' = Latest(snap, wal', k).ver
      /\ Touches(Logged, k)' = Touches(wal', k)
  <2>1. FoundVer(k)' = data'[k].ver
    BY <1>1, Zenon DEF FoundVer
  <2>2. LastVer(k)' = Latest(snap, wal', k).ver
    BY <1>1, Zenon DEF LastVer
  <2>3. Touches(Logged, k)' = Touches(wal', k)
    BY <1>1, Zenon DEF Touches
  <2> QED BY <2>1, <2>2, <2>3
<1>3. Latest(snap, wal', k) # NoRec
  BY ReplayIsLatest DEF SameContents
<1>4. Latest(snap, wal', k).ver <= data'[k].ver /\ data'[k] \in Rec
  BY <1>3, ReplayVersion
<1>5. data'[k].ver \in Nat
  BY <1>4 DEF Rec
<1> QED BY <1>2, <1>4, <1>5 DEF VerOf

LEMMA VerClose ==
  ASSUME Whole, StoreInv, VerInv, NEW t \in Thread, CloseAll(t)
  PROVE  VerInv'
<1>1. /\ pc[t] = "done" /\ job[t].op = "close" /\ torn = FALSE
      /\ wal' = wal \o wbuf /\ snap' = snap /\ wbuf' = <<>> /\ hasSnap = TRUE
      /\ data' = ApplyWal(snap, wal') /\ \A k \in Key : prom'[k] = data[k]
  BY NeverTornWhole DEF CloseAll, Restart, StoreInv, ModeInv
<1>2. \A u \in Thread : u # t => pc[u] = "idle"
  BY <1>1, OthersIdle DEF StoreInv
<1>3. ~Merging /\ \A k : ~Pending(k)
  BY <1>1, <1>2 DEF Merging, Pending, SavePcs
<1>4. wal' = Logged
  BY <1>1 DEF Logged
<1>5. ASSUME NEW k \in Key, prom'[k] \in Rec
      PROVE  /\ prom'[k].ver <= data'[k].ver /\ data'[k].ver <= prom'[k].ver + 1
             /\ Latest(snap, wal', k).ver <= prom'[k].ver
  <2>1. data[k] # NoRec /\ prom'[k] = data[k]
    BY <1>1, <1>5, NoRecAssumption
  <2>2. /\ LastVer(k) \in Nat /\ FoundVer(k) \in Nat /\ data[k].ver \in Nat
        /\ FoundVer(k) <= LastVer(k) + 1
    BY <1>3, <2>1, LastIsLive
  <2>3. LastVer(k) <= data[k].ver /\ data[k].ver <= FoundVer(k)
    BY <1>3, <2>1 DEF VerInv, VerOf
  <2>4. data'[k].ver = FoundVer(k) /\ Latest(snap, wal', k).ver = LastVer(k)
    BY <1>1, <1>4 DEF FoundVer, LastVer
  <2> QED BY <2>1, <2>2, <2>3, <2>4
<1> QED BY <1>1, <1>4, <1>5, VerRestart, LoggedIsLog

LEMMA PromisedVersion ==
  ASSUME Whole, StoreInv, VerInv, NEW n \in synced..Len(wal), NEW k \in Key, prom[k] \in Rec
  PROVE  /\ prom[k].ver <= LoadAt(n)[k].ver /\ LoadAt(n)[k].ver <= prom[k].ver + 1
         /\ prom[k].ver \in Nat /\ LoadAt(n)[k].ver \in Nat
         /\ Touches(SubSeq(wal, 1, n), k) # {} => Latest(snap, SubSeq(wal, 1, n), k).ver <= prom[k].ver
<1>1. prom[k] # NoPromise /\ prom[k] # NoRec
  BY NoRecAssumption
<1>2. ~Pending(k)
  BY <1>1 DEF Pending, StoreInv, CallerInv
<1>3. SameContents(prom[k], data[k]) /\ data[k] # NoRec
  BY <1>1 DEF StoreInv, PromInv, Whole, NeverTorn, SameContents
<1>4. Touches(Logged, k) \subseteq 1..synced
  BY <1>1, <1>2, NeverTornWhole DEF StoreInv, LogInv, LogOf
<1>5. /\ n \in 0..Len(wal) /\ SubSeq(wal, 1, n) \in Seq(Entry)
      /\ LoadAt(n) = ApplyWal(snap, SubSeq(wal, 1, n))
      /\ Touches(SubSeq(wal, 1, n), k) = Touches(Logged, k)
      /\ Latest(snap, SubSeq(wal, 1, n), k) = Latest(snap, Logged, k)
  BY <1>4, FoundAt DEF StoreInv, ModeInv
<1>6. ApplyWal(snap, SubSeq(wal, 1, n))[k] = ApplyWal(snap, Logged)[k]
  <2>1. PICK p \in Seq(Entry) : /\ p = SubSeq(wal, 1, n) /\ Len(p) = n
                                /\ \A i \in 1..n : p[i] = wal[i]
    BY <1>5, LoggedIsLog, PrefixType
  <2>2. /\ Len(wal) \in Nat /\ Len(Logged) \in Nat /\ Len(wal) <= Len(Logged) /\ synced \in Nat
        /\ \A i \in 1..Len(wal) : Logged[i] = wal[i]
    <3>1. wal \in Seq(Entry) /\ wbuf \in Seq(Entry) /\ synced \in 0..Len(wal)
      BY DEF StoreInv, TypeOK
    <3> QED BY <3>1, LoggedType, LenProperties DEF Logged
  <2>3. Len(p) <= Len(Logged) /\ (\A i \in 1..Len(p) : p[i] = Logged[i])
        /\ Touches(Logged, k) \subseteq 1..Len(p)
    BY <1>4, <1>5, <2>1, <2>2
  <2> QED BY <2>1, <2>3, LoggedIsLog, ApplyPrefix
<1>7. /\ LastVer(k) \in Nat /\ FoundVer(k) \in Nat /\ data[k].ver \in Nat
      /\ FoundVer(k) <= LastVer(k) + 1
      /\ Touches(Logged, k) = {} => FoundVer(k) = LastVer(k)
  BY <1>1, <1>2, <1>3, LastIsLive
<1>8. /\ LastVer(k) <= data[k].ver /\ data[k].ver <= FoundVer(k)
      /\ prom[k].ver <= data[k].ver /\ data[k].ver <= prom[k].ver + 1
      /\ Touches(Logged, k) # {} => LastVer(k) <= prom[k].ver
  BY <1>1, <1>2, <1>3 DEF VerInv, VerOf
<1>9. prom[k].ver \in Nat
  BY DEF Rec
<1>10. LoadAt(n)[k].ver = FoundVer(k) /\ Latest(snap, SubSeq(wal, 1, n), k).ver = LastVer(k)
  BY <1>5, <1>6 DEF FoundVer, LastVer
<1> QED BY <1>5, <1>7, <1>8, <1>9, <1>10

LEMMA VerCrash ==
  ASSUME Whole, StoreInv, VerInv, Crash
  PROVE  VerInv'
<1>1. PICK n \in synced..Len(wal) :
        /\ wal' = SubSeq(wal, 1, n) /\ snap' = snap /\ prom' = prom /\ Restart
  BY DEF Crash
<1>2. /\ wal' \in Seq(Entry) /\ snap \in Map /\ wbuf' = <<>>
      /\ data' = ApplyWal(snap, wal') /\ data' = LoadAt(n)
  BY <1>1, FoundAt DEF Restart, StoreInv, ModeInv, TypeOK
<1> QED BY <1>1, <1>2, PromisedVersion, VerRestart

LEMMA VerInvNext == ASSUME Whole, StoreInv, VerInv, [Next]_vars PROVE VerInv'
<1>1. Serial /\ StoreInv'
  BY StoreInvNext DEF Whole
<1>2. ASSUME NEW t \in Thread, Insert(t) \/ Update(t) \/ Delete(t) PROVE VerInv'
  <2>1. ASSUME Insert(t) PROVE VerInv'
    <3>1. PICK k \in Key, v \in Val :
            Write(t, "insert", [op |-> "insert", key |-> k, rec |-> [val |-> v, ver |-> 1]])
      BY <2>1 DEF Insert
    <3>2. [op |-> "insert", key |-> k, rec |-> [val |-> v, ver |-> 1]] \in Entry
      BY DEF Entry, Rec
    <3> QED BY <3>1, <3>2, VerWrite
  <2>2. ASSUME Update(t) PROVE VerInv'
    <3>1. PICK k \in Key, v \in Val :
            /\ data[k] # NoRec
            /\ Write(t, "update", [op |-> "update", key |-> k,
                                   rec |-> [val |-> v, ver |-> data[k].ver + 1]])
      BY <2>2 DEF Update
    <3>2. data[k].ver + 1 \in Nat
      BY <3>1, LoggedIsLog DEF Map, Rec
    <3>3. [op |-> "update", key |-> k, rec |-> [val |-> v, ver |-> data[k].ver + 1]] \in Entry
      BY <3>2 DEF Entry, Rec
    <3> QED BY <3>1, <3>3, VerWrite
  <2>3. ASSUME Delete(t) PROVE VerInv'
    <3>1. PICK k \in Key, o \in WriteOps : Write(t, o, [op |-> "delete", key |-> k, rec |-> NoRec])
      BY <2>3 DEF Delete, WriteOps
    <3>2. [op |-> "delete", key |-> k, rec |-> NoRec] \in Entry
      BY DEF Entry
    <3> QED BY <3>1, <3>2, VerWrite
  <2> QED BY <1>2, <2>1, <2>2, <2>3
<1>3. ASSUME NEW t \in Thread,
             \/ FlushOneSkips(t) \/ Checkpoint(t) \/ Snapshot(t) \/ Encode(t) \/ SaveFails(t)
             \/ BeginBatch(t) \/ EndBatch(t) \/ EndBatchSync(t)
      PROVE  VerInv'
  <2>1. data' = data /\ prom' = prom /\ snap' = snap /\ wal' = wal /\ wbuf' = wbuf
    BY <1>3 DEF FlushOneSkips, Checkpoint, Snapshot, Encode, SaveFails, BeginBatch, EndBatch,
                EndBatchSync, disk
  <2>2. pc[t] # "log" /\ (pc[t] # "idle" \/ lock = NoThread \/ OneThread)
    BY <1>1, <1>3 DEF FlushOneSkips, Checkpoint, Snapshot, Encode, SaveFails, BeginBatch, EndBatch,
                      EndBatchSync, Enter, Serial, SyncOps, StoreInv, TypeOK, ModeInv
  <2>3. \A u \in Thread : u # t => pc[u] = "idle"
    BY <2>2, OthersIdle DEF StoreInv
  <2>4. \A k : ~Pending(k)
    BY <2>2, <2>3 DEF Pending
  <2>5. ~Merging
    <3>1. CASE SaveFails(t)
      BY <1>1, <3>1 DEF SaveFails, Serial, StoreInv, ModeInv, Merging
    <3>2. CASE ~SaveFails(t)
      <4>1. pc[t] \notin SavePcs
        BY <1>3, <3>2 DEF FlushOneSkips, Checkpoint, Snapshot, Encode, BeginBatch, EndBatch,
                          EndBatchSync, Enter, SavePcs
      <4> QED BY <2>3, <4>1 DEF Merging, SavePcs
    <3> QED BY <3>1, <3>2
  <2>6. Logged' = Logged
    BY <2>1 DEF Logged
  <2> QED BY <2>1, <2>4, <2>5, <2>6, VerKept DEF VerInv
<1>4. ASSUME NEW t \in Thread, RotateFlush(t) PROVE VerInv'
  <2>1. /\ data' = data /\ prom' = prom /\ snap' = snap /\ batch' = batch
        /\ wal' = wal \o wbuf /\ wbuf' = <<>> /\ pc[t] = "rotate"
        /\ pc' = [pc EXCEPT ![t] = "remove"]
    BY <1>4, NeverTornWhole DEF RotateFlush, FlushBuffer
  <2>2. Logged' = Logged
    BY <2>1, LoggedIsLog, ConcatEmptySeq DEF Logged
  <2>3. \A u \in Thread : u # t => pc[u] = "idle"
    BY <2>1, OthersIdle DEF StoreInv
  <2>4. (Merging => Merging') /\ \A k : ~Pending(k)
    BY <2>1, <2>3 DEF Pending, Merging, SavePcs, StoreInv, TypeOK
  <2> QED BY <2>1, <2>2, <2>4, VerKept DEF VerInv
<1>5. CASE UNCHANGED vars
  <2>1. /\ data' = data /\ prom' = prom /\ snap' = snap /\ Logged' = Logged
        /\ Merging' = Merging /\ \A k : Pending(k)' = Pending(k)
    BY <1>5 DEF vars, disk, Logged, Merging, Pending
  <2> QED BY <2>1, VerKept DEF VerInv
<1>6. ASSUME NEW t \in Thread, Client(t) PROVE VerInv'
  BY <1>1, <1>2, <1>3, <1>6, VerLog DEF Client
<1>7. ASSUME NEW t \in Thread, Save(t) PROVE VerInv'
  BY <1>1, <1>3, <1>4, <1>7, VerMerge, VerReplace, VerRemove, VerReturn, NeverDropped DEF Save
<1>8. ASSUME NEW t \in Thread, Mode(t) PROVE VerInv'
  BY <1>1, <1>3, <1>8, VerClose, NeverDropped DEF Mode
<1> QED BY <1>5, <1>6, <1>7, <1>8, VerCrash DEF Next

LEMMA VerInvInit == Init => VerInv
BY DEF Init, VerInv, VerOf, Empty

\* The recovery operator is the loop of BinaryStore._apply_wal (binary_store.py:165-182) on
\* every log, also one replayed on a newer snapshot, and the version a restart finds is the
\* promised one or the next: no compare-and-swap sees an older one.
THEOREM ReplayIsExact == ASSUME Whole PROVE Spec => []ReplayExact
<1>1. ASSUME Whole, StoreInv, VerInv PROVE ReplayExact
  <2>1. ASSUME NEW n \in synced..Len(wal)
        PROVE  /\ LoadAt(n) = ApplyLoop(snap, ReadAll(n)) /\ RecoveredAt(n) = LoadAt(n)
    <3>1. SubSeq(wal, 1, n) \in Seq(Entry) /\ snap \in Map /\ RecoveredAt(n) = LoadAt(n)
      BY <1>1, FoundAt DEF StoreInv, TypeOK, ModeInv
    <3>2. LoadAt(n) = ApplyWal(snap, SubSeq(wal, 1, n)) /\ ReadAll(n) = SubSeq(wal, 1, n)
      BY DEF LoadAt, ReadAll
    <3> QED BY <3>1, <3>2, ReplayIsTheLoop
  <2>2. ASSUME NEW k \in Key, NEW n \in synced..Len(wal), prom[k] \in Rec
        PROVE  RecoveredAt(n)[k].ver \in {prom[k].ver, prom[k].ver + 1}
    <3>1. /\ prom[k].ver <= LoadAt(n)[k].ver /\ LoadAt(n)[k].ver <= prom[k].ver + 1
          /\ prom[k].ver \in Nat /\ LoadAt(n)[k].ver \in Nat
      BY <1>1, <2>2, PromisedVersion
    <3> QED BY <2>1, <3>1
  <2> QED BY <2>1, <2>2 DEF ReplayExact, VersionAtMostOneAhead
<1>2. Whole => (Init => VerInv) /\ Serial
  BY VerInvInit DEF Whole
<1>3. Whole => (StoreInv /\ VerInv /\ [Next]_vars => VerInv')
  BY VerInvNext
<1>4. Whole => (StoreInv /\ VerInv => ReplayExact)
  BY <1>1
<1> QED BY <1>2, <1>3, <1>4, StoreInvAlways, PTL DEF Spec

-----------------------------------------------------------------------------
(* Dropped collections.                                                    *)

\* The calls that hold core._lock, drop_collection among them, without faults, for a
\* collection that may or may not have a snapshot.
Droppable == Ops \subseteq SyncOps \cup {"drop"} /\ Faults = {}

ThroughInv == sync = TRUE /\ batch = FALSE /\ wbuf = <<>> /\ torn = FALSE /\ synced = Len(wal)

HolderInv ==
  \A t \in Thread :
    /\ pc[t] \in {"idle", "log", "flush", "encode", "done", "dropsnap", "dropwal"} \cup SavePcs
    /\ pc[t] # "idle" => lock = t
    /\ pc[t] \in {"log", "flush"} => job[t].op \in WriteOps
    /\ pc[t] = "log" => /\ job[t].entry \in Entry
                        /\ data[job[t].entry.key] = job[t].entry.rec
    /\ pc[t] \in SavePcs => job[t].img = data
    /\ pc[t] \in {"rotate", "remove"} => snap = data
    /\ pc[t] = "done" /\ job[t].op \in {"checkpoint", "snapshot", "batch", "close"} /\ known
         => snap = data /\ wal = <<>>
    /\ pc[t] \in {"dropsnap", "dropwal"} => data = Empty /\ \A k \in Key : prom[k] = NoPromise
    /\ pc[t] = "dropwal" => snap = Empty

\* A deletion that was promised, in memory and in the files.  Nothing is said of the other
\* ids: a log that lost its snapshot may bring them back with the next merge.
GoneOf(k) == prom[k] = NoRec => data[k] = NoRec /\ Latest(snap, wal, k) = NoRec

DropInv == TypeOK /\ ThroughInv /\ HolderInv /\ \A k \in Key : GoneOf(k)

LEMMA DropInvInit == ASSUME Droppable, Init PROVE DropInv
<1>1. Empty \in Map /\ Idle \in Call /\ <<>> \in Seq(Entry)
  BY EmptySeq DEF Empty, Map, Idle, Call
<1>2. TypeOK
  <2>1. synced \in 0..Len(wal) /\ faults \in 0..MaxFaults /\ restarts \in 0..MaxRestarts
    BY EmptySeq, BoundAssumption DEF Init
  <2>2. prom \in [Key -> Rec \cup {NoRec, NoPromise}] /\ pc \in [Thread -> Pcs]
    BY DEF Init, Empty, Pcs
  <2>3. job \in [Thread -> Call] /\ data \in Map /\ snap \in Map
        /\ wbuf \in Seq(Entry) /\ wal \in Seq(Entry)
    BY <1>1 DEF Init
  <2>4. known \in BOOLEAN /\ hasSnap \in BOOLEAN /\ lock \in Thread \cup {NoThread}
    BY BoundAssumption DEF Init
  <2> QED BY <2>1, <2>2, <2>3, <2>4 DEF Init, TypeOK
<1>3. ThroughInv
  BY EmptySeq DEF Init, ThroughInv
<1>4. HolderInv
  BY DEF Init, HolderInv, SavePcs
<1>5. \A k \in Key : GoneOf(k)
  BY EmptyLog DEF Init, GoneOf, Empty
<1> QED BY <1>2, <1>3, <1>4, <1>5 DEF DropInv

LEMMA HolderAlone ==
  ASSUME HolderInv, NEW t \in Thread, lock \in {NoThread, t} \/ pc[t] # "idle"
  PROVE  \A u \in Thread : u # t => pc[u] = "idle"
BY SentinelAssumption DEF HolderInv

\* What replay finds is a map without what the log and the snapshot have lost.
LEMMA FoundGone ==
  ASSUME DropInv, NEW k \in Key, Latest(snap, wal, k) = NoRec
  PROVE  ApplyWal(snap, wal) \in Map /\ ApplyWal(snap, wal)[k] = NoRec
BY ReplayIsLatest DEF DropInv, TypeOK, SameContents

LEMMA WholeIsRead ==
  ASSUME TypeOK
  PROVE  SubSeq(wal, 1, Len(wal)) = wal /\ LoadAt(Len(wal)) = ApplyWal(snap, wal)
         /\ ApplyWal(snap, wal) \in Map
<1>1. wal \in Seq(Entry) /\ Len(wal) \in Nat /\ snap \in Map
  BY LenProperties DEF TypeOK
<1>2. /\ SubSeq(wal, 1, Len(wal)) \in Seq(Entry) /\ Len(SubSeq(wal, 1, Len(wal))) = Len(wal)
      /\ \A i \in 1..Len(wal) : SubSeq(wal, 1, Len(wal))[i] = wal[i]
  BY <1>1, PrefixType
<1>3. SubSeq(wal, 1, Len(wal)) = wal
  BY <1>1, <1>2, SeqEqual
<1> QED BY <1>1, <1>3, ReplayIsLatest DEF LoadAt, ReadAll

-----------------------------------------------------------------------------
LEMMA DropWrite ==
  ASSUME DropInv, NEW t \in Thread, NEW o \in WriteOps, NEW e \in Entry,
         Write(t, o, e), used' \subseteq Key
  PROVE  DropInv'
<1> USE DEF DropInv, Write, Enter, disk
<1>1. e.key \in Key /\ e.rec \in Rec \cup {NoRec} /\ Empty \in Map
  BY DEF Entry, Empty, Map
<1>2. TypeOK'
  BY <1>1 DEF TypeOK, Pcs, Map, WriteOps, AllOps, Call
<1>3. /\ data'[e.key] = e.rec /\ prom'[e.key] = NoPromise /\ pc'[t] = "log"
      /\ job'[t].entry = e /\ job'[t].op = o
      /\ \A k \in Key : k # e.key => data'[k] = data[k] /\ prom'[k] = prom[k]
  BY <1>1 DEF TypeOK, Map
<1>4. \A u \in Thread : u # t => pc'[u] = "idle"
  BY HolderAlone DEF TypeOK
<1>5. HolderInv'
  BY <1>3, <1>4 DEF HolderInv, SavePcs
<1>6. ASSUME NEW k \in Key PROVE GoneOf(k)'
  <2>1. Latest(snap, wal, k)' = Latest(snap, wal, k)
    BY DEF Latest, Touches
  <2> QED BY <1>3, <2>1, NoRecAssumption DEF GoneOf
<1>7. ThroughInv'
  BY DEF ThroughInv
<1> QED BY <1>2, <1>5, <1>6, <1>7

LEMMA DropLog ==
  ASSUME Droppable, DropInv, NEW t \in Thread, Log(t) PROVE DropInv'
<1> USE DEF DropInv
<1>1. PICK e \in Entry : e = job[t].entry
  BY DEF Log, HolderInv
<1>2. /\ pc[t] = "log" /\ sync = TRUE /\ wbuf' = wbuf /\ faults' = faults
      /\ wal' = Append(wal, e) /\ synced' = Len(wal) + 1
      /\ prom' = [prom EXCEPT ![e.key] = e.rec]
      /\ pc' = [pc EXCEPT ![t] = "flush"]
      /\ UNCHANGED <<data, known, sync, batch, snap, hasSnap, torn, lock, job, restarts, used>>
  BY <1>1 DEF Log, ThroughInv, AppendToFile, MayFail, Droppable
<1>3. /\ wal \in Seq(Entry) /\ Len(wal) \in Nat /\ wal' \in Seq(Entry) /\ Len(wal') = Len(wal) + 1
  BY <1>2, AppendProperties, LenProperties DEF TypeOK
<1>4. e.key \in Key /\ e.rec \in Rec \cup {NoRec} /\ data[e.key] = e.rec
  BY <1>1, <1>2 DEF Entry, HolderInv
<1>5. synced' \in 0..Len(wal') /\ synced' = Len(wal')
  BY <1>2, <1>3
<1>6. prom' \in [Key -> Rec \cup {NoRec, NoPromise}]
  BY <1>2, <1>4 DEF TypeOK
<1>7. TypeOK'
  BY <1>2, <1>3, <1>5, <1>6 DEF TypeOK, Pcs
<1>8. pc'[t] = "flush" /\ \A u \in Thread : u # t => pc'[u] = "idle"
  BY <1>2, HolderAlone DEF TypeOK
<1>9. HolderInv'
  BY <1>2, <1>8 DEF HolderInv, SavePcs
<1>10. ASSUME NEW k \in Key PROVE GoneOf(k)'
  <2>1. Latest(snap, wal, k)' = IF e.key = k THEN e.rec ELSE Latest(snap, wal, k)
    <3>1. Latest(snap, wal, k)' = Latest(snap, wal', k)
      BY <1>2 DEF Latest, Touches
    <3> QED BY <1>2, <1>3, <3>1, LatestAppend
  <2>2. prom'[k] = IF e.key = k THEN e.rec ELSE prom[k]
    BY <1>2 DEF TypeOK
  <2> QED BY <1>2, <1>4, <2>1, <2>2 DEF GoneOf
<1>11. ThroughInv'
  BY <1>2, <1>5 DEF ThroughInv
<1> QED BY <1>7, <1>9, <1>10, <1>11

\* Steps of a call that move no record.
LEMMA DropMoves ==
  ASSUME DropInv, TypeOK', HolderInv', UNCHANGED <<sync, batch, wbuf, torn, data, snap, wal, synced, prom>>
  PROVE  DropInv'
<1>1. ASSUME NEW k \in Key PROVE GoneOf(k)'
  BY DEF DropInv, GoneOf, Latest, Touches
<1> QED BY <1>1 DEF DropInv, ThroughInv

LEMMA DropCalls ==
  ASSUME Droppable, DropInv, NEW t \in Thread,
         FlushOneSkips(t) \/ Checkpoint(t) \/ NothingToSave(t)
  PROVE  DropInv'
<1> USE DEF disk
<1>1. CASE FlushOneSkips(t)
  <2> USE <1>1 DEF FlushOneSkips
  <2>1. pc'[t] = "done" /\ \A u \in Thread : u # t => pc'[u] = "idle"
    BY HolderAlone DEF DropInv, TypeOK
  <2>2. TypeOK'
    BY DEF DropInv, TypeOK, Pcs
  <2>3. HolderInv'
    BY <2>1 DEF DropInv, HolderInv, SavePcs, WriteOps
  <2> QED BY <2>2, <2>3, DropMoves
<1>2. CASE Checkpoint(t)
  <2>1. PICK o \in {"checkpoint", "close"} :
          /\ Enter(t)
          /\ job' = [job EXCEPT ![t].op = o]
          /\ pc' = [pc EXCEPT ![t] = "encode"]
          /\ UNCHANGED <<data, known, wbuf, sync, batch, disk, faults, restarts, used, prom>>
    BY <1>2 DEF Checkpoint
  <2>2. pc'[t] = "encode" /\ \A u \in Thread : u # t => pc'[u] = "idle"
    BY <2>1, HolderAlone DEF DropInv, TypeOK, Enter
  <2>3. TypeOK'
    BY <2>1 DEF DropInv, TypeOK, Pcs, Enter, Call, AllOps
  <2>4. HolderInv'
    BY <2>1, <2>2 DEF DropInv, HolderInv, SavePcs, Enter
  <2> QED BY <2>1, <2>3, <2>4, DropMoves
<1>3. CASE NothingToSave(t)
  <2> USE <1>3 DEF NothingToSave
  <2>1. pc'[t] = "done" /\ \A u \in Thread : u # t => pc'[u] = "idle"
    BY HolderAlone DEF DropInv, TypeOK
  <2>2. TypeOK'
    BY DEF DropInv, TypeOK, Pcs
  <2>3. HolderInv'
    BY <2>1 DEF DropInv, HolderInv, SavePcs
  <2> QED BY <2>2, <2>3, DropMoves
<1> QED BY <1>1, <1>2, <1>3

LEMMA DropEncode ==
  ASSUME Droppable, DropInv, NEW t \in Thread, Encode(t) PROVE DropInv'
<1> USE DEF Encode, disk
<1>1. /\ pc'[t] = "replace" /\ job'[t].img = data
      /\ \A u \in Thread : u # t => pc'[u] = "idle"
  BY HolderAlone DEF DropInv, TypeOK, Call
<1>2. TypeOK'
  BY DEF DropInv, TypeOK, Pcs, SavePcs, Call
<1>3. HolderInv'
  BY <1>1 DEF DropInv, HolderInv, SavePcs
<1> QED BY <1>2, <1>3, DropMoves

\* The merge brings back what only the files have: nothing whose deletion was promised.
LEMMA DropMerge ==
  ASSUME Droppable, DropInv, NEW t \in Thread, FlushOneSaves(t) PROVE DropInv'
<1> USE DEF disk
<1>1. PICK found : found = LoadAt(Len(wal))
  OBVIOUS
<1>2. PICK merged : merged = [k \in Key |-> IF data[k] = NoRec THEN found[k] ELSE data[k]]
  OBVIOUS
<1>3. /\ data' = merged
      /\ job' = [job EXCEPT ![t].img = merged]
      /\ pc[t] = "flush" /\ pc' = [pc EXCEPT ![t] = "replace"]
      /\ UNCHANGED <<known, wbuf, sync, batch, snap, hasSnap, wal, synced, torn, lock, faults,
                     restarts, used, prom>>
  BY <1>1, <1>2 DEF FlushOneSaves
<1>4. found = ApplyWal(snap, wal) /\ found \in Map
  BY <1>1, WholeIsRead DEF DropInv
<1>5. merged \in Map
  BY <1>2, <1>4 DEF DropInv, TypeOK, Map
<1>6. /\ pc'[t] = "replace" /\ job'[t].img = merged
      /\ \A u \in Thread : u # t => pc'[u] = "idle"
  BY <1>3, HolderAlone DEF DropInv, TypeOK, Call
<1>7. TypeOK'
  BY <1>3, <1>5 DEF DropInv, TypeOK, Pcs, SavePcs, Call
<1>8. HolderInv'
  BY <1>3, <1>6 DEF DropInv, HolderInv, SavePcs
<1>9. ASSUME NEW k \in Key PROVE GoneOf(k)'
  <2>1. Latest(snap, wal, k)' = Latest(snap, wal, k)
    BY <1>3 DEF Latest, Touches
  <2>2. prom[k] = NoRec => data[k] = NoRec /\ found[k] = NoRec
    BY <1>4, FoundGone DEF DropInv, GoneOf
  <2> QED BY <1>2, <1>3, <2>1, <2>2 DEF DropInv, GoneOf
<1>10. ThroughInv'
  BY <1>3 DEF DropInv, ThroughInv
<1> QED BY <1>7, <1>8, <1>9, <1>10 DEF DropInv

LEMMA DropReplace ==
  ASSUME Droppable, DropInv, NEW t \in Thread, Replace(t) PROVE DropInv'
<1> USE DEF Replace
<1>1. pc'[t] = "rotate" /\ snap' = data /\ \A u \in Thread : u # t => pc'[u] = "idle"
  BY HolderAlone DEF DropInv, TypeOK, HolderInv, SavePcs
<1>2. TypeOK'
  BY <1>1 DEF DropInv, TypeOK, Pcs, SavePcs
<1>3. HolderInv'
  BY <1>1 DEF DropInv, HolderInv, SavePcs
<1>4. ASSUME NEW k \in Key PROVE GoneOf(k)'
  <2>1. Latest(snap, wal, k)' = IF Touches(wal, k) = {} THEN data[k] ELSE Latest(snap, wal, k)
    BY <1>1 DEF Latest, Touches
  <2> QED BY <2>1 DEF DropInv, GoneOf
<1>5. ThroughInv'
  BY DEF DropInv, ThroughInv
<1> QED BY <1>2, <1>3, <1>4, <1>5 DEF DropInv

LEMMA DropRotateFlush ==
  ASSUME Droppable, DropInv, NEW t \in Thread, RotateFlush(t) PROVE DropInv'
<1>1. /\ pc[t] = "rotate" /\ wal' = wal /\ wbuf' = wbuf /\ synced' = synced
      /\ pc' = [pc EXCEPT ![t] = "remove"]
      /\ UNCHANGED <<data, known, sync, batch, snap, hasSnap, torn, lock, job, faults, restarts,
                     used, prom>>
  BY ConcatEmptySeq DEF RotateFlush, FlushBuffer, DropInv, ThroughInv, TypeOK
<1>2. pc'[t] = "remove" /\ \A u \in Thread : u # t => pc'[u] = "idle"
  BY <1>1, HolderAlone DEF DropInv, TypeOK
<1>3. TypeOK'
  BY <1>1 DEF DropInv, TypeOK, Pcs, SavePcs
<1>4. HolderInv'
  BY <1>1, <1>2 DEF DropInv, HolderInv, SavePcs
<1> QED BY <1>1, <1>3, <1>4, DropMoves

LEMMA EmptyWal == <<>> \in Seq(Entry) /\ 0 \in 0..Len(<<>>) /\ Len(<<>>) = 0
BY EmptySeq

LEMMA DropRemove ==
  ASSUME Droppable, DropInv, NEW t \in Thread, RotateRemove(t) PROVE DropInv'
<1> USE DEF RotateRemove
<1>1. pc'[t] = "done" /\ snap = data /\ \A u \in Thread : u # t => pc'[u] = "idle"
  BY HolderAlone DEF DropInv, TypeOK, HolderInv
<1>2. TypeOK'
  BY EmptyWal DEF DropInv, TypeOK, Pcs
<1>3. HolderInv'
  BY <1>1 DEF DropInv, HolderInv, SavePcs
<1>4. ASSUME NEW k \in Key PROVE GoneOf(k)'
  <2>1. Latest(snap, wal, k)' = snap[k]
    BY EmptyLog DEF Latest, Touches
  <2> QED BY <1>1, <2>1 DEF DropInv, GoneOf
<1>5. ThroughInv'
  BY EmptyWal DEF DropInv, ThroughInv
<1> QED BY <1>2, <1>3, <1>4, <1>5 DEF DropInv

\* checkpoint promises what it has saved; the log is gone by then.
LEMMA DropReturn ==
  ASSUME Droppable, DropInv, NEW t \in Thread, Return(t) PROVE DropInv'
<1> USE DEF disk
<1>1. /\ pc[t] = "done" /\ prom' = Promised(t)
      /\ pc' = [pc EXCEPT ![t] = "idle"]
      /\ job' = [job EXCEPT ![t] = Idle]
      /\ lock' = (IF lock = t THEN NoThread ELSE lock)
      /\ UNCHANGED <<data, known, wbuf, sync, batch, disk, faults, restarts, used>>
  BY DEF Return
<1>2. \A u \in Thread : pc'[u] = "idle"
  BY <1>1, HolderAlone DEF DropInv, TypeOK
<1>3. Idle \in Call /\ prom' \in [Key -> Rec \cup {NoRec, NoPromise}]
  BY <1>1 DEF Idle, Call, Empty, Map, DropInv, TypeOK, Promised
<1>4. TypeOK'
  BY <1>1, <1>3 DEF DropInv, TypeOK, Pcs
<1>5. HolderInv'
  BY <1>2 DEF HolderInv, SavePcs
<1>6. ASSUME NEW k \in Key PROVE GoneOf(k)'
  <2>1. Latest(snap, wal, k)' = Latest(snap, wal, k)
    BY <1>1 DEF Latest, Touches
  <2>2. CASE known /\ job[t].op \in {"checkpoint", "snapshot", "batch"}
    <3>1. snap = data /\ wal = <<>>
      BY <1>1, <2>2 DEF DropInv, HolderInv
    <3>2. Latest(snap, wal, k) = data[k]
      BY <3>1, EmptyLog
    <3>3. prom'[k] \in {prom[k], data[k]}
      BY <1>1 DEF Promised
    <3> QED BY <1>1, <2>1, <3>2, <3>3 DEF DropInv, GoneOf
  <2>3. CASE ~(known /\ job[t].op \in {"checkpoint", "snapshot", "batch"})
    <3>1. prom'[k] = prom[k]
      BY <1>1, <2>3 DEF Promised
    <3> QED BY <1>1, <2>1, <3>1 DEF DropInv, GoneOf
  <2> QED BY <2>2, <2>3
<1>7. ThroughInv'
  BY <1>1 DEF DropInv, ThroughInv
<1> QED BY <1>4, <1>5, <1>6, <1>7 DEF DropInv

-----------------------------------------------------------------------------
\* From drop_collection on nothing is promised until the log is gone, too.
LEMMA DropDrop ==
  ASSUME Droppable, DropInv, NEW t \in Thread, Drop(t) PROVE DropInv'
<1> USE DEF Drop, Enter, disk
<1>1. Empty \in Map /\ prom' \in [Key -> Rec \cup {NoRec, NoPromise}]
  BY DEF Empty, Map
<1>2. pc'[t] = "dropsnap" /\ \A u \in Thread : u # t => pc'[u] = "idle"
  BY HolderAlone DEF DropInv, TypeOK
<1>3. TypeOK'
  BY <1>1 DEF DropInv, TypeOK, Pcs, Call, AllOps
<1>4. HolderInv'
  BY <1>2 DEF DropInv, HolderInv, SavePcs
<1>5. \A k \in Key : GoneOf(k)'
  BY NoRecAssumption DEF GoneOf
<1>6. ThroughInv'
  BY DEF DropInv, ThroughInv
<1> QED BY <1>3, <1>4, <1>5, <1>6 DEF DropInv

LEMMA DropDropSnap ==
  ASSUME Droppable, DropInv, NEW t \in Thread, DropSnap(t) PROVE DropInv'
<1>1. /\ pc[t] = "dropsnap" /\ wal' = wal /\ wbuf' = wbuf /\ synced' = Len(wal)
      /\ snap' = Empty /\ hasSnap' = FALSE
      /\ pc' = [pc EXCEPT ![t] = "dropwal"]
      /\ UNCHANGED <<data, known, sync, batch, torn, lock, job, faults, restarts, used, prom>>
  BY ConcatEmptySeq DEF DropSnap, DropInv, ThroughInv, TypeOK
<1>2. pc'[t] = "dropwal" /\ \A u \in Thread : u # t => pc'[u] = "idle"
  BY <1>1, HolderAlone DEF DropInv, TypeOK
<1>3. Empty \in Map /\ Len(wal) \in 0..Len(wal)
  BY LenProperties DEF Empty, Map, DropInv, TypeOK
<1>4. TypeOK'
  BY <1>1, <1>3 DEF DropInv, TypeOK, Pcs
<1>5. HolderInv'
  BY <1>1, <1>2 DEF DropInv, HolderInv, SavePcs
<1>6. \A k \in Key : GoneOf(k)'
  BY <1>1, NoRecAssumption DEF DropInv, HolderInv, GoneOf
<1>7. ThroughInv'
  BY <1>1 DEF DropInv, ThroughInv
<1> QED BY <1>4, <1>5, <1>6, <1>7 DEF DropInv

LEMMA DropDropWal ==
  ASSUME Droppable, DropInv, NEW t \in Thread, DropWal(t) PROVE DropInv'
<1> USE DEF DropWal
<1>1. pc'[t] = "done" /\ \A u \in Thread : u # t => pc'[u] = "idle"
  BY HolderAlone DEF DropInv, TypeOK
<1>2. snap = Empty /\ data = Empty
  BY DEF DropInv, HolderInv
<1>3. prom' \in [Key -> Rec \cup {NoRec, NoPromise}]
  BY DEF Empty
<1>4. TypeOK'
  BY <1>3, EmptyWal DEF DropInv, TypeOK, Pcs
<1>5. HolderInv'
  BY <1>1, <1>2 DEF DropInv, HolderInv, SavePcs
<1>6. ASSUME NEW k \in Key PROVE GoneOf(k)'
  <2>1. Latest(snap, wal, k)' = snap[k]
    BY EmptyLog DEF Latest, Touches
  <2> QED BY <1>2, <2>1 DEF GoneOf, Empty
<1>7. ThroughInv'
  BY EmptyWal DEF DropInv, ThroughInv
<1> QED BY <1>4, <1>5, <1>6, <1>7 DEF DropInv

\* A new process reads what is there, or nothing where there is no snapshot.
LEMMA DropRestart ==
  ASSUME DropInv, Restart, wal' = wal, UNCHANGED <<snap, hasSnap, synced, torn, faults, used>>,
         prom' \in [Key -> Rec \cup {NoRec, NoPromise}],
         \A k \in Key : prom'[k] = NoRec => Latest(snap, wal, k) = NoRec
  PROVE  DropInv'
<1> USE DEF Restart
<1>1. Empty \in Map /\ Idle \in Call /\ <<>> \in Seq(Entry)
  BY EmptySeq DEF Empty, Map, Idle, Call
<1>2. ApplyWal(snap, wal) \in Map /\ \A k \in Key : prom'[k] = NoRec => data'[k] = NoRec
  BY WholeIsRead, FoundGone DEF DropInv, Empty
<1>3. restarts' \in 0..MaxRestarts
  BY BoundAssumption DEF DropInv, TypeOK
<1>4. data' \in Map
  BY <1>1, <1>2
<1>5. TypeOK'
  BY <1>1, <1>3, <1>4 DEF DropInv, TypeOK, Pcs
<1>6. HolderInv'
  BY DEF HolderInv, SavePcs
<1>7. ASSUME NEW k \in Key PROVE GoneOf(k)'
  <2>1. Latest(snap, wal, k)' = Latest(snap, wal, k)
    BY DEF Latest, Touches
  <2> QED BY <1>2, <2>1 DEF GoneOf
<1>8. ThroughInv'
  BY DEF DropInv, ThroughInv
<1> QED BY <1>5, <1>6, <1>7, <1>8 DEF DropInv

LEMMA DropClose ==
  ASSUME Droppable, DropInv, NEW t \in Thread, CloseAll(t) PROVE DropInv'
<1>1. /\ pc[t] = "done" /\ job[t].op = "close" /\ wal' = wal /\ synced' = synced
      /\ prom' = [k \in Key |-> IF known THEN data[k] ELSE prom[k]]
      /\ Restart /\ UNCHANGED <<snap, hasSnap, torn, faults, used>>
  BY ConcatEmptySeq DEF CloseAll, DropInv, ThroughInv, TypeOK
<1>2. prom' \in [Key -> Rec \cup {NoRec, NoPromise}]
  BY <1>1 DEF DropInv, TypeOK, Map
<1>3. ASSUME NEW k \in Key, prom'[k] = NoRec PROVE Latest(snap, wal, k) = NoRec
  <2>1. CASE known
    <3>1. snap = data /\ wal = <<>> /\ data[k] = NoRec
      BY <1>1, <1>3, <2>1 DEF DropInv, HolderInv
    <3> QED BY <3>1, EmptyLog
  <2>2. CASE ~known
    BY <1>1, <1>3, <2>2 DEF DropInv, GoneOf
  <2> QED BY <2>1, <2>2
<1> QED BY <1>1, <1>2, <1>3, DropRestart

LEMMA DropCrash ==
  ASSUME Droppable, DropInv, Crash PROVE DropInv'
<1>1. PICK n \in synced..Len(wal) :
        /\ wal' = SubSeq(wal, 1, n)
        /\ \E tear \in {FALSE} : /\ torn' = (torn \/ tear)
                                 /\ faults' = IF tear THEN faults + 1 ELSE faults
        /\ Restart
        /\ UNCHANGED <<snap, hasSnap, synced, used, prom>>
  BY DEF Crash, MayFail, Droppable
<1>2. n = Len(wal)
  BY LenProperties DEF DropInv, ThroughInv, TypeOK
<1>3. wal' = wal /\ torn' = torn /\ faults' = faults
  BY <1>1, <1>2, WholeIsRead DEF DropInv, TypeOK
<1>4. /\ prom' = prom /\ prom \in [Key -> Rec \cup {NoRec, NoPromise}]
      /\ \A k \in Key : prom[k] = NoRec => Latest(snap, wal, k) = NoRec
  BY <1>1 DEF DropInv, TypeOK, GoneOf
<1> QED BY <1>1, <1>3, <1>4, DropRestart

-----------------------------------------------------------------------------
LEMMA DropClient ==
  ASSUME Droppable, DropInv, NEW t \in Thread, Insert(t) \/ Update(t) \/ Delete(t) PROVE DropInv'
<1>0. used \subseteq Key /\ data \in Map
  BY DEF DropInv, TypeOK
<1>1. CASE Insert(t)
  <2>1. PICK k \in Key \ used, v \in Val :
          /\ Write(t, "insert", [op |-> "insert", key |-> k, rec |-> [val |-> v, ver |-> 1]])
          /\ used' = used \cup {k}
    BY <1>1 DEF Insert
  <2>2. PICK e : e = [op |-> "insert", key |-> k, rec |-> [val |-> v, ver |-> 1]]
    OBVIOUS
  <2>3. e \in Entry
    BY <2>2 DEF Entry, Rec
  <2> QED BY <1>0, <2>1, <2>2, <2>3, DropWrite DEF WriteOps
<1>2. CASE Update(t)
  <2>1. PICK k \in Key, v \in Val :
          /\ data[k] # NoRec
          /\ Write(t, "update", [op |-> "update", key |-> k,
                                 rec |-> [val |-> v, ver |-> data[k].ver + 1]])
    BY <1>2 DEF Update
  <2>2. PICK e : e = [op |-> "update", key |-> k, rec |-> [val |-> v, ver |-> data[k].ver + 1]]
    OBVIOUS
  <2>3. data[k] \in Rec /\ used' \subseteq Key
    BY <1>0, <1>2, <2>1 DEF Update, Map
  <2>4. e \in Entry
    BY <2>2, <2>3 DEF Entry, Rec
  <2> QED BY <2>1, <2>2, <2>3, <2>4, DropWrite DEF WriteOps
<1>3. CASE Delete(t)
  <2>1. PICK k \in Key, o \in {"delete", "delete_many"} :
          Write(t, o, [op |-> "delete", key |-> k, rec |-> NoRec])
    BY <1>3 DEF Delete
  <2>2. PICK e : e = [op |-> "delete", key |-> k, rec |-> NoRec]
    OBVIOUS
  <2>3. e \in Entry /\ used' \subseteq Key
    BY <1>0, <1>3, <2>2 DEF Entry, Delete
  <2> QED BY <2>1, <2>2, <2>3, DropWrite DEF WriteOps
<1> QED BY <1>1, <1>2, <1>3

\* Without batch mode, snapshot() and faults the remaining steps never happen.
LEMMA DropNever ==
  ASSUME Droppable, DropInv, NEW t \in Thread
  PROVE  ~Snapshot(t) /\ ~SaveFails(t) /\ ~BeginBatch(t) /\ ~EndBatch(t) /\ ~EndBatchSync(t)
<1>1. pc[t] # "endsync" /\ batch = FALSE
  BY DEF DropInv, ThroughInv, HolderInv, SavePcs
<1> QED BY <1>1 DEF Droppable, SyncOps, Snapshot, SaveFails, BeginBatch, EndBatch, EndBatchSync

LEMMA DropInvNext == ASSUME Droppable, DropInv, [Next]_vars PROVE DropInv'
<1>1. ASSUME NEW t \in Thread, Client(t) PROVE DropInv'
  BY <1>1, DropClient, DropLog, DropCalls DEF Client
<1>2. ASSUME NEW t \in Thread, Save(t) PROVE DropInv'
  BY <1>2, DropMerge, DropCalls, DropEncode, DropReplace, DropRotateFlush, DropRemove,
     DropReturn, DropNever DEF Save
<1>3. ASSUME NEW t \in Thread, Mode(t) PROVE DropInv'
  BY <1>3, DropNever, DropDrop, DropDropSnap, DropDropWal, DropClose DEF Mode
<1>4. ASSUME UNCHANGED vars PROVE DropInv'
  <2>1. TypeOK' /\ HolderInv'
    BY <1>4 DEF vars, disk, DropInv, TypeOK, HolderInv
  <2> QED BY <1>4, <2>1, DropMoves DEF vars, disk
<1> QED BY <1>1, <1>2, <1>3, <1>4, DropCrash DEF Next

LEMMA GoneIsNotFound == ASSUME DropInv PROVE NoResurrection
<1> SUFFICES ASSUME NEW k \in Key, NEW n \in synced..Len(wal), prom[k] = NoRec
             PROVE  RecoveredAt(n)[k] = NoRec
  BY DEF NoResurrection
<1>1. n = Len(wal)
  BY LenProperties DEF DropInv, ThroughInv, TypeOK
<1>2. Latest(snap, wal, k) = NoRec
  BY DEF DropInv, GoneOf
<1> QED BY <1>1, <1>2, WholeIsRead, FoundGone DEF DropInv, RecoveredAt, Empty

\* A dropped collection and a deleted record stay gone, whatever is inserted after them,
\* wherever drop_collection is interrupted between the removals of the two files
\* (BinaryStore.delete, binary_store.py:197-216), and over any number of restarts.
THEOREM DroppedStaysGone == ASSUME Droppable PROVE Spec => []NoResurrection
<1>1. Init => DropInv
  BY DropInvInit
<1>2. DropInv /\ [Next]_vars => DropInv'
  BY DropInvNext
<1>3. DropInv => NoResurrection
  BY GoneIsNotFound
<1> QED BY <1>1, <1>2, <1>3, PTL DEF Spec
============================================================================
