--------------------------- MODULE CoreStateProofs ---------------------------
(***************************************************************************)
(* Theorems about CoreState and the searches of IndexSearch beside it, for *)
(* any ids, values, threads and cache size.                                *)
(*                                                                         *)
(*   - for every choice of calls, the types: what the variables and the    *)
(*     calls under way can hold (TypeCorrect, at the end);                 *)
(*   - for the locked calls insert, update, delete and get: cache,         *)
(*     indexes, log and history agree with the records, and the collection *)
(*     implements RecordMap;                                               *)
(*   - without batches: a read answers with what was stored once           *)
(*     (AnswersStored);                                                    *)
(*   - without transactions: log and snapshots agree with memory           *)
(*     (LogAgreesBeside);                                                  *)
(*   - with one thread: cache, indexes and log agree with the records, also*)
(*     with transactions, batches and index builds (SoloAgrees);           *)
(*   - beside writers: the loop that fills an index ends with an entry for *)
(*     every record (LoopCovers);                                          *)
(*   - of a search beside the locked calls: what an answer may have that   *)
(*     does not fit, and what it may not lack (the last part).             *)
(*                                                                         *)
(* Each strengthening says for each step of a call what it has done so far:*)
(* of the locked calls, a writer holds the lock and works on the record    *)
(* that is there (WriterInv), an entry is out of the indexes from Unindex  *)
(* to Index only (IndexInv), and a record's version is the length of its   *)
(* history (HistoryInv); the others are beside their theorems.             *)
(***************************************************************************)
EXTENDS IndexSearch, SequenceTheorems, FiniteSetTheorems, TLAPS

CrudOps == {"insert", "update", "delete"}

LockedOnly == Ops \subseteq CrudOps \cup {"get"} /\ Txs = {}

ModeInv == batch = FALSE /\ indexed = TRUE

\* A thread in a call holds the lock; a writer knows the record it replaces.
WriterInv ==
  \A t \in Thread :
    /\ pc[t] \in WritePcs \cup {"idle", "done", "fill"}
    /\ pc[t] # "idle" => lock = t
    /\ pc[t] = "done" => job[t].call = "crud"
    /\ pc[t] = "fill" => job[t].key \in Key /\ job[t].old = data[job[t].key]
    /\ Writing(t) =>
         /\ job[t].call = "crud" /\ job[t].turbo = FALSE
         /\ job[t].op \in CrudOps /\ job[t].key \in used
         /\ IF job[t].op = "delete" THEN job[t].val = NoRec ELSE job[t].val \in Val
         /\ job[t].op = "insert" => pc[t] # "unindex"
         /\ job[t].op = "delete" => pc[t] # "index"
         /\ pc[t] \in {"unindex", "store"} =>
              /\ job[t].old = data[job[t].key]
              /\ job[t].op = "insert" <=> job[t].old = NoRec
         /\ pc[t] \in {"index", "uncache"} =>
              /\ data[job[t].key] = NewRec(job[t])
              /\ data[job[t].key] = NoRec <=> job[t].op = "delete"

\* Records whose entry a call has taken out or not yet put in.
Unlisted == {job[t].key : t \in {u \in Thread : pc[u] \in {"store", "index"}}}

ListedAs(v, k) == data[k] # NoRec /\ k \notin Unlisted /\ data[k].val = v

IndexInv ==
  \A v \in Val, k \in Key : /\ <<v, k>> \in hash <=> ListedAs(v, k)
                            /\ <<v, k>> \in tree <=> ListedAs(v, k)

\* An insert that has its id and has not stored the record yet.
Inserting == {job[t].key : t \in {u \in Thread : pc[u] = "store" /\ job[u].op = "insert"}}

HistoryInv ==
  \A k \in Key :
    /\ \A i \in 1..Len(hist[k]) : hist[k][i].ver = i
    /\ data[k] # NoRec => Len(hist[k]) = data[k].ver /\ k \in used
    /\ k \notin used \/ k \in Inserting => hist[k] = <<>> /\ data[k] = NoRec
    /\ k \in used \ Inserting =>
         /\ hist[k] # <<>>
         /\ hist[k][Len(hist[k])].val = IF data[k] = NoRec THEN NoRec ELSE data[k].val

CoreInv == /\ TypeOK /\ ModeInv /\ WriterInv /\ IndexInv /\ HistoryInv
           /\ CacheIsData /\ logged = data

-----------------------------------------------------------------------------
LEMMA CoreInvInit == ASSUME LockedOnly, Init PROVE CoreInv
<1> USE DEF Init
<1>1. Empty \in Map /\ \A k \in Key : Empty[k] = NoRec
  BY DEF Empty, Map
<1>2. NoJob \in Job
  BY <1>1 DEF NoJob, Job
<1>3. indexed = TRUE /\ batch = FALSE
  BY DEF LockedOnly, CrudOps
<1>4. <<>> \in Seq(Version)
  OBVIOUS
<1>5. TypeOK
  BY <1>1, <1>2, <1>3, <1>4 DEF TypeOK, Pcs
<1>6. ModeInv /\ WriterInv
  BY <1>3 DEF ModeInv, WriterInv, Writing, WritePcs
<1>7. IndexInv /\ HistoryInv
  BY <1>1 DEF IndexInv, ListedAs, HistoryInv, Inserting
<1>8. CacheIsData
  BY <1>1 DEF CacheIsData
<1> QED BY <1>5, <1>6, <1>7, <1>8 DEF CoreInv

\* Nothing but the locked calls happens.
LEMMA OnlyLocked ==
  ASSUME LockedOnly, CoreInv, Next
  PROVE  \E t \in Thread : \/ RawWrite(t) \/ Crud(t) \/ Return(t) \/ GetFill(t)
                           \/ \E k \in Key : GetHit(t, k) \/ GetMiss(t, k)
<1>1. PICK t \in Thread : RawWrite(t) \/ Locked(t) \/ Tx(t) \/ Build(t)
  BY DEF Next
<1>2. pc[t] \in WritePcs \cup {"idle", "done", "fill"} /\ (pc[t] = "done" => job[t].call = "crud")
  BY DEF CoreInv, WriterInv
<1>3. ~Tx(t)
  BY <1>2 DEF LockedOnly, WritePcs, Tx, TxBegin, TxBuffer, TxCommit, TxApply, TxNext, TxFlush,
              TxAbort, TxRestore
<1>4. ~Build(t)
  BY <1>2 DEF LockedOnly, CrudOps, WritePcs, CoreInv, ModeInv, Build, BeginBatch, Rebuild,
              ClearHash, CreateIndex, Scan, AddEntry, ScanDone, ScanFails, LoadTree, RebuildDone
<1>5. ~Drop(t)
  BY DEF LockedOnly, CrudOps, Drop
<1> QED BY <1>1, <1>3, <1>4, <1>5 DEF Locked

\* One thread at a time is in a call.
LEMMA OthersIdle ==
  ASSUME CoreInv, NEW t \in Thread, pc[t] # "idle" \/ lock = NoThread
  PROVE  \A u \in Thread \ {t} : pc[u] = "idle"
BY NoThreadAssumption DEF CoreInv, WriterInv

\* An update of one record, in the function of all records.
LEMMA MapExcept ==
  ASSUME NEW m \in Map, NEW k \in Key, NEW r \in Rec \cup {NoRec}
  PROVE  /\ [m EXCEPT ![k] = r] \in Map
         /\ [m EXCEPT ![k] = r][k] = r
         /\ \A j \in Key \ {k} : [m EXCEPT ![k] = r][j] = m[j]
BY DEF Map

\* What a writer stores is a record.
LEMMA NewRecType ==
  ASSUME NEW j \in Job, j.op # "delete" => j.val \in Val,
         j.op \in {"update", "delete"} => j.old \in Rec, j.op \in CrudOps
  PROVE  /\ NewRec(j) \in Rec \cup {NoRec}
         /\ NewRec(j) = NoRec <=> j.op = "delete"
         /\ NewVersion(j) \in Version
<1>1. j.op = "delete" => NewRec(j) = NoRec
  BY DEF NewRec
<1>2. ASSUME j.op \in {"update", "delete"} PROVE j.old.ver + 1 \in Nat
  BY <1>2 DEF Rec
<1>3. NewVersion(j) \in Version
  BY <1>2 DEF NewVersion, Version, Job, CrudOps
<1>4. ASSUME j.op # "delete" PROVE NewRec(j) \in Rec
  BY <1>2, <1>4 DEF NewRec, NewVersion, Rec, Job, CrudOps
<1> QED BY <1>1, <1>3, <1>4, NoRecAssumption

\* With the others idle, t alone decides what is unlisted and being inserted.
LEMMA OneWriter ==
  ASSUME NEW t \in Thread, \A u \in Thread \ {t} : pc[u] = "idle"
  PROVE  /\ Unlisted = IF pc[t] \in {"store", "index"} THEN {job[t].key} ELSE {}
         /\ Inserting = IF pc[t] = "store" /\ job[t].op = "insert" THEN {job[t].key} ELSE {}
BY DEF Unlisted, Inserting

LEMMA OneWriterNext ==
  ASSUME NEW t \in Thread, \A u \in Thread \ {t} : pc'[u] = "idle"
  PROVE  /\ Unlisted' = IF pc'[t] \in {"store", "index"} THEN {job'[t].key} ELSE {}
         /\ Inserting' = IF pc'[t] = "store" /\ job'[t].op = "insert" THEN {job'[t].key} ELSE {}
BY DEF Unlisted, Inserting

LEMMA NoJobType == NoJob \in Job
BY DEF NoJob, Job, Empty, Map

LEMMA BeginType ==
  ASSUME NEW j \in Job, NEW o \in CrudOps, NEW k \in Key, NEW v \in Val \cup {NoRec},
         NEW r \in Rec \cup {NoRec}, NEW b \in BOOLEAN
  PROVE  [j EXCEPT !.op = o, !.key = k, !.val = v, !.old = r, !.turbo = b,
                   !.touched = @ \cup {k}] \in Job
BY DEF Job, CrudOps

-----------------------------------------------------------------------------
(* The steps of a call.                                                    *)

LEMMA CrudStep ==
  ASSUME LockedOnly, CoreInv, NEW t \in Thread, Crud(t) PROVE CoreInv'
<1>1. PICK o \in CrudOps, v \in Val : \E i \in Target(o) :
        Begin(t, [NoJob EXCEPT !.call = "crud"], o, i, IF o = "delete" THEN NoRec ELSE v)
  BY DEF Crud, CrudOps
<1>0. PICK k \in Target(o) :
        Begin(t, [NoJob EXCEPT !.call = "crud"], o, k, IF o = "delete" THEN NoRec ELSE v)
  BY <1>1
<1> DEFINE w == IF o = "delete" THEN NoRec ELSE v
           J == [[NoJob EXCEPT !.call = "crud"] EXCEPT
                   !.op = o, !.key = k, !.val = w, !.old = data[k],
                   !.turbo = batch, !.touched = @ \cup {k}]
           p == IF o = "insert" THEN "store" ELSE "unindex"
<1>2. /\ pc[t] = "idle" /\ lock = NoThread /\ lock' = t
      /\ pc' = [pc EXCEPT ![t] = p] /\ job' = [job EXCEPT ![t] = J]
      /\ used' = IF o = "insert" THEN used \cup {k} ELSE used
      /\ UNCHANGED <<data, logged, cache, indexed, hash, tree, hist, batch, answer>>
  BY <1>0 DEF Crud, Enter, Begin, Goto
<1>3. k \in Key /\ (o = "insert" => k \notin used) /\ (o # "insert" => data[k] # NoRec)
  BY <1>0 DEF Target, Present
<1>4. TypeOK /\ batch = FALSE
  BY DEF CoreInv, ModeInv
<1>5. /\ J.call = "crud" /\ J.op = o /\ J.key = k /\ J.val = w /\ J.old = data[k]
      /\ J.turbo = FALSE
  BY <1>4 DEF NoJob
<1>6. J \in Job
  <2>1. data[k] \in Rec \cup {NoRec} /\ w \in Val \cup {NoRec}
    BY <1>3, <1>4 DEF TypeOK, Map
  <2>2. PICK N \in Job : N = [NoJob EXCEPT !.call = "crud"]
    BY NoJobType DEF Job
  <2> QED BY <1>3, <1>4, <2>1, <2>2, BeginType
<1> HIDE DEF J
<1>7. TypeOK'
  BY <1>2, <1>3, <1>4, <1>6 DEF TypeOK, Pcs, WritePcs
<1>8. \A u \in Thread \ {t} : pc[u] = "idle" /\ pc'[u] = "idle"
  BY <1>2, <1>4, OthersIdle DEF TypeOK
<1>9. pc'[t] = p /\ job'[t] = J
  BY <1>2, <1>4 DEF TypeOK
<1>10. data[k] = NoRec <=> o = "insert"
  BY <1>3 DEF CoreInv, HistoryInv
<1>11. WriterInv'
  <2>1. k \in used' /\ IF o = "delete" THEN w = NoRec ELSE w \in Val
    BY <1>2, <1>3, <1>10 DEF CoreInv, HistoryInv
  <2>2. \A u \in Thread : u # t => pc'[u] = "idle"
    BY <1>8
  <2>3. p \in {"store", "unindex"} /\ (o = "insert" => p # "unindex")
    OBVIOUS
  <2> HIDE DEF p, w
  <2> QED BY <1>2, <1>5, <1>9, <1>10, <2>1, <2>2, <2>3 DEF WriterInv, Writing, WritePcs
<1>12. Unlisted = {} /\ Inserting = {}
  BY <1>2, <1>8, OneWriter
<1>13. Unlisted' = (IF o = "insert" THEN {k} ELSE {}) /\ Inserting' = Unlisted'
  BY <1>5, <1>8, <1>9, OneWriterNext
<1>14. IndexInv'
  BY <1>2, <1>10, <1>12, <1>13 DEF CoreInv, IndexInv, ListedAs
<1>15. HistoryInv'
  <2>1. used' = used \cup Inserting' /\ (o = "insert" => k \notin used)
    BY <1>2, <1>3, <1>13
  <2>2. hist' = hist /\ data' = data /\ HistoryInv
    BY <1>2 DEF CoreInv
  <2> QED BY <1>12, <1>13, <2>1, <2>2 DEF HistoryInv
<1>16. CacheIsData'
  BY <1>2, <1>8, <1>9 DEF CoreInv, CacheIsData, Writing, WritePcs
<1> QED BY <1>2, <1>7, <1>11, <1>14, <1>15, <1>16 DEF CoreInv, ModeInv

LEMMA UnindexStep ==
  ASSUME CoreInv, NEW t \in Thread, Unindex(t) PROVE CoreInv'
<1> DEFINE k == job[t].key
<1>1. /\ pc[t] = "unindex" /\ pc' = [pc EXCEPT ![t] = "store"]
      /\ hash' = hash \ {<<job[t].old.val, k>>} /\ tree' = tree \ {<<job[t].old.val, k>>}
      /\ UNCHANGED <<data, logged, cache, indexed, hist, batch, lock, job, answer, used>>
  BY DEF Unindex, UnindexRecord, UnindexRecordSorted, Goto
<1>2. TypeOK /\ WriterInv /\ IndexInv /\ HistoryInv
  BY DEF CoreInv
<1>3. Writing(t) /\ k \in Key /\ job[t].op # "insert" /\ data[k] # NoRec
  BY <1>1, <1>2 DEF WriterInv, Writing, WritePcs, TypeOK, Job
<1>4. pc'[t] = "store" /\ \A u \in Thread \ {t} : pc[u] = "idle" /\ pc'[u] = "idle"
  BY <1>1, <1>2, OthersIdle DEF TypeOK
<1>5. Unlisted = {} /\ Inserting = {} /\ Unlisted' = {k} /\ Inserting' = {}
  BY <1>1, <1>3, <1>4, OneWriter, OneWriterNext
<1>6. TypeOK'
  BY <1>1, <1>2 DEF TypeOK, Pcs, WritePcs
<1>7. WriterInv'
  BY <1>1, <1>2, <1>3, <1>4 DEF WriterInv, Writing, WritePcs, CrudOps
<1>8. IndexInv'
  <2>1. job[t].old = data[k]
    BY <1>1, <1>2, <1>3 DEF WriterInv, Writing, WritePcs
  <2>2. \A v \in Val, j \in Key : ListedAs(v, j)' <=> ListedAs(v, j) /\ j # k
    BY <1>1, <1>5 DEF ListedAs
  <2>3. ASSUME NEW v \in Val, NEW j \in Key
        PROVE  ListedAs(v, j) /\ j # k <=> ListedAs(v, j) /\ <<v, j>> # <<job[t].old.val, k>>
    BY <2>1 DEF ListedAs
  <2>4. ASSUME NEW v \in Val, NEW j \in Key
        PROVE  /\ <<v, j>> \in hash' <=> ListedAs(v, j)'
               /\ <<v, j>> \in tree' <=> ListedAs(v, j)'
    BY <1>1, <1>2, <2>2, <2>3 DEF IndexInv
  <2> QED BY <2>4 DEF IndexInv
<1>9. HistoryInv'
  BY <1>1, <1>2, <1>5 DEF HistoryInv
<1>10. CacheIsData'
  BY <1>1, <1>3, <1>4 DEF CoreInv, CacheIsData, Writing, WritePcs
<1> QED BY <1>1, <1>6, <1>7, <1>8, <1>9, <1>10 DEF CoreInv, ModeInv

LEMMA IndexStep ==
  ASSUME CoreInv, NEW t \in Thread, Index(t) PROVE CoreInv'
<1> DEFINE k == job[t].key
<1>1. /\ pc[t] = "index" /\ pc' = [pc EXCEPT ![t] = "uncache"]
      /\ hash' = hash \cup {<<job[t].val, k>>} /\ tree' = tree \cup {<<job[t].val, k>>}
      /\ UNCHANGED <<data, logged, cache, indexed, hist, batch, lock, job, answer, used>>
  BY DEF CoreInv, ModeInv, Index, IndexRecord, IndexRecordSorted, Goto
<1>2. TypeOK /\ WriterInv /\ IndexInv /\ HistoryInv
  BY DEF CoreInv
<1>3. /\ Writing(t) /\ k \in Key /\ job[t].op \in {"insert", "update"} /\ job[t].val \in Val
      /\ data[k] = NewRec(job[t])
  BY <1>1, <1>2 DEF WriterInv, Writing, WritePcs, TypeOK, Job, CrudOps
<1>4. pc'[t] = "uncache" /\ \A u \in Thread \ {t} : pc[u] = "idle" /\ pc'[u] = "idle"
  BY <1>1, <1>2, OthersIdle DEF TypeOK
<1>5. Unlisted = {k} /\ Inserting = {} /\ Unlisted' = {} /\ Inserting' = {}
  BY <1>1, <1>3, <1>4, OneWriter, OneWriterNext
<1>6. data[k].val = job[t].val /\ data[k] # NoRec
  BY <1>1, <1>2, <1>3 DEF WriterInv, Writing, WritePcs, NewRec, NewVersion
<1>7. TypeOK'
  BY <1>1, <1>2, <1>3 DEF TypeOK, Pcs, WritePcs
<1>8. WriterInv'
  BY <1>1, <1>2, <1>3, <1>4 DEF WriterInv, Writing, WritePcs, CrudOps
<1>9. IndexInv'
  BY <1>1, <1>2, <1>3, <1>5, <1>6 DEF IndexInv, ListedAs
<1>10. HistoryInv'
  BY <1>1, <1>2, <1>5 DEF HistoryInv
<1>11. CacheIsData'
  BY <1>1, <1>3, <1>4 DEF CoreInv, CacheIsData, Writing, WritePcs
<1> QED BY <1>1, <1>7, <1>8, <1>9, <1>10, <1>11 DEF CoreInv, ModeInv

\* The record that a writer is about to store, in the history and in memory.
LEMMA StoreStep ==
  ASSUME CoreInv, NEW t \in Thread, Store(t) PROVE CoreInv'
<1> DEFINE k == job[t].key
           R == NewRec(job[t])
           V == NewVersion(job[t])
           p == IF job[t].op = "delete" THEN "uncache" ELSE "index"
<1>1. TypeOK /\ ModeInv /\ WriterInv /\ IndexInv /\ HistoryInv /\ logged = data
  BY DEF CoreInv
<1>2. pc[t] = "store" /\ job[t].turbo = FALSE
  BY <1>1 DEF Store, WriterInv, Writing, WritePcs
<1>3. /\ pc' = [pc EXCEPT ![t] = p] /\ data' = [data EXCEPT ![k] = R]
      /\ logged' = [logged EXCEPT ![k] = R] /\ hist' = [hist EXCEPT ![k] = Append(@, V)]
      /\ UNCHANGED <<cache, indexed, hash, tree, batch, lock, job, answer, used>>
  BY <1>1, <1>2 DEF Store, ModeInv, Goto
<1>4. /\ Writing(t) /\ k \in Key /\ k \in used /\ job[t].op \in CrudOps
      /\ job[t] \in Job /\ job[t].old = data[k]
      /\ job[t].op = "insert" <=> data[k] = NoRec
      /\ IF job[t].op = "delete" THEN job[t].val = NoRec ELSE job[t].val \in Val
  BY <1>1, <1>2 DEF WriterInv, Writing, WritePcs, TypeOK
<1>5. /\ R \in Rec \cup {NoRec} /\ V \in Version
      /\ R = NoRec <=> job[t].op = "delete"
  <2>1. job[t].op \in {"update", "delete"} => job[t].old \in Rec
    BY <1>1, <1>4 DEF TypeOK, Map
  <2> QED BY <1>4, <2>1, NewRecType
<1>6. pc'[t] = p /\ \A u \in Thread \ {t} : pc[u] = "idle" /\ pc'[u] = "idle"
  BY <1>1, <1>2, <1>3, OthersIdle DEF TypeOK
<1>7. Unlisted = {k} /\ Inserting = (IF job[t].op = "insert" THEN {k} ELSE {})
  BY <1>2, <1>6, OneWriter
<1>8. Unlisted' = (IF job[t].op = "delete" THEN {} ELSE {k}) /\ Inserting' = {}
  BY <1>3, <1>6, OneWriterNext
<1> HIDE DEF R, V, p
<1>9. /\ data' \in Map /\ data'[k] = R /\ \A j \in Key \ {k} : data'[j] = data[j]
      /\ logged' = data'
  BY <1>1, <1>3, <1>4, <1>5 DEF TypeOK, Map
<1>10. TypeOK'
  <2>1. hist[k] \in Seq(Version) /\ Append(hist[k], V) \in Seq(Version)
    BY <1>1, <1>4, <1>5, AppendProperties DEF TypeOK
  <2>2. hist' \in [Key -> Seq(Version)]
    BY <1>1, <1>3, <2>1 DEF TypeOK
  <2>3. pc' \in [Thread -> Pcs]
    BY <1>1, <1>3 DEF TypeOK, Pcs, WritePcs, p
  <2> QED BY <1>1, <1>3, <1>9, <2>2, <2>3 DEF TypeOK
<1>11. WriterInv'
  <2>1. p \in {"index", "uncache"} /\ (p = "index" => job[t].op # "delete")
    BY DEF p
  <2>2. data'[k] = NewRec(job[t]) /\ (data'[k] = NoRec <=> job[t].op = "delete")
    BY <1>5, <1>9 DEF R
  <2> QED BY <1>1, <1>2, <1>3, <1>4, <1>6, <2>1, <2>2 DEF WriterInv, Writing, WritePcs, NewRec,
            NewVersion
<1>12. IndexInv'
  <2>1. \A v \in Val, j \in Key : ListedAs(v, j)' <=> ListedAs(v, j)
    BY <1>4, <1>5, <1>7, <1>8, <1>9 DEF ListedAs
  <2> QED BY <1>1, <1>3, <2>1 DEF IndexInv
<1>13. HistoryInv'
  <2> DEFINE h == hist[k]
  <2>1. /\ V.ver = Len(h) + 1 /\ (R # NoRec => R = V)
        /\ V.val = IF R = NoRec THEN NoRec ELSE R.val
    <3>1. CASE job[t].op = "insert"
      <4>1. h = <<>> /\ R = V
        BY <1>1, <1>4, <1>7, <3>1 DEF HistoryInv, R, V, NewRec
      <4> QED BY <1>5, <3>1, <4>1 DEF V, NewVersion
    <3>2. CASE job[t].op # "insert"
      <4>1. Len(h) = data[k].ver /\ V.ver = data[k].ver + 1 /\ V.val = job[t].val
        BY <1>1, <1>4, <3>2 DEF HistoryInv, V, NewVersion
      <4> QED BY <1>4, <1>5, <4>1, NoRecAssumption DEF R, V, NewRec
    <3> QED BY <3>1, <3>2
  <2>2. h \in Seq(Version) /\ \A i \in 1..Len(h) : h[i].ver = i
    BY <1>1, <1>4 DEF TypeOK, HistoryInv
  <2>3. PICK g \in Seq(Version) : g = Append(h, V)
    BY <1>5, <2>2, AppendProperties
  <2>4. /\ Len(g) = Len(h) + 1 /\ Len(h) \in Nat /\ g[Len(h) + 1] = V
        /\ \A i \in 1..Len(h) : g[i] = h[i]
    BY <1>5, <2>2, <2>3, AppendProperties, LenProperties
  <2>5. \A i \in 1..Len(g) : g[i].ver = i
    BY <2>1, <2>2, <2>4
  <2>6. g # <<>> /\ g[Len(g)] = V
    BY <2>4
  <2>7. hist'[k] = g /\ \A j \in Key \ {k} : hist'[j] = hist[j]
    BY <1>1, <1>3, <1>4, <2>3 DEF TypeOK
  <2> HIDE DEF h
  <2>8. \A j \in Key \ {k} : j \in Inserting' <=> j \in Inserting
    BY <1>7, <1>8
  <2> SUFFICES ASSUME NEW j \in Key
               PROVE /\ \A i \in 1..Len(hist'[j]) : hist'[j][i].ver = i
                     /\ data'[j] # NoRec => Len(hist'[j]) = data'[j].ver /\ j \in used
                     /\ j \notin used \/ j \in Inserting' => hist'[j] = <<>> /\ data'[j] = NoRec
                     /\ j \in used \ Inserting' =>
                          /\ hist'[j] # <<>>
                          /\ hist'[j][Len(hist'[j])].val =
                               IF data'[j] = NoRec THEN NoRec ELSE data'[j].val
    BY <1>3 DEF HistoryInv
  <2>9. CASE j = k
    BY <1>4, <1>8, <1>9, <2>1, <2>4, <2>5, <2>6, <2>7, <2>9
  <2>10. CASE j # k
    BY <1>1, <1>9, <2>7, <2>8, <2>10 DEF HistoryInv
  <2> QED BY <2>9, <2>10
<1>14. CacheIsData'
  BY <1>2, <1>3, <1>4, <1>6, <1>9 DEF CoreInv, CacheIsData, Writing, WritePcs, p
<1> QED BY <1>1, <1>3, <1>9, <1>10, <1>11, <1>12, <1>13, <1>14 DEF CoreInv, ModeInv

\* commit is not running, so the record to be deleted is there.
LEMMA NoDeleteGone ==
  ASSUME CoreInv, NEW t \in Thread PROVE ~DeleteGone(t)
BY DEF CoreInv, WriterInv, Writing, WritePcs, DeleteGone

\* The cache takes a record in and may lose others.
LEMMA CacheSetType ==
  ASSUME cache \in Map, NEW k \in Key, NEW r \in Rec, CacheSet(k, r)
  PROVE  /\ cache' \in Map
         /\ \A j \in Key : cache'[j] # NoRec => cache'[j] = IF j = k THEN r ELSE cache[j]
<1> DEFINE full == [cache EXCEPT ![k] = r]
<1>1. full \in Map /\ \A j \in Key : full[j] = IF j = k THEN r ELSE cache[j]
  BY DEF Map
<1>2. cache' = full \/ \E old \in Key : cache' = [full EXCEPT ![old] = NoRec]
  BY DEF CacheSet, Present
<1> HIDE DEF full
<1>3. CASE cache' = full
  BY <1>1, <1>3
<1>4. ASSUME NEW old \in Key, cache' = [full EXCEPT ![old] = NoRec]
      PROVE  /\ cache' \in Map
             /\ \A j \in Key : cache'[j] = IF j = old THEN NoRec ELSE full[j]
  BY <1>1, <1>4 DEF Map
<1> QED BY <1>1, <1>2, <1>3, <1>4

LEMMA UncacheStep ==
  ASSUME CoreInv, NEW t \in Thread, Uncache(t) PROVE CoreInv'
<1> DEFINE k == job[t].key
<1>1. /\ pc[t] = "uncache" /\ pc' = [pc EXCEPT ![t] = "done"]
      /\ IF job[t].op = "insert" THEN CacheSet(k, NewRec(job[t]))
         ELSE cache' = [cache EXCEPT ![k] = NoRec]
      /\ UNCHANGED <<data, logged, indexed, hash, tree, hist, batch, lock, job, answer, used>>
  BY DEF Uncache, Goto
<1>2. TypeOK /\ WriterInv /\ IndexInv /\ HistoryInv /\ CacheIsData
  BY DEF CoreInv
<1>3. /\ Writing(t) /\ k \in Key /\ data[k] = NewRec(job[t]) /\ job[t].call = "crud"
      /\ job[t].op = "insert" => data[k] \in Rec
  BY <1>1, <1>2 DEF WriterInv, Writing, WritePcs, TypeOK, Map
<1>4. pc'[t] = "done" /\ \A u \in Thread \ {t} : pc[u] = "idle" /\ pc'[u] = "idle"
  BY <1>1, <1>2, OthersIdle DEF TypeOK
<1>5. Unlisted = {} /\ Inserting = {} /\ Unlisted' = {} /\ Inserting' = {}
  BY <1>1, <1>4, OneWriter, OneWriterNext
<1>6. /\ cache' \in Map
      /\ \A j \in Key : cache'[j] # NoRec => cache'[j] = IF j = k THEN data[k] ELSE cache[j]
  <2>1. CASE job[t].op = "insert"
    BY <1>1, <1>2, <1>3, <2>1, CacheSetType DEF TypeOK
  <2>2. CASE job[t].op # "insert"
    BY <1>1, <1>2, <1>3, <2>2 DEF TypeOK, Map
  <2> QED BY <2>1, <2>2
<1>7. TypeOK'
  BY <1>1, <1>2, <1>6 DEF TypeOK, Pcs, WritePcs
<1>8. WriterInv'
  BY <1>1, <1>2, <1>3, <1>4 DEF WriterInv, Writing, WritePcs
<1>9. IndexInv'
  BY <1>1, <1>2, <1>5 DEF IndexInv, ListedAs
<1>10. HistoryInv'
  BY <1>1, <1>2, <1>5 DEF HistoryInv
<1>11. CacheIsData'
  BY <1>1, <1>2, <1>4, <1>6 DEF CacheIsData, Writing, WritePcs
<1> QED BY <1>1, <1>7, <1>8, <1>9, <1>10, <1>11 DEF CoreInv, ModeInv

\* Steps outside the raw operations: the records and what is derived from them
\* stay, the cache may take in a record that is there.
LEMMA OutsideStep ==
  ASSUME CoreInv, NEW t \in Thread,
         \A u \in Thread \ {t} : pc[u] = "idle" /\ pc'[u] = "idle",
         ~Writing(t), pc'[t] \in {"idle", "done", "fill"}, TypeOK', WriterInv',
         \A j \in Key : cache'[j] # NoRec => cache'[j] = cache[j] \/ cache'[j] = data[j],
         UNCHANGED <<data, logged, indexed, hash, tree, hist, batch, used>>
  PROVE  CoreInv'
<1>1. pc[t] \notin WritePcs /\ pc'[t] \notin WritePcs
  BY DEF Writing, WritePcs
<1>2. Unlisted = {} /\ Inserting = {} /\ Unlisted' = {} /\ Inserting' = {}
  BY <1>1, OneWriter, OneWriterNext DEF WritePcs
<1>3. IndexInv' /\ HistoryInv'
  BY <1>2 DEF CoreInv, IndexInv, ListedAs, HistoryInv
<1>4. CacheIsData'
  BY <1>1 DEF CoreInv, CacheIsData, Writing, WritePcs
<1> QED BY <1>3, <1>4 DEF CoreInv, ModeInv

LEMMA ReturnStep ==
  ASSUME CoreInv, NEW t \in Thread, Return(t) PROVE CoreInv'
<1>1. /\ pc[t] = "done" /\ pc' = [pc EXCEPT ![t] = "idle"] /\ job' = [job EXCEPT ![t] = NoJob]
      /\ lock' = NoThread
      /\ UNCHANGED <<data, logged, cache, indexed, hash, tree, hist, batch, answer, used>>
  BY DEF Return, Goto
<1>2. pc'[t] = "idle" /\ \A u \in Thread \ {t} : pc[u] = "idle" /\ pc'[u] = "idle"
  BY <1>1, OthersIdle DEF CoreInv, TypeOK
<1>3. TypeOK'
  BY <1>1, NoJobType DEF CoreInv, TypeOK, Pcs
<1>4. WriterInv' /\ ~Writing(t)
  BY <1>1, <1>2 DEF WriterInv, Writing, WritePcs
<1> QED BY <1>1, <1>2, <1>3, <1>4, OutsideStep

\* A cached record is the one that is there: nobody is writing.
LEMMA GetHitStep ==
  ASSUME CoreInv, NEW t \in Thread, NEW k \in Key, GetHit(t, k)
  PROVE  CoreInv' /\ answer' = [answer EXCEPT ![t] = data[k]] /\ data' = data
<1>1. /\ pc[t] = "idle" /\ lock = NoThread /\ cache[k] # NoRec
      /\ answer' = [answer EXCEPT ![t] = cache[k]]
      /\ UNCHANGED <<data, logged, cache, indexed, hash, tree, hist, batch, lock, pc, job, used>>
  BY DEF GetHit
<1>2. \A u \in Thread : pc[u] = "idle" /\ pc'[u] = "idle"
  BY <1>1, OthersIdle
<1>3. cache[k] = data[k]
  BY <1>1, <1>2 DEF CoreInv, CacheIsData, Writing, WritePcs
<1>4. TypeOK'
  BY <1>1 DEF CoreInv, TypeOK, Map
<1>5. WriterInv' /\ ~Writing(t)
  BY <1>2 DEF WriterInv, Writing, WritePcs
<1> QED BY <1>1, <1>2, <1>3, <1>4, <1>5, OutsideStep

LEMMA GetMissStep ==
  ASSUME CoreInv, NEW t \in Thread, NEW k \in Key, GetMiss(t, k) PROVE CoreInv'
<1> DEFINE J == [NoJob EXCEPT !.call = "get", !.key = k, !.old = data[k]]
<1>1. /\ pc[t] = "idle" /\ lock = NoThread /\ lock' = t
      /\ pc' = [pc EXCEPT ![t] = "fill"] /\ job' = [job EXCEPT ![t] = J]
      /\ UNCHANGED <<data, logged, cache, indexed, hash, tree, hist, batch, answer, used>>
  BY DEF GetMiss, Enter, Goto
<1>2. pc'[t] = "fill" /\ \A u \in Thread \ {t} : pc[u] = "idle" /\ pc'[u] = "idle"
  BY <1>1, OthersIdle DEF CoreInv, TypeOK
<1>3. J \in Job /\ J.key = k /\ J.old = data[k]
  <2>1. data[k] \in Rec \cup {NoRec}
    BY DEF CoreInv, TypeOK, Map
  <2> QED BY <2>1, NoJobType DEF Job
<1> HIDE DEF J
<1>4. TypeOK'
  BY <1>1, <1>3 DEF CoreInv, TypeOK, Pcs
<1>5. job'[t] = J
  BY <1>1 DEF CoreInv, TypeOK
<1>6. WriterInv' /\ ~Writing(t)
  BY <1>1, <1>2, <1>3, <1>5 DEF WriterInv, Writing, WritePcs
<1> QED BY <1>1, <1>2, <1>4, <1>6, OutsideStep

LEMMA GetFillStep ==
  ASSUME CoreInv, NEW t \in Thread, GetFill(t)
  PROVE  /\ CoreInv' /\ data' = data
         /\ \E k \in Key : answer' = [answer EXCEPT ![t] = data[k]]
<1> DEFINE k == job[t].key
<1>1. /\ pc[t] = "fill" /\ pc' = [pc EXCEPT ![t] = "idle"] /\ job' = [job EXCEPT ![t] = NoJob]
      /\ lock' = NoThread /\ answer' = [answer EXCEPT ![t] = job[t].old]
      /\ IF job[t].old = NoRec THEN UNCHANGED cache ELSE CacheSet(k, job[t].old)
      /\ UNCHANGED <<data, logged, indexed, hash, tree, hist, batch, used>>
  BY DEF GetFill, Goto
<1>2. pc'[t] = "idle" /\ \A u \in Thread \ {t} : pc[u] = "idle" /\ pc'[u] = "idle"
  BY <1>1, OthersIdle DEF CoreInv, TypeOK
<1>3. k \in Key /\ job[t].old = data[k] /\ data[k] \in Rec \cup {NoRec} /\ cache \in Map
  BY <1>1 DEF CoreInv, WriterInv, TypeOK, Map
<1>4. /\ cache' \in Map
      /\ \A j \in Key : cache'[j] # NoRec => cache'[j] = cache[j] \/ cache'[j] = data[j]
  <2>1. CASE data[k] = NoRec
    BY <1>1, <1>3, <2>1
  <2>2. CASE data[k] # NoRec
    BY <1>1, <1>3, <2>2, CacheSetType
  <2> QED BY <2>1, <2>2
<1>5. TypeOK'
  BY <1>1, <1>3, <1>4, NoJobType DEF CoreInv, TypeOK, Pcs
<1>6. WriterInv' /\ ~Writing(t)
  BY <1>1, <1>2 DEF WriterInv, Writing, WritePcs
<1>7. CoreInv'
  BY <1>1, <1>2, <1>4, <1>5, <1>6, OutsideStep
<1> QED BY <1>1, <1>3, <1>7

LEMMA CoreInvNext == ASSUME LockedOnly, CoreInv, [Next]_vars PROVE CoreInv'
<1>1. CASE UNCHANGED vars
  BY <1>1 DEF vars, CoreInv, TypeOK, ModeInv, WriterInv, Writing, IndexInv, ListedAs, Unlisted,
              HistoryInv, Inserting, CacheIsData
<1>2. CASE Next
  <2>1. PICK t \in Thread : \/ RawWrite(t) \/ Crud(t) \/ Return(t) \/ GetFill(t)
                            \/ \E k \in Key : GetHit(t, k) \/ GetMiss(t, k)
    BY <1>2, OnlyLocked
  <2>2. CASE RawWrite(t)
    BY <2>2, UnindexStep, StoreStep, NoDeleteGone, IndexStep, UncacheStep DEF RawWrite
  <2>3. CASE Crud(t) \/ Return(t) \/ GetFill(t)
    BY <2>3, CrudStep, ReturnStep, GetFillStep
  <2>4. CASE \E k \in Key : GetHit(t, k) \/ GetMiss(t, k)
    BY <2>4, GetHitStep, GetMissStep
  <2> QED BY <2>1, <2>2, <2>3, <2>4
<1> QED BY <1>1, <1>2

-----------------------------------------------------------------------------
(* The theorems.                                                           *)

\* LockedOnly is about constants, so it holds for ever.
LEMMA CoreInvAlways == ASSUME LockedOnly PROVE Spec => []CoreInv
<1>1. Init => CoreInv
  BY CoreInvInit
<1>2. CoreInv /\ [Next]_vars => CoreInv'
  BY CoreInvNext
<1> QED BY <1>1, <1>2, PTL DEF Spec

\* A get answers with the record that is there: the cache agrees with memory
\* about every id nobody is writing (engine.py:465-477).
THEOREM CacheAgrees == ASSUME LockedOnly PROVE Spec => []CacheIsData
<1>1. CoreInv => CacheIsData
  BY DEF CoreInv
<1> QED BY <1>1, CoreInvAlways, PTL

\* Between calls both indexes hold exactly the records (engine.py:506-531).
THEOREM IndexAgrees == ASSUME LockedOnly PROVE Spec => []IndexIsData
<1>1. ASSUME CoreInv PROVE IndexIsData
  <2> SUFFICES ASSUME Quiet PROVE hash = Entries(data) /\ tree = Entries(data)
    BY DEF IndexIsData
  <2>1. Unlisted = {}
    BY DEF Quiet, Writing, WritePcs, Unlisted
  <2>2. hash \subseteq Val \X Key /\ tree \subseteq Val \X Key /\ data \in Map
    BY <1>1 DEF CoreInv, TypeOK
  <2>3. \A v \in Val, k \in Key :
          /\ <<v, k>> \in hash <=> data[k] # NoRec /\ data[k].val = v
          /\ <<v, k>> \in tree <=> data[k] # NoRec /\ data[k].val = v
    <3>1. IndexInv
      BY <1>1 DEF CoreInv
    <3>2. \A k : k \notin Unlisted
      BY <2>1
    <3> TAKE v \in Val, k \in Key
    <3>3. /\ <<v, k>> \in hash <=> ListedAs(v, k)
          /\ <<v, k>> \in tree <=> ListedAs(v, k)
      BY <3>1 DEF IndexInv
    <3> QED BY <3>2, <3>3 DEF ListedAs
  <2>4. \A k \in Key : data[k] # NoRec => data[k].val \in Val
    BY <2>2 DEF Map, Rec
  <2>5. \A v \in Val, k \in Key :
          <<v, k>> \in Entries(data) <=> data[k] # NoRec /\ data[k].val = v
    BY DEF Entries, Present
  <2>6. Entries(data) \subseteq Val \X Key
    BY <2>4 DEF Entries, Present
  <2>7. \A S, T \in SUBSET (Val \X Key) :
          (\A v \in Val, k \in Key : <<v, k>> \in S <=> <<v, k>> \in T) => S = T
    OBVIOUS
  <2> QED BY <2>2, <2>3, <2>5, <2>6, <2>7
<1> QED BY <1>1, CoreInvAlways, PTL

\* What the log and the snapshots hold is what is in memory (engine.py:391, 522, 574).
THEOREM LogAgrees == ASSUME LockedOnly PROVE Spec => []RestartFindsMemory
<1>1. CoreInv => RestartFindsMemory
  BY DEF CoreInv, RestartFindsMemory
<1> QED BY <1>1, CoreInvAlways, PTL

\* The history has every version, numbered without a gap (README.md:86).
THEOREM HistoryComplete == ASSUME LockedOnly PROVE Spec => []HistoryKeepsAll
<1>1. ASSUME CoreInv, NEW k \in used, \A t \in Thread : Writing(t) => job[t].key # k
      PROVE  /\ hist[k] # <<>>
             /\ \A i \in DOMAIN hist[k] : hist[k][i].ver = i
             /\ hist[k][Len(hist[k])].val = IF data[k] = NoRec THEN NoRec ELSE data[k].val
  <2>1. k \in Key /\ hist[k] \in Seq(Version)
    BY <1>1 DEF CoreInv, TypeOK
  <2>2. k \notin Inserting
    BY <1>1 DEF Inserting, Writing, WritePcs
  <2>3. DOMAIN hist[k] = 1..Len(hist[k])
    BY <2>1, LenProperties
  <2> QED BY <1>1, <2>1, <2>2, <2>3 DEF CoreInv, HistoryInv
<1>2. CoreInv => HistoryKeepsAll
  BY <1>1 DEF HistoryKeepsAll
<1> QED BY <1>2, CoreInvAlways, PTL

\* The step that stores a record is the abstract write.
LEMMA StoreIsWrite ==
  ASSUME CoreInv, NEW t \in Thread, Store(t)
  PROVE  Map1!Next
<1> DEFINE k == job[t].key
<1>1. /\ data' = [data EXCEPT ![k] = NewRec(job[t])] /\ answer' = answer /\ pc[t] = "store"
  BY DEF Store
<1>2. /\ k \in Key /\ job[t].op \in CrudOps /\ job[t].old = data[k]
      /\ job[t].op = "insert" <=> data[k] = NoRec
      /\ job[t].op # "delete" => job[t].val \in Val
  BY <1>1 DEF CoreInv, WriterInv, Writing, WritePcs, TypeOK
<1>3. CASE job[t].op = "insert"
  <2>1. Map1!Insert(k, job[t].val)
    BY <1>1, <1>2, <1>3 DEF Map1!Insert, NewRec, NewVersion
  <2> QED BY <1>2, <1>3, <2>1 DEF Map1!Next
<1>4. CASE job[t].op = "update"
  <2>1. Map1!Update(k, job[t].val)
    BY <1>1, <1>2, <1>4 DEF Map1!Update, NewRec, NewVersion
  <2> QED BY <1>2, <1>4, <2>1 DEF Map1!Next
<1>5. CASE job[t].op = "delete"
  <2>1. Map1!Delete(k)
    BY <1>1, <1>2, <1>5 DEF Map1!Delete, NewRec
  <2> QED BY <1>2, <2>1 DEF Map1!Next
<1> QED BY <1>2, <1>3, <1>4, <1>5 DEF CrudOps

\* Every read answers with the record that is there and every version number is
\* given out once: the collection is the map RecordMap (engine.py:357-602).
THEOREM CollectionIsMap == ASSUME LockedOnly PROVE Spec => ImplementsRecordMap
<1>1. Init => Map1!Init
  BY DEF Init, Map1!Init, Empty
<1>2. ASSUME CoreInv, [Next]_vars PROVE [Map1!Next]_<<data, answer>>
  <2>1. CASE UNCHANGED vars
    BY <2>1 DEF vars
  <2>2. CASE Next
    <3>1. PICK t \in Thread : \/ RawWrite(t) \/ Crud(t) \/ Return(t) \/ GetFill(t)
                              \/ \E k \in Key : GetHit(t, k) \/ GetMiss(t, k)
      BY <1>2, <2>2, OnlyLocked
    <3>2. CASE RawWrite(t)
      <4>1. CASE Store(t)
        BY <1>2, <4>1, StoreIsWrite
      <4>2. CASE Unindex(t) \/ Index(t) \/ Uncache(t)
        BY <4>2 DEF Unindex, Index, Uncache
      <4> QED BY <1>2, <3>2, <4>1, <4>2, NoDeleteGone DEF RawWrite
    <3>3. CASE Crud(t) \/ Return(t) \/ \E k \in Key : GetMiss(t, k)
      BY <3>3 DEF Crud, Return, GetMiss
    <3>4. CASE GetFill(t) \/ \E k \in Key : GetHit(t, k)
      <4>1. data' = data /\ \E k \in Key : answer' = [answer EXCEPT ![t] = data[k]]
        BY <1>2, <3>4, GetFillStep, GetHitStep
      <4>2. \E k \in Key : Map1!Read(t, k)
        BY <4>1 DEF Map1!Read
      <4> QED BY <4>2 DEF Map1!Next
    <3> QED BY <3>1, <3>2, <3>3, <3>4
  <2> QED BY <1>2, <2>1, <2>2
<1> QED BY <1>1, <1>2, CoreInvAlways, PTL DEF Spec, ImplementsRecordMap, Map1!Spec

-----------------------------------------------------------------------------
(* Every call, in any order: the types.                                    *)

\* A buffered operation that can be applied.
Buffered(e) == /\ e.op \in {"insert", "bad"} => e.key = NoKey
               /\ e.op = "insert" => e.val \in Val
               /\ e.op = "update" => e.key \in Key /\ e.val \in Val
               /\ e.op = "delete" => e.key \in Key /\ e.val = NoRec

\* What the call j holds at step p.
Fits(p, j) ==
  /\ p \in WritePcs => /\ j.key \in Key /\ j.op \in CrudOps
                       /\ IF j.op = "delete" THEN j.val = NoRec ELSE j.val \in Val
                       /\ j.op # "insert" => j.old \in Rec
                       /\ p = "unindex" => j.op # "insert"
                       /\ p = "index" => j.op # "delete"
  /\ p = "fill" => j.key \in Key
  /\ p = "add" => j.key \in Key /\ j.old \in Rec
  /\ \A i \in 1..Len(j.todo) : Buffered(j.todo[i])

TypeInv == TypeOK /\ \A t \in Thread : Fits(pc[t], job[t])

LEMMA NoJobFits == ASSUME NEW p \in {"idle", "open", "clear", "scan"} PROVE Fits(p, NoJob)
BY DEF Fits, NoJob, WritePcs

\* A step that moves one thread on, and changes nothing of the types besides.
LEMMA FitsStep ==
  ASSUME TypeInv, NEW t \in Thread, NEW j \in Job, NEW p \in Pcs, Fits(p, j),
         pc' = [pc EXCEPT ![t] = p], job' = [job EXCEPT ![t] = j]
  PROVE  /\ pc' \in [Thread -> Pcs] /\ job' \in [Thread -> Job]
         /\ \A u \in Thread : Fits(pc'[u], job'[u])
BY DEF TypeInv, TypeOK

LEMMA FitsGoto ==
  ASSUME TypeInv, NEW t \in Thread, NEW p \in Pcs, Fits(p, job[t]), Goto(t, p), job' = job
  PROVE  /\ pc' \in [Thread -> Pcs] /\ job' \in [Thread -> Job]
         /\ \A u \in Thread : Fits(pc'[u], job'[u])
BY DEF TypeInv, TypeOK, Goto

LEMMA FitsSame ==
  ASSUME TypeInv, UNCHANGED <<pc, job>>
  PROVE  /\ pc' \in [Thread -> Pcs] /\ job' \in [Thread -> Job]
         /\ \A u \in Thread : Fits(pc'[u], job'[u])
BY DEF TypeInv, TypeOK

LEMMA TypeInvInit == ASSUME Init PROVE TypeInv
<1>1. Empty \in Map
  BY DEF Empty, Map
<1>2. NoJob \in Job /\ Fits("idle", NoJob)
  BY NoJobType, NoJobFits
<1>3. <<>> \in Seq(Version) /\ indexed \in BOOLEAN
  BY DEF Init
<1>4. TypeOK
  BY <1>1, <1>2, <1>3 DEF Init, TypeOK, Pcs
<1> QED BY <1>2, <1>4 DEF Init, TypeInv

\* The raw operation o on k starts in the call j.
LEMMA BeginFits ==
  ASSUME TypeInv, NEW t \in Thread, NEW j \in Job, NEW o \in CrudOps, NEW k \in Key,
         NEW v \in Val \cup {NoRec}, IF o = "delete" THEN v = NoRec ELSE v \in Val,
         o # "insert" => data[k] # NoRec, \A i \in 1..Len(j.todo) : Buffered(j.todo[i]),
         Begin(t, j, o, k, v)
  PROVE  /\ pc' \in [Thread -> Pcs] /\ job' \in [Thread -> Job] /\ used' \subseteq Key
         /\ \A u \in Thread : Fits(pc'[u], job'[u])
<1> DEFINE J == [j EXCEPT !.op = o, !.key = k, !.val = v, !.old = data[k], !.turbo = batch,
                          !.touched = @ \cup {k}]
           p == IF o = "insert" THEN "store" ELSE "unindex"
<1>1. data[k] \in Rec \cup {NoRec} /\ batch \in BOOLEAN
  BY DEF TypeInv, TypeOK, Map
<1>2. J \in Job
  BY <1>1, BeginType
<1>3. J.key = k /\ J.op = o /\ J.val = v /\ J.old = data[k] /\ J.todo = j.todo
  BY DEF Job
<1>4. pc' = [pc EXCEPT ![t] = p] /\ job' = [job EXCEPT ![t] = J]
  BY DEF Begin, Goto
<1>5. used' \subseteq Key
  BY DEF Begin, TypeInv, TypeOK
<1> HIDE DEF J
<1>6. p \in Pcs /\ Fits(p, J)
  BY <1>1, <1>3 DEF Fits, Pcs, WritePcs
<1> HIDE DEF p
<1> QED BY <1>2, <1>4, <1>5, <1>6, FitsStep

LEMMA RawTypes == ASSUME TypeInv, NEW t \in Thread, RawWrite(t) PROVE TypeInv'
<1> DEFINE k == job[t].key
<1>1. TypeOK /\ Fits(pc[t], job[t]) /\ job[t] \in Job
  BY DEF TypeInv, TypeOK
<1>2. ASSUME NEW p \in Pcs, pc[t] \in WritePcs,
             p \notin {"unindex", "fill", "add"}, p = "index" => job[t].op # "delete"
      PROVE  Fits(p, job[t])
  BY <1>1, <1>2 DEF Fits, WritePcs
<1>3. ASSUME pc[t] \in WritePcs
      PROVE  /\ k \in Key /\ NewVersion(job[t]) \in Version /\ NewRec(job[t]) \in Rec \cup {NoRec}
             /\ job[t].op = "insert" => NewRec(job[t]) \in Rec
             /\ job[t].op # "delete" => job[t].val \in Val
  <2>1. k \in Key /\ (job[t].op # "delete" => job[t].val \in Val) /\ job[t].op \in CrudOps
        /\ (job[t].op # "insert" => job[t].old \in Rec)
    BY <1>1, <1>3 DEF Fits, WritePcs
  <2> QED BY <1>1, <2>1, NewRecType DEF CrudOps
<1>4. CASE Unindex(t)
  <2>1. Goto(t, "store") /\ pc[t] \in WritePcs /\ job' = job
    BY <1>4 DEF Unindex, WritePcs
  <2>2. "store" \in Pcs
    BY DEF Pcs, WritePcs
  <2>3. Fits("store", job[t])
    BY <1>2, <2>1, <2>2
  <2> QED BY <1>1, <1>4, <2>1, <2>2, <2>3, FitsGoto
         DEF Unindex, UnindexRecord, UnindexRecordSorted, TypeInv, TypeOK
<1>5. CASE Store(t)
  <2> DEFINE p == IF job[t].op = "insert" /\ job[t].turbo THEN "done"
                  ELSE IF job[t].op = "delete" THEN "uncache" ELSE "index"
  <2>1. Goto(t, p) /\ pc[t] \in WritePcs /\ job' = job
    BY <1>5 DEF Store, WritePcs
  <2>2. p \in Pcs
    BY DEF Pcs, WritePcs
  <2>3. Fits(p, job[t])
    BY <1>2, <2>1, <2>2
  <2>4. hist[k] \in Seq(Version) /\ Append(hist[k], NewVersion(job[t])) \in Seq(Version)
    BY <1>1, <1>3, <2>1, AppendProperties DEF TypeOK
  <2>5. data' \in Map /\ logged' \in Map /\ hist' \in [Key -> Seq(Version)]
    BY <1>1, <1>3, <1>5, <2>1, <2>4 DEF Store, TypeOK, Map
  <2> HIDE DEF p
  <2> QED BY <1>1, <1>5, <2>1, <2>2, <2>3, <2>5, FitsGoto DEF Store, TypeInv, TypeOK
<1>6. CASE DeleteGone(t)
  <2> DEFINE p == IF job[t].call = "tx" THEN "restore" ELSE "done"
  <2>1. Goto(t, p) /\ pc[t] \in WritePcs /\ job' = job
    BY <1>6 DEF DeleteGone, WritePcs
  <2>2. p \in Pcs /\ p \notin {"unindex", "fill", "add", "index"}
    BY DEF Pcs
  <2>3. Fits(p, job[t])
    BY <1>2, <2>1, <2>2
  <2>4. hist[k] \in Seq(Version) /\ Append(hist[k], NewVersion(job[t])) \in Seq(Version)
    BY <1>1, <1>3, <2>1, AppendProperties DEF TypeOK
  <2>5. hist' \in [Key -> Seq(Version)]
    BY <1>1, <1>3, <1>6, <2>1, <2>4 DEF DeleteGone, TypeOK
  <2> HIDE DEF p
  <2> QED BY <1>1, <1>6, <2>1, <2>2, <2>3, <2>5, FitsGoto DEF DeleteGone, TypeInv, TypeOK
<1>7. CASE Index(t)
  <2>1. Goto(t, "uncache") /\ pc[t] \in WritePcs /\ job' = job /\ job[t].op # "delete"
    BY <1>1, <1>7 DEF Index, WritePcs, Fits
  <2>2. "uncache" \in Pcs
    BY DEF Pcs, WritePcs
  <2>3. Fits("uncache", job[t])
    BY <1>2, <2>1, <2>2
  <2> QED BY <1>1, <1>3, <1>7, <2>1, <2>2, <2>3, FitsGoto
         DEF Index, IndexRecord, IndexRecordSorted, TypeInv, TypeOK
<1>8. CASE Uncache(t)
  <2>1. Goto(t, "done") /\ pc[t] \in WritePcs /\ job' = job
    BY <1>8 DEF Uncache, WritePcs
  <2>2. "done" \in Pcs
    BY DEF Pcs
  <2>3. Fits("done", job[t])
    BY <1>2, <2>1, <2>2
  <2>4. cache' \in Map
    <3>1. CASE job[t].op = "insert"
      BY <1>1, <1>3, <1>8, <2>1, <3>1, CacheSetType DEF Uncache, TypeOK
    <3>2. CASE job[t].op # "insert"
      BY <1>1, <1>3, <1>8, <2>1, <3>2 DEF Uncache, TypeOK, Map
    <3> QED BY <3>1, <3>2
  <2>5. UNCHANGED <<data, logged, indexed, hash, tree, hist, batch, lock, job, answer, used>>
    BY <1>8 DEF Uncache
  <2>6. /\ pc' \in [Thread -> Pcs] /\ job' \in [Thread -> Job]
        /\ \A u \in Thread : Fits(pc'[u], job'[u])
    BY <2>1, <2>2, <2>3, FitsGoto
  <2> QED BY <1>1, <2>4, <2>5, <2>6 DEF TypeInv, TypeOK
<1> QED BY <1>4, <1>5, <1>6, <1>7, <1>8 DEF RawWrite

LEMMA LockedTypes == ASSUME TypeInv, NEW t \in Thread, Locked(t) PROVE TypeInv'
<1>1. TypeOK /\ Fits(pc[t], job[t]) /\ job[t] \in Job
  BY DEF TypeInv, TypeOK
<1>2. "idle" \in Pcs /\ "fill" \in Pcs
  BY DEF Pcs
<1>3. CASE Crud(t)
  <2>1. PICK o \in CrudOps, v \in Val : \E i \in Target(o) :
          Begin(t, [NoJob EXCEPT !.call = "crud"], o, i, IF o = "delete" THEN NoRec ELSE v)
    BY <1>3 DEF Crud, CrudOps
  <2>2. PICK k \in Target(o) :
          Begin(t, [NoJob EXCEPT !.call = "crud"], o, k, IF o = "delete" THEN NoRec ELSE v)
    BY <2>1
  <2>3. k \in Key /\ (o # "insert" => data[k] # NoRec)
    BY <2>2 DEF Target, Present
  <2>4. PICK j \in Job : j = [NoJob EXCEPT !.call = "crud"]
    BY NoJobType DEF Job
  <2>5. \A i \in 1..Len(j.todo) : Buffered(j.todo[i])
    BY <2>4 DEF NoJob
  <2>6. PICK w \in Val \cup {NoRec} : w = IF o = "delete" THEN NoRec ELSE v
    OBVIOUS
  <2>7. Begin(t, j, o, k, w)
    BY <2>2, <2>4, <2>6
  <2>8. IF o = "delete" THEN w = NoRec ELSE w \in Val
    BY <2>6
  <2>9. /\ pc' \in [Thread -> Pcs] /\ job' \in [Thread -> Job] /\ used' \subseteq Key
        /\ \A u \in Thread : Fits(pc'[u], job'[u])
    BY <2>3, <2>5, <2>7, <2>8, BeginFits
  <2> QED BY <1>1, <1>3, <2>9 DEF Crud, Enter, TypeInv, TypeOK
<1>4. CASE Return(t)
  BY <1>1, <1>2, <1>4, NoJobType, NoJobFits, FitsStep DEF Return, Goto, TypeInv, TypeOK
<1>5. CASE GetFill(t)
  <2>1. pc[t] = "fill" /\ job[t].key \in Key /\ job[t].old \in Rec \cup {NoRec}
    BY <1>1, <1>5 DEF GetFill, Fits, Job
  <2>2. cache' \in Map
    BY <1>1, <1>5, <2>1, CacheSetType DEF GetFill, TypeOK
  <2> QED BY <1>1, <1>2, <1>5, <2>1, <2>2, NoJobType, NoJobFits, FitsStep
         DEF GetFill, Goto, TypeInv, TypeOK
<1>6. CASE Drop(t)
  <2>1. Empty \in Map
    BY DEF Empty, Map
  <2> QED BY <1>1, <1>6, <2>1, FitsSame DEF Drop, TypeInv, TypeOK
<1>7. ASSUME NEW k \in Key, GetHit(t, k) PROVE TypeInv'
  BY <1>1, <1>7, FitsSame DEF GetHit, TypeInv, TypeOK, Map
<1>8. ASSUME NEW k \in Key, GetMiss(t, k) PROVE TypeInv'
  <2> DEFINE J == [NoJob EXCEPT !.call = "get", !.key = k, !.old = data[k]]
  <2>1. data[k] \in Rec \cup {NoRec}
    BY <1>1 DEF TypeOK, Map
  <2>2. J \in Job
    BY <2>1, NoJobType DEF Job, NoJob
  <2>3. J.key = k /\ J.todo = <<>>
    BY DEF NoJob
  <2>4. pc' = [pc EXCEPT ![t] = "fill"] /\ job' = [job EXCEPT ![t] = J]
    BY <1>8 DEF GetMiss, Goto
  <2> HIDE DEF J
  <2>5. Fits("fill", J)
    BY <2>3 DEF Fits, WritePcs
  <2> QED BY <1>1, <1>2, <1>8, <2>2, <2>4, <2>5, FitsStep DEF GetMiss, Enter, TypeInv, TypeOK
<1> QED BY <1>3, <1>4, <1>5, <1>6, <1>7, <1>8 DEF Locked

LEMMA TxTypes == ASSUME TypeInv, NEW t \in Thread, Tx(t) PROVE TypeInv'
<1>1. TypeOK /\ Fits(pc[t], job[t]) /\ job[t] \in Job
  BY DEF TypeInv, TypeOK
<1>2. /\ {"idle", "open", "apply", "restore"} \subseteq Pcs
      /\ \A p \in {"idle", "open", "apply", "restore"} : Fits(p, job[t])
  BY <1>1 DEF Pcs, Fits, WritePcs
<1>3. CASE TxBegin(t)
  <2> DEFINE J == [NoJob EXCEPT !.call = "tx", !.snap = data]
  <2>1. J \in Job
    BY <1>1, NoJobType DEF Job, NoJob, TypeOK
  <2>2. Fits("open", J)
    BY DEF Fits, WritePcs, NoJob
  <2>3. pc' = [pc EXCEPT ![t] = "open"] /\ job' = [job EXCEPT ![t] = J]
    BY <1>3 DEF TxBegin, Goto
  <2> HIDE DEF J
  <2> QED BY <1>1, <1>2, <1>3, <2>1, <2>2, <2>3, FitsStep DEF TxBegin, TypeInv, TypeOK
<1>4. CASE TxBuffer(t)
  <2>1. pc[t] = "open"
    BY <1>4 DEF TxBuffer
  <2>2. PICK e \in TxOp : /\ CASE e.op = "insert" -> e.key = NoKey /\ e.val # NoRec /\ SpareId
                               [] e.op = "update" -> e.key \in used /\ e.val # NoRec
                               [] e.op = "delete" -> e.key \in used /\ e.val = NoRec
                               [] e.op = "bad" -> e.key = NoKey /\ e.val = NoRec /\ "badtx" \in Ops
                          /\ job' = [job EXCEPT ![t].todo = Append(@, e)]
    BY <1>4 DEF TxBuffer
  <2>3. Buffered(e)
    BY <1>1, <2>2 DEF Buffered, TxOp, TypeOK
  <2> DEFINE J == [job[t] EXCEPT !.todo = Append(@, e)]
  <2>4. job[t].todo \in Seq(TxOp)
    BY <1>1 DEF Job
  <2>5. PICK s \in Seq(TxOp) : s = Append(job[t].todo, e)
    BY <2>4, AppendProperties
  <2>6. J = [job[t] EXCEPT !.todo = s]
    BY <2>5
  <2>7. J \in Job /\ J.todo = s
    BY <1>1, <2>6 DEF Job
  <2>8. \A i \in 1..Len(s) : Buffered(s[i])
    BY <1>1, <2>3, <2>4, <2>5, AppendProperties DEF Fits
  <2>9. pc' = [pc EXCEPT ![t] = "open"] /\ job' = [job EXCEPT ![t] = J]
    BY <1>1, <1>4, <2>1, <2>2 DEF TxBuffer, TypeOK
  <2> HIDE DEF J
  <2>10. Fits("open", J)
    BY <2>7, <2>8 DEF Fits, WritePcs
  <2> QED BY <1>1, <1>2, <1>4, <2>7, <2>9, <2>10, FitsStep DEF TxBuffer, TypeInv, TypeOK
<1>5. CASE TxCommit(t)
  BY <1>1, <1>2, <1>5, FitsGoto DEF TxCommit, TypeInv, TypeOK
<1>6. CASE TxApply(t)
  <2> DEFINE e == Head(job[t].todo)
             rest == [job[t] EXCEPT !.todo = Tail(@)]
  <2>1. /\ pc[t] = "apply" /\ job[t].todo # <<>>
        /\ CASE e.op = "bad" -> Goto(t, "restore") /\ UNCHANGED <<job, used>>
             [] e.op = "insert" -> \E new \in Key \ used : Begin(t, rest, "insert", new, e.val)
             [] e.key # NoKey /\ data[e.key] = NoRec -> /\ job' = [job EXCEPT ![t] = rest]
                                                        /\ UNCHANGED <<pc, used>>
             [] OTHER -> Begin(t, rest, e.op, e.key, e.val)
        /\ UNCHANGED <<data, logged, cache, indexed, hash, tree, hist, batch, lock, answer>>
    BY <1>6 DEF TxApply
  <2>2. job[t].todo \in Seq(TxOp)
    BY <1>1 DEF Job
  <2>3. e \in TxOp /\ Tail(job[t].todo) \in Seq(TxOp) /\ e = job[t].todo[1]
        /\ \A i \in 1..Len(Tail(job[t].todo)) : Tail(job[t].todo)[i] = job[t].todo[i + 1]
        /\ Len(job[t].todo) \in Nat /\ Len(Tail(job[t].todo)) = Len(job[t].todo) - 1
        /\ Len(job[t].todo) > 0
    BY <2>1, <2>2, HeadTailProperties, EmptySeq, LenProperties
  <2>4. Buffered(e) /\ \A i \in 1..Len(Tail(job[t].todo)) : Buffered(Tail(job[t].todo)[i])
    BY <1>1, <2>3 DEF Fits
  <2>5. PICK s \in Seq(TxOp) : s = Tail(job[t].todo)
    BY <2>3
  <2>6. rest = [job[t] EXCEPT !.todo = s]
    BY <2>5
  <2>7. rest \in Job /\ rest.todo = s
    BY <1>1, <2>6 DEF Job
  <2>8. \A i \in 1..Len(rest.todo) : Buffered(rest.todo[i])
    BY <2>4, <2>5, <2>7
  <2> HIDE DEF rest, e
  <2>9. SUFFICES /\ pc' \in [Thread -> Pcs] /\ job' \in [Thread -> Job] /\ used' \subseteq Key
                 /\ \A u \in Thread : Fits(pc'[u], job'[u])
    BY <1>1, <2>1 DEF TypeInv, TypeOK
  <2>10. CASE e.op = "bad"
    <3>1. Goto(t, "restore") /\ UNCHANGED <<job, used>>
      BY <2>1, <2>4, <2>10 DEF Buffered
    <3> QED BY <1>1, <1>2, <3>1, FitsGoto DEF TypeOK
  <2>11. CASE e.op = "insert"
    <3>1. \E new \in Key \ used : Begin(t, rest, "insert", new, e.val)
      BY <2>1, <2>4, <2>11 DEF Buffered
    <3>3. PICK new \in Key : Begin(t, rest, "insert", new, e.val)
      BY <3>1
    <3>2. "insert" \in CrudOps /\ e.val \in Val
      BY <2>4, <2>11 DEF CrudOps, Buffered
    <3> QED BY <2>7, <2>8, <3>2, <3>3, BeginFits
  <2>12. CASE e.op \in {"update", "delete"} /\ data[e.key] = NoRec
    <3>1. e.key \in Key
      BY <2>4, <2>12 DEF Buffered
    <3>2. job' = [job EXCEPT ![t] = rest] /\ UNCHANGED <<pc, used>>
      BY <2>1, <2>12, <3>1, NoKeyAssumption
    <3>3. Fits("apply", rest)
      BY <2>8 DEF Fits, WritePcs
    <3>4. pc' = [pc EXCEPT ![t] = "apply"]
      BY <1>1, <2>1, <3>2 DEF TypeOK
    <3> QED BY <1>1, <1>2, <2>7, <3>2, <3>3, <3>4, FitsStep DEF TypeOK
  <2>13. CASE e.op \in {"update", "delete"} /\ data[e.key] # NoRec
    <3>1. e.key \in Key /\ e.op \in CrudOps /\ e.val \in Val \cup {NoRec}
          /\ IF e.op = "delete" THEN e.val = NoRec ELSE e.val \in Val
      BY <2>4, <2>13 DEF Buffered, CrudOps
    <3>2. Begin(t, rest, e.op, e.key, e.val)
      BY <2>1, <2>13, <3>1, NoKeyAssumption
    <3> QED BY <2>7, <2>8, <2>13, <3>1, <3>2, BeginFits
  <2>14. e.op \in {"insert", "update", "delete", "bad"}
    BY <2>3 DEF TxOp
  <2> QED BY <2>10, <2>11, <2>12, <2>13, <2>14
<1>7. CASE TxNext(t)
  BY <1>1, <1>2, <1>7, FitsGoto DEF TxNext, TypeInv, TypeOK
<1>8. CASE TxFlush(t)
  BY <1>1, <1>2, <1>8, NoJobType, NoJobFits, FitsStep DEF TxFlush, Goto, TypeInv, TypeOK
<1>9. CASE TxAbort(t)
  BY <1>1, <1>2, <1>9, FitsGoto DEF TxAbort, TypeInv, TypeOK
<1>10. CASE TxRestore(t)
  <2>1. job[t].snap \in Map
    BY <1>1 DEF Job
  <2> QED BY <1>1, <1>2, <1>10, <2>1, NoJobType, NoJobFits, FitsStep
         DEF TxRestore, Goto, TypeInv, TypeOK
<1> QED BY <1>3, <1>4, <1>5, <1>6, <1>7, <1>8, <1>9, <1>10 DEF Tx

LEMMA EntriesType == ASSUME NEW m \in Map PROVE Entries(m) \subseteq Val \X Key
BY DEF Entries, Present, Map, Rec


\* A dict is finite, which Cardinality asks for.
FiniteInv == /\ IsFiniteSet(Present(data))
             /\ \A t \in Thread : IsFiniteSet(Present(job[t].snap))

LEMMA BuildTypes == ASSUME TypeInv, FiniteInv, NEW t \in Thread, Build(t) PROVE TypeInv'
<1>1. TypeOK /\ Fits(pc[t], job[t]) /\ job[t] \in Job
  BY DEF TypeInv, TypeOK
<1>2. {"idle", "clear", "scan", "add", "load", "flush"} \subseteq Pcs
  BY DEF Pcs, RebuildPcs
<1>3. Fits("scan", job[t]) /\ Fits("load", job[t]) /\ Fits("flush", job[t])
  BY <1>1 DEF Fits, WritePcs
<1>4. ASSUME NEW j \in Job, Fits("scan", j), Iterate(t, j)
      PROVE  /\ pc' \in [Thread -> Pcs] /\ job' \in [Thread -> Job]
             /\ \A u \in Thread : Fits(pc'[u], job'[u])
  <2> DEFINE n == Cardinality(Present(data))
             J == [j EXCEPT !.size = n]
  <2>1. n \in Nat
    BY FS_CardinalityType DEF FiniteInv
  <2> HIDE DEF n
  <2>2. J \in Job /\ J.todo = j.todo
    BY <2>1 DEF Job
  <2>3. job' = [job EXCEPT ![t] = J] /\ pc' = [pc EXCEPT ![t] = "scan"]
    BY <1>4 DEF Iterate, Goto, n
  <2> HIDE DEF J
  <2>4. Fits("scan", J)
    BY <1>4, <2>2 DEF Fits, WritePcs
  <2> QED BY <1>2, <2>2, <2>3, <2>4, FitsStep
<1>5. ASSUME NEW c \in {"batch", "rebuild", "create"}
      PROVE  /\ [NoJob EXCEPT !.call = c] \in Job /\ Fits("clear", [NoJob EXCEPT !.call = c])
             /\ Fits("scan", [NoJob EXCEPT !.call = c])
  <2>1. [NoJob EXCEPT !.call = c] \in Job
    BY NoJobType DEF Job
  <2>2. [NoJob EXCEPT !.call = c].todo = <<>>
    BY DEF NoJob
  <2> QED BY <2>1, <2>2 DEF Fits, WritePcs
<1>6. CASE BeginBatch(t)
  BY <1>1, <1>6, FitsSame DEF BeginBatch, TypeInv, TypeOK
<1>7. CASE Rebuild(t)
  <2>1. PICK c \in {"batch", "rebuild"} : job' = NewJob(t, c)
    BY <1>7 DEF Rebuild
  <2>2. pc' = [pc EXCEPT ![t] = "clear"] /\ batch' \in BOOLEAN
    BY <1>1, <1>7 DEF Rebuild, Goto, TypeOK
  <2>3. PICK J \in Job : J = [NoJob EXCEPT !.call = c] /\ Fits("clear", J)
    BY <1>5
  <2>4. job' = [job EXCEPT ![t] = J]
    BY <2>1, <2>3 DEF NewJob
  <2>5. /\ pc' \in [Thread -> Pcs] /\ job' \in [Thread -> Job]
        /\ \A u \in Thread : Fits(pc'[u], job'[u])
    BY <1>2, <2>2, <2>3, <2>4, FitsStep
  <2> QED BY <1>1, <1>7, <2>2, <2>5 DEF Rebuild, TypeInv, TypeOK
<1>8. CASE ClearHash(t)
  BY <1>1, <1>3, <1>4, <1>8 DEF ClearHash, TypeInv, TypeOK
<1>9. CASE CreateIndex(t)
  <2>1. PICK J \in Job : J = [NoJob EXCEPT !.call = "create"] /\ Fits("scan", J)
    BY <1>5
  <2>2. Iterate(t, J)
    BY <1>9, <2>1 DEF CreateIndex
  <2> QED BY <1>1, <1>4, <1>9, <2>1, <2>2 DEF CreateIndex, TypeInv, TypeOK
<1>10. CASE Scan(t)
  <2>1. PICK k \in Present(data) :
          job' = [job EXCEPT ![t].key = k, ![t].old = data[k], ![t].seen = @ \cup {k}]
    BY <1>10 DEF Scan
  <2>2. k \in Key /\ data[k] \in Rec
    BY <1>1 DEF Present, TypeOK, Map
  <2> DEFINE J == [job[t] EXCEPT !.key = k, !.old = data[k], !.seen = @ \cup {k}]
  <2>3. job' = [job EXCEPT ![t] = J]
    BY <1>1, <2>1 DEF TypeOK
  <2>4. J \in Job /\ J.key = k /\ J.old = data[k] /\ J.todo = job[t].todo
    BY <1>1, <2>2 DEF Job
  <2>5. pc' = [pc EXCEPT ![t] = "add"]
    BY <1>10 DEF Scan, Goto
  <2> HIDE DEF J
  <2>6. Fits("add", J)
    BY <1>1, <2>2, <2>4 DEF Fits, WritePcs
  <2> QED BY <1>1, <1>2, <1>10, <2>3, <2>4, <2>5, <2>6, FitsStep DEF Scan, TypeInv, TypeOK
<1>11. CASE AddEntry(t)
  <2>1. job[t].key \in Key /\ job[t].old.val \in Val
    BY <1>1, <1>11 DEF AddEntry, Fits, Rec
  <2> QED BY <1>1, <1>2, <1>3, <1>11, <2>1, FitsGoto DEF AddEntry, IndexRecord, TypeInv, TypeOK
<1>12. CASE ScanDone(t) \/ ScanFails(t)
  <2>1. PICK p \in {"flush", "load"} : Goto(t, p)
    BY <1>12 DEF ScanDone, ScanFails
  <2> QED BY <1>1, <1>2, <1>3, <1>12, <2>1, FitsGoto DEF ScanDone, ScanFails, TypeInv, TypeOK
<1>13. CASE LoadTree(t)
  BY <1>1, <1>2, <1>3, <1>13, FitsGoto, EntriesType DEF LoadTree, TypeInv, TypeOK
<1>14. CASE RebuildDone(t)
  BY <1>1, <1>2, <1>14, NoJobType, NoJobFits, FitsStep DEF RebuildDone, Goto, TypeInv, TypeOK
<1> QED BY <1>6, <1>7, <1>8, <1>9, <1>10, <1>11, <1>12, <1>13, <1>14 DEF Build

\* A step is one thread's: the calls of the others stay where they are.
LEMMA OneCall ==
  ASSUME TypeOK, NEW t \in Thread, RawWrite(t) \/ Locked(t) \/ Tx(t) \/ Build(t)
  PROVE  \A u \in Thread \ {t} : pc'[u] = pc[u] /\ job'[u] = job[u]
<1>1. ASSUME NEW p, Goto(t, p) PROVE \A u \in Thread \ {t} : pc'[u] = pc[u]
  BY <1>1 DEF Goto, TypeOK
<1>2. ASSUME NEW j, job' = [job EXCEPT ![t] = j] PROVE \A u \in Thread \ {t} : job'[u] = job[u]
  BY <1>2 DEF TypeOK
<1>3. ASSUME NEW j, NEW o, NEW k, NEW v, Begin(t, j, o, k, v)
      PROVE  \A u \in Thread \ {t} : pc'[u] = pc[u] /\ job'[u] = job[u]
  BY <1>1, <1>2, <1>3 DEF Begin
<1>4. ASSUME NEW j, Iterate(t, j)
      PROVE  \A u \in Thread \ {t} : pc'[u] = pc[u] /\ job'[u] = job[u]
  BY <1>1, <1>2, <1>4 DEF Iterate
<1>5. CASE RawWrite(t)
  BY <1>1, <1>5 DEF RawWrite, Unindex, Store, DeleteGone, Index, Uncache
<1>6. CASE Locked(t)
  <2>1. CASE Crud(t)
    BY <1>3, <2>1 DEF Crud
  <2> QED BY <1>1, <1>2, <1>6, <2>1 DEF Locked, Return, GetFill, Drop, GetHit, GetMiss
<1>7. CASE Tx(t)
  <2>1. CASE TxBuffer(t)
    <3>1. PICK e \in TxOp : job' = [job EXCEPT ![t].todo = Append(@, e)]
      BY <2>1 DEF TxBuffer
    <3> QED BY <2>1, <3>1 DEF TxBuffer, TypeOK
  <2>2. CASE TxApply(t)
    <3> DEFINE e == Head(job[t].todo)
               rest == [job[t] EXCEPT !.todo = Tail(@)]
    <3>1. (CASE e.op = "bad" -> Goto(t, "restore") /\ UNCHANGED <<job, used>>
             [] e.op = "insert" -> \E new \in Key \ used : Begin(t, rest, "insert", new, e.val)
             [] e.key # NoKey /\ data[e.key] = NoRec -> /\ job' = [job EXCEPT ![t] = rest]
                                                        /\ UNCHANGED <<pc, used>>
             [] OTHER -> Begin(t, rest, e.op, e.key, e.val))
      BY <2>2 DEF TxApply
    <3> HIDE DEF rest, e
    <3>2. \/ Goto(t, "restore") /\ job' = job
          \/ \E new \in Key : Begin(t, rest, "insert", new, e.val)
          \/ job' = [job EXCEPT ![t] = rest] /\ pc' = pc
          \/ Begin(t, rest, e.op, e.key, e.val)
      BY <3>1
    <3> QED BY <1>1, <1>2, <1>3, <3>2
  <2> QED BY <1>1, <1>2, <1>7, <2>1, <2>2
         DEF Tx, TxBegin, TxCommit, TxNext, TxFlush, TxAbort, TxRestore
<1>8. CASE Build(t)
  <2>1. CASE Scan(t)
    <3>1. PICK k \in Present(data) :
            job' = [job EXCEPT ![t].key = k, ![t].old = data[k], ![t].seen = @ \cup {k}]
      BY <2>1 DEF Scan
    <3> QED BY <1>1, <2>1, <3>1 DEF Scan, TypeOK
  <2>2. CASE ClearHash(t) \/ CreateIndex(t)
    BY <1>4, <2>2 DEF ClearHash, CreateIndex
  <2>3. CASE Rebuild(t)
    BY <1>1, <1>2, <2>3 DEF Rebuild, NewJob
  <2> QED BY <1>1, <1>2, <1>8, <2>1, <2>2, <2>3
         DEF Build, BeginBatch, AddEntry, ScanDone, ScanFails, LoadTree, RebuildDone
<1> QED BY <1>5, <1>6, <1>7, <1>8

LEMMA NoSnapshot == IsFiniteSet(Present(Empty)) /\ NoJob.snap = Empty
<1>1. Present(Empty) = {}
  BY DEF Present, Empty
<1> QED BY <1>1, FS_EmptySet DEF NoJob

\* The records and snapshots a call can take with it.
Carries(u, j) == /\ j.snap \in {job[u].snap, data, Empty}
                 /\ j.old \in {job[u].old, NoRec} \cup {data[k] : k \in Key}

\* The records come from a write of one of them, a drop or a snapshot; what a call carries
\* comes from the records.
LEMMA DataSources ==
  ASSUME TypeInv, NEW t \in Thread, RawWrite(t) \/ Locked(t) \/ Tx(t) \/ Build(t)
  PROVE  /\ \/ data' = data \/ data' = Empty \/ data' = job[t].snap
            \/ \E k \in Key : Present(data') \subseteq Present(data) \cup {k}
         /\ \A u \in Thread : Carries(u, job'[u])
<1>1. TypeOK /\ Fits(pc[t], job[t]) /\ job[t] \in Job
  BY DEF TypeInv, TypeOK
<1>2. ASSUME NEW j, Carries(t, j), job' = [job EXCEPT ![t] = j]
      PROVE  \A u \in Thread : Carries(u, job'[u])
  BY <1>1, <1>2 DEF TypeOK, Carries
<1>3. ASSUME NEW j \in Job, NEW o, NEW k \in Key, NEW v, Carries(t, j),
             Begin(t, j, o, k, v)
      PROVE  \A u \in Thread : Carries(u, job'[u])
  <2> DEFINE J == [j EXCEPT !.op = o, !.key = k, !.val = v, !.old = data[k], !.turbo = batch,
                            !.touched = @ \cup {k}]
  <2>1. J.snap = j.snap /\ J.old = data[k]
    BY DEF Job
  <2>2. job' = [job EXCEPT ![t] = J]
    BY <1>3 DEF Begin
  <2> HIDE DEF J
  <2> QED BY <1>2, <1>3, <2>1, <2>2 DEF Carries
<1>4. NoJob \in Job /\ NoJob.snap = Empty /\ NoJob.old = NoRec /\ Carries(t, NoJob)
      /\ Carries(t, job[t]) /\ (job' = job => \A u \in Thread : Carries(u, job'[u]))
  BY NoJobType, NoSnapshot DEF NoJob, Carries
<1>5. CASE RawWrite(t)
  <2>1. job' = job /\ \A u \in Thread : Carries(u, job'[u])
    BY <1>4, <1>5 DEF RawWrite, Unindex, Store, DeleteGone, Index, Uncache
  <2>2. CASE Store(t)
    <3>1. data' = [data EXCEPT ![job[t].key] = NewRec(job[t])] /\ job[t].key \in Key
      BY <1>1, <2>2 DEF Store, Fits, WritePcs
    <3>2. Present(data') \subseteq Present(data) \cup {job[t].key}
      BY <1>1, <3>1 DEF Present, TypeOK, Map
    <3> QED BY <2>1, <3>1, <3>2
  <2>3. CASE data' = data
    BY <2>1, <2>3
  <2> QED BY <1>5, <2>2, <2>3 DEF RawWrite, Unindex, DeleteGone, Index, Uncache
<1>6. CASE Locked(t)
  <2>1. data' = data \/ data' = Empty
    BY <1>6 DEF Locked, Crud, Return, GetFill, Drop, GetHit, GetMiss
  <2>2. CASE Crud(t)
    <3>1. PICK o \in {"insert", "update", "delete"} \cap Ops, v \in Val : \E k \in Target(o) :
            Begin(t, [NoJob EXCEPT !.call = "crud"], o, k, IF o = "delete" THEN NoRec ELSE v)
      BY <2>2 DEF Crud
    <3>2. PICK j \in Job : j = [NoJob EXCEPT !.call = "crud"]
      BY <1>4 DEF Job
    <3>3. Carries(t, j)
      BY <1>4, <3>2 DEF Job, Carries
    <3>4. PICK w : \E k \in Key : Begin(t, j, o, k, w)
      BY <3>1, <3>2 DEF Target, Present
    <3> QED BY <1>3, <2>1, <3>3, <3>4
  <2>3. ASSUME NEW k \in Key, GetMiss(t, k)
        PROVE  \A u \in Thread : Carries(u, job'[u])
    <3> DEFINE J == [NoJob EXCEPT !.call = "get", !.key = k, !.old = data[k]]
    <3>1. J.snap = Empty /\ J.old = data[k] /\ job' = [job EXCEPT ![t] = J]
      BY <1>4, <2>3 DEF Job, GetMiss
    <3> HIDE DEF J
    <3> QED BY <1>2, <3>1 DEF Carries
  <2>4. CASE job' = job \/ job' = [job EXCEPT ![t] = NoJob]
    BY <1>2, <1>4, <2>1, <2>4
  <2> QED BY <1>6, <2>1, <2>2, <2>3, <2>4 DEF Locked, Return, GetFill, Drop, GetHit
<1>7. CASE Tx(t)
  <2>1. data' = data \/ data' = job[t].snap
    BY <1>7 DEF Tx, TxBegin, TxBuffer, TxCommit, TxApply, TxNext, TxFlush, TxAbort, TxRestore
  <2>2. CASE TxBegin(t)
    <3> DEFINE J == [NoJob EXCEPT !.call = "tx", !.snap = data]
    <3>1. J.snap = data /\ J.old = NoRec /\ job' = [job EXCEPT ![t] = J]
      BY <2>2 DEF NoJob, TxBegin
    <3> HIDE DEF J
    <3> QED BY <1>2, <2>1, <3>1 DEF Carries
  <2>3. CASE TxBuffer(t)
    <3>1. PICK e \in TxOp : job' = [job EXCEPT ![t].todo = Append(@, e)]
      BY <2>3 DEF TxBuffer
    <3> DEFINE J == [job[t] EXCEPT !.todo = Append(@, e)]
    <3>2. J.snap = job[t].snap /\ J.old = job[t].old /\ job' = [job EXCEPT ![t] = J]
      BY <1>1, <3>1 DEF Job, TypeOK
    <3> HIDE DEF J
    <3> QED BY <1>2, <2>1, <3>2 DEF Carries
  <2>4. CASE TxApply(t)
    <3> DEFINE e == Head(job[t].todo)
               rest == [job[t] EXCEPT !.todo = Tail(@)]
    <3>1. (CASE e.op = "bad" -> Goto(t, "restore") /\ UNCHANGED <<job, used>>
             [] e.op = "insert" -> \E new \in Key \ used : Begin(t, rest, "insert", new, e.val)
             [] e.key # NoKey /\ data[e.key] = NoRec -> /\ job' = [job EXCEPT ![t] = rest]
                                                        /\ UNCHANGED <<pc, used>>
             [] OTHER -> Begin(t, rest, e.op, e.key, e.val))
      BY <2>4 DEF TxApply
    <3>2. job[t].todo \in Seq(TxOp) /\ job[t].todo # <<>>
      BY <1>1, <2>4 DEF Job, TxApply
    <3>3. PICK s \in Seq(TxOp) : s = Tail(job[t].todo)
      BY <3>2, HeadTailProperties
    <3>4. rest = [job[t] EXCEPT !.todo = s]
      BY <3>3
    <3>5. rest \in Job /\ Carries(t, rest)
      BY <1>1, <3>4 DEF Job, Carries
    <3>7. e \in TxOp /\ Buffered(e)
      BY <1>1, <3>2, HeadTailProperties, EmptySeq, LenProperties DEF Fits
    <3> HIDE DEF rest, e
    <3>6. \/ job' = job
          \/ \E new \in Key : Begin(t, rest, "insert", new, e.val)
          \/ job' = [job EXCEPT ![t] = rest]
          \/ e.key \in Key /\ Begin(t, rest, e.op, e.key, e.val)
      BY <3>1, <3>7 DEF Buffered, TxOp
    <3> QED BY <1>2, <1>3, <1>4, <2>1, <3>5, <3>6
  <2>5. CASE job' = job \/ job' = [job EXCEPT ![t] = NoJob]
    BY <1>2, <1>4, <2>1, <2>5
  <2> QED BY <1>7, <2>1, <2>2, <2>3, <2>4, <2>5
         DEF Tx, TxCommit, TxNext, TxFlush, TxAbort, TxRestore
<1>8. CASE Build(t)
  <2>1. data' = data
    BY <1>8 DEF Build, BeginBatch, Rebuild, ClearHash, CreateIndex, Scan, AddEntry, ScanDone,
                ScanFails, LoadTree, RebuildDone
  <2>2. ASSUME NEW j \in Job, Carries(t, j), Iterate(t, j)
        PROVE  \A u \in Thread : Carries(u, job'[u])
    <3> DEFINE J == [j EXCEPT !.size = Cardinality(Present(data))]
    <3>1. J.snap = j.snap /\ J.old = j.old /\ job' = [job EXCEPT ![t] = J]
      BY <2>2 DEF Job, Iterate
    <3> HIDE DEF J
    <3> QED BY <1>2, <2>2, <3>1 DEF Carries
  <2>3. ASSUME NEW c PROVE Carries(t, [NoJob EXCEPT !.call = c])
    BY <1>4 DEF Job, Carries
  <2>4. CASE Rebuild(t)
    <3>1. \E c \in {"batch", "rebuild"} : job' = NewJob(t, c)
      BY <2>4 DEF Rebuild
    <3>2. PICK c : job' = [job EXCEPT ![t] = [NoJob EXCEPT !.call = c]]
      BY <3>1 DEF NewJob
    <3> DEFINE J == [NoJob EXCEPT !.call = c]
    <3>3. Carries(t, J) /\ job' = [job EXCEPT ![t] = J]
      BY <2>3, <3>2
    <3> HIDE DEF J
    <3> QED BY <1>2, <2>1, <3>3
  <2>5. CASE ClearHash(t)
    BY <1>1, <1>4, <2>1, <2>2, <2>5 DEF ClearHash
  <2>6. CASE CreateIndex(t)
    <3>1. PICK j \in Job : j = [NoJob EXCEPT !.call = "create"]
      BY <1>4 DEF Job
    <3> QED BY <2>1, <2>2, <2>3, <2>6, <3>1 DEF CreateIndex
  <2>7. CASE Scan(t)
    <3>1. PICK k \in Present(data) :
            job' = [job EXCEPT ![t].key = k, ![t].old = data[k], ![t].seen = @ \cup {k}]
      BY <2>7 DEF Scan
    <3> DEFINE J == [job[t] EXCEPT !.key = k, !.old = data[k], !.seen = @ \cup {k}]
    <3>2. J.snap = job[t].snap /\ J.old = data[k] /\ job' = [job EXCEPT ![t] = J]
      BY <1>1, <3>1 DEF Job, TypeOK
    <3>3. k \in Key
      BY DEF Present
    <3> HIDE DEF J
    <3> QED BY <1>2, <2>1, <3>2, <3>3 DEF Carries
  <2>8. CASE job' = job \/ job' = [job EXCEPT ![t] = NoJob]
    BY <1>2, <1>4, <2>1, <2>8
  <2> QED BY <1>8, <2>1, <2>4, <2>5, <2>6, <2>7, <2>8
         DEF Build, BeginBatch, AddEntry, ScanDone, ScanFails, LoadTree, RebuildDone
<1> QED BY <1>5, <1>6, <1>7, <1>8

LEMMA TypesNext == TypeInv /\ FiniteInv /\ [Next]_vars => TypeInv' /\ FiniteInv'
<1> SUFFICES ASSUME TypeInv, FiniteInv, [Next]_vars PROVE TypeInv' /\ FiniteInv'
  OBVIOUS
<1>1. CASE UNCHANGED vars
  BY <1>1 DEF vars, TypeInv, TypeOK, FiniteInv
<1>2. CASE Next
  <2>1. PICK t \in Thread : RawWrite(t) \/ Locked(t) \/ Tx(t) \/ Build(t)
    BY <1>2 DEF Next
  <2>2. TypeInv'
    BY <2>1, RawTypes, LockedTypes, TxTypes, BuildTypes
  <2>3. FiniteInv'
    <3>1. ASSUME NEW k \in Key, Present(data') \subseteq Present(data) \cup {k}
          PROVE  IsFiniteSet(Present(data'))
      BY <3>1, FS_AddElement, FS_Subset DEF FiniteInv
    <3>2. IsFiniteSet(Present(data'))
      BY <2>1, <3>1, DataSources, NoSnapshot DEF FiniteInv
    <3>3. \A u \in Thread : IsFiniteSet(Present(job'[u].snap))
      BY <2>1, DataSources, NoSnapshot DEF FiniteInv, Carries
    <3>4. Present(data)' = Present(data')
          /\ \A u \in Thread : Present(job[u].snap)' = Present(job'[u].snap)
      BY DEF Present
    <3> QED BY <3>2, <3>3, <3>4 DEF FiniteInv
  <2> QED BY <2>2, <2>3
<1> QED BY <1>1, <1>2

LEMMA TypesInit == Init => TypeInv /\ FiniteInv
BY TypeInvInit, NoSnapshot DEF Init, FiniteInv

\* The types of the collection's state.
THEOREM TypeCorrect == Spec => []TypeOK
<1>1. TypeInv => TypeOK
  BY DEF TypeInv
<1> QED BY <1>1, TypesInit, TypesNext, PTL DEF Spec

-----------------------------------------------------------------------------
(* The answers, whoever reads beside whatever writes, except in batch mode. *)

\* A record that the history has, or none.
Kept(r) == r = NoRec \/ \E k \in Key : \E i \in DOMAIN hist[k] : hist[k][i] = r

\* What is anywhere in memory has been stored: the history has it.
KeptInv ==
  /\ batch = FALSE
  /\ \A k \in Key : Kept(data[k]) /\ Kept(cache[k])
  /\ \A t \in Thread :
       /\ Kept(answer[t]) /\ Kept(job[t].old) /\ \A k \in Key : Kept(job[t].snap[k])
       /\ pc[t] \in {"index", "uncache"} /\ job[t].op = "insert" => Kept(NewRec(job[t]))

\* Only the raw operations write history and go on to index and cache what they stored.
LEMMA NotWriting ==
  ASSUME NEW t \in Thread, TypeInv, Locked(t) \/ Tx(t) \/ Build(t)
  PROVE  /\ hist' = hist
         /\ \A u \in Thread : pc'[u] \in {"index", "uncache"} => pc'[u] = pc[u] /\ job'[u] = job[u]
<1>1. TypeOK
  BY DEF TypeInv
<1>2. hist' = hist
  BY DEF Locked, Crud, Return, GetFill, Drop, GetHit, GetMiss,
         Tx, TxBegin, TxBuffer, TxCommit, TxApply, TxNext, TxFlush, TxAbort, TxRestore,
         Build, BeginBatch, Rebuild, ClearHash, CreateIndex, Scan, AddEntry, ScanDone, ScanFails,
         LoadTree, RebuildDone
<1>3. \/ \E p \in Pcs \ {"index", "uncache"} : pc' = [pc EXCEPT ![t] = p]
      \/ pc' = pc /\ pc[t] \notin {"index", "uncache"}
  <2>1. ASSUME NEW p, Goto(t, p), p \in Pcs \ {"index", "uncache"}
        PROVE  \E q \in Pcs \ {"index", "uncache"} : pc' = [pc EXCEPT ![t] = q]
    BY <2>1 DEF Goto
  <2>2. ASSUME NEW j, NEW o, NEW k, NEW v, Begin(t, j, o, k, v)
        PROVE  \E q \in Pcs \ {"index", "uncache"} : pc' = [pc EXCEPT ![t] = q]
    BY <2>1, <2>2 DEF Begin, Pcs, WritePcs
  <2>3. CASE Locked(t)
    <3>1. CASE Crud(t)
      BY <2>2, <3>1 DEF Crud
    <3> QED BY <2>1, <2>3, <3>1 DEF Locked, Return, GetFill, Drop, GetHit, GetMiss, Pcs
  <2>4. CASE Tx(t)
    <3>1. CASE TxApply(t)
      <4> DEFINE e == Head(job[t].todo)
                 rest == [job[t] EXCEPT !.todo = Tail(@)]
      <4>1. /\ pc[t] = "apply"
            /\ (CASE e.op = "bad" -> Goto(t, "restore") /\ UNCHANGED <<job, used>>
                  [] e.op = "insert" -> \E new \in Key \ used : Begin(t, rest, "insert", new, e.val)
                  [] e.key # NoKey /\ data[e.key] = NoRec -> /\ job' = [job EXCEPT ![t] = rest]
                                                             /\ UNCHANGED <<pc, used>>
                  [] OTHER -> Begin(t, rest, e.op, e.key, e.val))
        BY <3>1 DEF TxApply
      <4> HIDE DEF rest, e
      <4>2. \/ Goto(t, "restore")
            \/ \E new \in Key : Begin(t, rest, "insert", new, e.val)
            \/ pc' = pc
            \/ Begin(t, rest, e.op, e.key, e.val)
        BY <4>1
      <4> QED BY <2>1, <2>2, <4>1, <4>2 DEF Pcs
    <3> QED BY <2>1, <2>4, <3>1
           DEF Tx, TxBegin, TxBuffer, TxCommit, TxNext, TxFlush, TxAbort, TxRestore, Pcs
  <2>5. CASE Build(t)
    BY <2>1, <2>5 DEF Build, BeginBatch, Rebuild, ClearHash, Iterate, CreateIndex, Scan, AddEntry,
                      ScanDone, ScanFails, LoadTree, RebuildDone, Pcs, RebuildPcs
  <2> QED BY <2>3, <2>4, <2>5
<1>4. \A u \in Thread \ {t} : pc'[u] = pc[u] /\ job'[u] = job[u]
  BY <1>1, OneCall
<1>5. pc'[t] \notin {"index", "uncache"}
  BY <1>1, <1>3 DEF TypeOK
<1> QED BY <1>2, <1>4, <1>5

\* The history only grows.
LEMMA StaysKept ==
  ASSUME TypeOK, NEW k \in Key, NEW V \in Version,
         hist' = hist \/ hist' = [hist EXCEPT ![k] = Append(@, V)]
  PROVE  /\ \A r : Kept(r) => Kept(r)'
         /\ hist' # hist => \A r : r = V => Kept(r)'
<1>1. CASE hist' = hist
  BY <1>1 DEF Kept
<1>2. CASE hist' = [hist EXCEPT ![k] = Append(@, V)]
  <2>1. hist[k] \in Seq(Version)
    BY DEF TypeOK
  <2>2. PICK g \in Seq(Version) : g = Append(hist[k], V)
    BY <2>1, AppendProperties
  <2>3. /\ Len(hist[k]) \in Nat /\ Len(g) = Len(hist[k]) + 1 /\ g[Len(g)] = V
        /\ \A i \in 1..Len(hist[k]) : g[i] = hist[k][i]
        /\ DOMAIN g = 1..Len(g) /\ DOMAIN hist[k] = 1..Len(hist[k])
    BY <2>1, <2>2, AppendProperties, LenProperties
  <2>4. hist'[k] = g /\ \A j \in Key \ {k} : hist'[j] = hist[j]
    BY <1>2, <2>2 DEF TypeOK
  <2>5. \A r : r = V => Kept(r)'
    BY <2>3, <2>4 DEF Kept
  <2>6. ASSUME NEW r, NEW j \in Key, NEW i \in DOMAIN hist[j], hist[j][i] = r
        PROVE  \E m \in DOMAIN hist'[j] : hist'[j][m] = r
    <3>1. CASE j = k
      <4>1. i \in 1..Len(hist[k]) /\ i \in 1..Len(g) /\ g[i] = r
        BY <2>3, <2>6, <3>1
      <4> QED BY <2>3, <2>4, <3>1, <4>1
    <3>2. CASE j # k
      BY <2>4, <2>6, <3>2
    <3> QED BY <3>1, <3>2
  <2> QED BY <2>5, <2>6 DEF Kept
<1> QED BY <1>1, <1>2

\* With the records and the history as they were, a step keeps what is kept.
LEMMA KeptOutside ==
  ASSUME TypeInv, KeptInv, NEW t \in Thread, Locked(t) \/ Tx(t) \/ Build(t),
         batch' = FALSE,
         \A k \in Key : Kept(cache'[k]), \A u \in Thread : Kept(answer'[u])
  PROVE  KeptInv'
<1>1. hist' = hist
  BY NotWriting
<1>2. \A r : Kept(r) => Kept(r)'
  BY <1>1 DEF Kept
<1>3. /\ data' = data \/ data' = Empty \/ data' = job[t].snap
         \/ \E k \in Key : Present(data') \subseteq Present(data) \cup {k}
      /\ \A u \in Thread : Carries(u, job'[u])
  BY DataSources
<1>4. \A k \in Key : Kept(data'[k])
  <2>1. data' = data \/ data' = Empty \/ data' = job[t].snap
    BY DEF Locked, Crud, Return, GetFill, Drop, GetHit, GetMiss,
           Tx, TxBegin, TxBuffer, TxCommit, TxApply, TxNext, TxFlush, TxAbort, TxRestore,
           Build, BeginBatch, Rebuild, ClearHash, CreateIndex, Scan, AddEntry, ScanDone,
           ScanFails, LoadTree, RebuildDone
  <2>2. \A k \in Key : Kept(Empty[k])
    BY DEF Kept, Empty
  <2> QED BY <2>1, <2>2 DEF KeptInv
<1>5. \A u \in Thread : Kept(job'[u].old) /\ \A k \in Key : Kept(job'[u].snap[k])
  <2>1. Kept(NoRec) /\ \A k \in Key : Kept(Empty[k])
    BY DEF Kept, Empty
  <2> QED BY <1>3, <2>1 DEF KeptInv, Carries
<1>6. \A u \in Thread : pc'[u] \in {"index", "uncache"} => pc'[u] = pc[u] /\ job'[u] = job[u]
  BY NotWriting
<1> HIDE DEF Kept
<1>7. \A u \in Thread : pc'[u] \in {"index", "uncache"} /\ job'[u].op = "insert"
                          => Kept(NewRec(job'[u]))
  BY <1>6 DEF KeptInv
<1>8. \A k \in Key : Kept(data[k])' /\ Kept(cache[k])'
  BY <1>2, <1>4
<1>9. \A u \in Thread : Kept(answer[u])' /\ Kept(job[u].old)'
  BY <1>2, <1>5
<1>10. \A u \in Thread : \A k \in Key : Kept(job[u].snap[k])'
  BY <1>2, <1>5
<1>11. \A u \in Thread : (pc[u] \in {"index", "uncache"} /\ job[u].op = "insert"
                            => Kept(NewRec(job[u])))'
  BY <1>2, <1>7
<1> QED BY <1>8, <1>9, <1>10, <1>11 DEF KeptInv

LEMMA KeptWrite == ASSUME TypeInv, KeptInv, NEW t \in Thread, RawWrite(t) PROVE KeptInv'
<1> DEFINE k == job[t].key
           V == NewVersion(job[t])
<1>1. TypeOK /\ Fits(pc[t], job[t]) /\ job[t] \in Job
  BY DEF TypeInv, TypeOK
<1>2. pc[t] \in WritePcs /\ job' = job /\ batch' = FALSE /\ answer' = answer
  BY DEF RawWrite, Unindex, Store, DeleteGone, Index, Uncache, WritePcs, KeptInv
<1>3. /\ k \in Key /\ V \in Version /\ NewRec(job[t]) \in Rec \cup {NoRec}
      /\ NewRec(job[t]) = NoRec \/ NewRec(job[t]) = V
      /\ job[t].op = "insert" => NewRec(job[t]) = V /\ NewRec(job[t]) \in Rec
  <2>1. k \in Key /\ (job[t].op # "delete" => job[t].val \in Val) /\ job[t].op \in CrudOps
        /\ (job[t].op # "insert" => job[t].old \in Rec)
    BY <1>1, <1>2 DEF Fits, WritePcs
  <2> QED BY <1>1, <2>1, NewRecType DEF CrudOps, NewRec
<1>4. \A u \in Thread \ {t} : pc'[u] = pc[u]
  BY <1>1, OneCall
<1> DEFINE Made(r) == hist' # hist /\ r = V
<1>5. /\ \/ hist' = hist
         \/ hist' = [hist EXCEPT ![k] = Append(@, V)]
      /\ Store(t) => hist' # hist
      /\ pc'[t] \in {"index", "uncache"} => Store(t) \/ pc[t] = "index"
  <2>1. hist' = hist \/ hist' = [hist EXCEPT ![k] = Append(@, V)]
    BY DEF RawWrite, Unindex, Store, DeleteGone, Index, Uncache, KeptInv
  <2>2. ASSUME Store(t) PROVE hist' # hist
    <3>1. hist' = [hist EXCEPT ![k] = Append(@, V)]
      BY <2>2 DEF Store, KeptInv
    <3>2. hist[k] \in Seq(Version) /\ hist'[k] = Append(hist[k], V)
      BY <1>1, <1>3, <3>1 DEF TypeOK
    <3>3. Len(Append(hist[k], V)) = Len(hist[k]) + 1 /\ Len(hist[k]) \in Nat
      BY <1>3, <3>2, AppendProperties, LenProperties
    <3> QED BY <3>2, <3>3
  <2>3. pc'[t] \in {"index", "uncache"} => Store(t) \/ pc[t] = "index"
    BY <1>1 DEF RawWrite, Unindex, DeleteGone, Index, Uncache, Goto, TypeOK
  <2> QED BY <2>1, <2>2, <2>3
<1>6. /\ \A r : Kept(r) => Kept(r)'
      /\ \A r : Made(r) => Kept(r)'
  BY <1>1, <1>3, <1>5, StaysKept
<1>7. Kept(NoRec)
  BY DEF Kept
<1> HIDE DEF Kept, V
<1>8. \A j \in Key : Kept(data'[j]) \/ Made(data'[j])
  <2>1. CASE Store(t)
    <3>1. \A j \in Key : data'[j] = data[j] \/ data'[j] = NewRec(job[t])
      BY <1>1, <2>1 DEF Store, TypeOK, Map
    <3> QED BY <1>3, <1>5, <1>7, <2>1, <3>1 DEF KeptInv
  <2>2. CASE data' = data
    BY <2>2 DEF KeptInv
  <2> QED BY <2>1, <2>2 DEF RawWrite, Unindex, DeleteGone, Index, Uncache
<1>9. \A j \in Key : Kept(cache'[j])
  <2>1. CASE Uncache(t) /\ job[t].op = "insert"
    <3>1. Kept(NewRec(job[t])) /\ CacheSet(k, NewRec(job[t]))
      BY <2>1 DEF KeptInv, Uncache
    <3>2. \A j \in Key : cache'[j] # NoRec => cache'[j] = IF j = k THEN NewRec(job[t]) ELSE cache[j]
      BY <1>1, <1>3, <2>1, <3>1, CacheSetType DEF TypeOK
    <3> QED BY <1>7, <3>1, <3>2 DEF KeptInv
  <2>2. CASE Uncache(t) /\ job[t].op # "insert"
    <3>1. \A j \in Key : cache'[j] = cache[j] \/ cache'[j] = NoRec
      BY <1>1, <1>3, <2>2 DEF Uncache, TypeOK, Map
    <3> QED BY <1>7, <3>1 DEF KeptInv
  <2>3. CASE cache' = cache
    BY <2>3 DEF KeptInv
  <2> QED BY <2>1, <2>2, <2>3 DEF RawWrite, Unindex, Store, DeleteGone, Index
<1>10. \A u \in Thread : pc'[u] \in {"index", "uncache"} /\ job'[u].op = "insert"
                           => Kept(NewRec(job'[u])) \/ Made(NewRec(job'[u]))
  <2>1. CASE Store(t)
    BY <1>2, <1>3, <1>4, <1>5, <2>1 DEF KeptInv
  <2>2. CASE ~Store(t)
    BY <1>2, <1>4, <1>5, <2>2 DEF KeptInv
  <2> QED BY <2>1, <2>2
<1> HIDE DEF Made
<1>11. \A j \in Key : Kept(data[j])' /\ Kept(cache[j])'
  BY <1>6, <1>8, <1>9
<1>12. \A u \in Thread : Kept(answer[u])' /\ Kept(job[u].old)' /\ \A j \in Key : Kept(job[u].snap[j])'
  BY <1>2, <1>6 DEF KeptInv
<1>13. \A u \in Thread : (pc[u] \in {"index", "uncache"} /\ job[u].op = "insert"
                            => Kept(NewRec(job[u])))'
  BY <1>6, <1>10
<1> QED BY <1>2, <1>11, <1>12, <1>13 DEF KeptInv

LEMMA KeptNext ==
  ASSUME "batch" \notin Ops, TypeInv, KeptInv, [Next]_vars PROVE KeptInv'
<1>1. CASE UNCHANGED vars
  BY <1>1 DEF vars, KeptInv, Kept
<1>2. CASE Next
  <2>1. PICK t \in Thread : RawWrite(t) \/ Locked(t) \/ Tx(t) \/ Build(t)
    BY <1>2 DEF Next
  <2>2. TypeOK /\ job[t] \in Job /\ Fits(pc[t], job[t]) /\ batch = FALSE
    BY DEF TypeInv, TypeOK, KeptInv
  <2>3. ASSUME Tx(t) \/ Build(t) PROVE batch' = FALSE /\ cache' = cache /\ answer' = answer
    BY <2>2, <2>3
       DEF Tx, TxBegin, TxBuffer, TxCommit, TxApply, TxNext, TxFlush, TxAbort, TxRestore,
           Build, BeginBatch, Rebuild, ClearHash, CreateIndex, Scan, AddEntry, ScanDone, ScanFails,
           LoadTree, RebuildDone
  <2>4. ASSUME Locked(t)
        PROVE  /\ batch' = FALSE
               /\ \A k \in Key : Kept(cache'[k])
               /\ \A u \in Thread : Kept(answer'[u])
    <3>1. batch' = FALSE
      BY <2>2, <2>4 DEF Locked, Crud, Return, GetFill, Drop, GetHit, GetMiss
    <3>2. Kept(NoRec) /\ Kept(job[t].old) /\ \A k \in Key : Kept(cache[k])
      BY DEF Kept, KeptInv
    <3> HIDE DEF Kept
    <3>3. CASE GetFill(t)
      <4>1. job[t].key \in Key /\ job[t].old \in Rec \cup {NoRec} /\ cache \in Map
        BY <2>2, <3>3 DEF GetFill, Fits, TypeOK, Job
      <4>2. \A k \in Key : cache'[k] # NoRec => cache'[k] \in {cache[k], job[t].old}
        BY <3>3, <4>1, CacheSetType DEF GetFill
      <4>3. \A u \in Thread : answer'[u] \in {answer[u], job[t].old}
        BY <2>2, <3>3 DEF GetFill, TypeOK
      <4> QED BY <3>1, <3>2, <4>2, <4>3 DEF KeptInv
    <3>4. ASSUME NEW k \in Key, GetHit(t, k)
          PROVE  cache' = cache /\ \A u \in Thread : answer'[u] \in {answer[u], cache[k]}
      BY <2>2, <3>4 DEF GetHit, TypeOK
    <3>5. CASE cache' = cache /\ answer' = answer
      BY <3>1, <3>5 DEF KeptInv
    <3> QED BY <2>4, <3>1, <3>2, <3>3, <3>4, <3>5 DEF Locked, Crud, Return, Drop, GetMiss, KeptInv
  <2> QED BY <2>1, <2>3, <2>4, KeptWrite, KeptOutside DEF KeptInv
<1> QED BY <1>1, <1>2

LEMMA KeptInit == ASSUME Init PROVE KeptInv
BY NoSnapshot DEF Init, KeptInv, Kept, Empty, NoJob

LEMMA KeptMeans == ASSUME KeptInv PROVE AnswersWereStored
BY DEF KeptInv, AnswersWereStored, Kept

\* A read answers only with what was stored once, whatever commits, rolls back, drops and
\* rebuilds beside it (engine.py:391, 465-477; batch mode does not keep history).
THEOREM AnswersStored == ASSUME "batch" \notin Ops PROVE Spec => []AnswersWereStored
<1>1. Init => KeptInv
  BY KeptInit
<1>2. TypeInv /\ FiniteInv /\ KeptInv /\ [Next]_vars => TypeInv' /\ FiniteInv' /\ KeptInv'
  BY TypesNext, KeptNext
<1>3. KeptInv => AnswersWereStored
  BY KeptMeans
<1> QED BY <1>1, <1>2, <1>3, TypesInit, PTL DEF Spec

-----------------------------------------------------------------------------
(* The log, without transactions: every other call logs what it stores.    *)

NoTx == {"tx", "badtx"} \cap Ops = {}

LoggedInv == /\ logged = data
             /\ \A t \in Thread : pc[t] \notin {"open", "apply", "restore"} /\ job[t].call # "tx"

LEMMA LoggedNext ==
  ASSUME NoTx, TypeInv, LoggedInv, [Next]_vars PROVE LoggedInv'
<1>1. CASE UNCHANGED vars
  BY <1>1 DEF vars, LoggedInv
<1>2. CASE Next
  <2>1. PICK t \in Thread : RawWrite(t) \/ Locked(t) \/ Tx(t) \/ Build(t)
    BY <1>2 DEF Next
  <2>2. TypeOK /\ job[t] \in Job /\ pc[t] \notin {"open", "apply", "restore"} /\ job[t].call # "tx"
    BY DEF TypeInv, TypeOK, LoggedInv
  <2>3. \A u \in Thread \ {t} : pc'[u] = pc[u] /\ job'[u] = job[u]
    BY <2>1, <2>2, OneCall
  <2>4. ~Tx(t)
    BY <2>2 DEF NoTx, Tx, TxBegin, TxBuffer, TxCommit, TxApply, TxNext, TxFlush, TxAbort, TxRestore
  <2>5. logged' = data'
    <3>1. logged = data
      BY DEF LoggedInv
    <3>2. CASE RawWrite(t)
      BY <3>1, <3>2 DEF RawWrite, Unindex, Store, DeleteGone, Index, Uncache
    <3>3. CASE Locked(t)
      BY <3>1, <3>3 DEF Locked, Crud, Return, GetFill, Drop, GetHit, GetMiss
    <3>4. CASE Build(t)
      BY <3>1, <3>4 DEF Build, BeginBatch, Rebuild, ClearHash, CreateIndex, Scan, AddEntry,
                        ScanDone, ScanFails, LoadTree, RebuildDone
    <3> QED BY <2>1, <2>4, <3>2, <3>3, <3>4
  <2>6. ASSUME NEW p, Goto(t, p), p \notin {"open", "apply", "restore"}
        PROVE  pc'[t] \notin {"open", "apply", "restore"}
    BY <2>2, <2>6 DEF Goto, TypeOK
  <2>7. ASSUME NEW j, j.call # "tx", job' = [job EXCEPT ![t] = j] PROVE job'[t].call # "tx"
    BY <2>2, <2>7 DEF TypeOK
  <2>8. NoJob \in Job /\ NoJob.call = "none"
    BY NoJobType DEF NoJob
  <2>9. pc'[t] \notin {"open", "apply", "restore"} /\ job'[t].call # "tx"
    <3>1. CASE RawWrite(t)
      BY <2>2, <2>6, <3>1 DEF RawWrite, Unindex, Store, DeleteGone, Index, Uncache
    <3>2. CASE Crud(t)
      <4>1. PICK j \in Job : j = [NoJob EXCEPT !.call = "crud"]
        BY <2>8 DEF Job
      <4>2. PICK o \in CrudOps, v \in Val : \E k \in Target(o) :
              Begin(t, j, o, k, IF o = "delete" THEN NoRec ELSE v)
        BY <3>2, <4>1 DEF Crud, CrudOps
      <4>3. PICK k \in Target(o) : Begin(t, j, o, k, IF o = "delete" THEN NoRec ELSE v)
        BY <4>2
      <4> DEFINE J == [j EXCEPT !.op = o, !.key = k, !.val = IF o = "delete" THEN NoRec ELSE v,
                                !.old = data[k], !.turbo = batch, !.touched = @ \cup {k}]
      <4>4. J.call = "crud" /\ job' = [job EXCEPT ![t] = J]
        BY <2>8, <4>1, <4>3 DEF Begin, Job
      <4> HIDE DEF J
      <4>5. pc'[t] \in {"store", "unindex"}
        BY <2>2, <4>3 DEF Begin, Goto, TypeOK
      <4> QED BY <2>7, <4>4, <4>5
    <3>3. ASSUME NEW k \in Key, GetMiss(t, k)
          PROVE  pc'[t] \notin {"open", "apply", "restore"} /\ job'[t].call # "tx"
      <4> DEFINE J == [NoJob EXCEPT !.call = "get", !.key = k, !.old = data[k]]
      <4>1. J.call = "get" /\ job' = [job EXCEPT ![t] = J]
        BY <2>8, <3>3 DEF GetMiss, Job
      <4> HIDE DEF J
      <4> QED BY <2>6, <2>7, <3>3, <4>1 DEF GetMiss
    <3>4. CASE Locked(t)
      <4>1. CASE Return(t) \/ GetFill(t)
        BY <2>6, <2>7, <2>8, <4>1 DEF Return, GetFill
      <4>2. CASE Drop(t) \/ \E k \in Key : GetHit(t, k)
        BY <2>2, <4>2 DEF Drop, GetHit
      <4> QED BY <3>2, <3>3, <3>4, <4>1, <4>2 DEF Locked
    <3>5. CASE Build(t)
      <4>1. ASSUME NEW c \in {"batch", "rebuild", "create"}
            PROVE  [NoJob EXCEPT !.call = c] \in Job /\ [NoJob EXCEPT !.call = c].call # "tx"
        <5>1. [NoJob EXCEPT !.call = c] \in Job /\ [NoJob EXCEPT !.call = c].call = c
          BY <2>8 DEF Job
        <5>2. c # "tx"
          OBVIOUS
        <5> QED BY <5>1, <5>2
      <4>2. ASSUME NEW j \in Job, j.call # "tx", Iterate(t, j) PROVE job'[t].call # "tx"
        <5> DEFINE J == [j EXCEPT !.size = Cardinality(Present(data))]
        <5>1. J.call # "tx" /\ job' = [job EXCEPT ![t] = J]
          BY <4>2 DEF Iterate, Job
        <5> HIDE DEF J
        <5> QED BY <2>7, <5>1
      <4>3. CASE Rebuild(t)
        <5>1. PICK c \in {"batch", "rebuild"} : job' = [job EXCEPT ![t] = [NoJob EXCEPT !.call = c]]
          BY <4>3 DEF Rebuild, NewJob
        <5> QED BY <2>6, <2>7, <4>1, <4>3, <5>1 DEF Rebuild
      <4>4. CASE CreateIndex(t)
        BY <2>6, <4>1, <4>2, <4>4 DEF CreateIndex, Iterate
      <4>5. CASE ClearHash(t)
        BY <2>2, <2>6, <4>2, <4>5 DEF ClearHash, Iterate
      <4>6. CASE Scan(t)
        <5>1. PICK k \in Present(data) :
                job' = [job EXCEPT ![t].key = k, ![t].old = data[k], ![t].seen = @ \cup {k}]
          BY <4>6 DEF Scan
        <5> DEFINE J == [job[t] EXCEPT !.key = k, !.old = data[k], !.seen = @ \cup {k}]
        <5>2. J.call # "tx" /\ job' = [job EXCEPT ![t] = J]
          BY <2>2, <5>1 DEF Job, TypeOK
        <5> HIDE DEF J
        <5> QED BY <2>6, <2>7, <4>6, <5>2 DEF Scan
      <4>7. CASE RebuildDone(t)
        BY <2>6, <2>7, <2>8, <4>7 DEF RebuildDone
      <4> QED BY <2>2, <2>6, <3>5, <4>3, <4>4, <4>5, <4>6, <4>7
             DEF Build, BeginBatch, AddEntry, ScanDone, ScanFails, LoadTree
    <3> QED BY <2>1, <2>4, <3>1, <3>4, <3>5
  <2> QED BY <2>3, <2>5, <2>9 DEF LoggedInv
<1> QED BY <1>1, <1>2

LEMMA LoggedInit == ASSUME Init PROVE LoggedInv
BY DEF Init, LoggedInv, NoJob

LEMMA LoggedMeans == ASSUME LoggedInv PROVE RestartFindsMemory
BY DEF LoggedInv, RestartFindsMemory

\* Without transactions what the log and the snapshots hold is what is in memory, also beside
\* drops, batches and rebuilds (engine.py:336-345, 391, 522, 574, 881-905).
THEOREM LogAgreesBeside == ASSUME NoTx PROVE Spec => []RestartFindsMemory
<1>1. Init => LoggedInv
  BY LoggedInit
<1>2. TypeInv /\ FiniteInv /\ LoggedInv /\ [Next]_vars => TypeInv' /\ FiniteInv' /\ LoggedInv'
  BY TypesNext, LoggedNext
<1>3. LoggedInv => RestartFindsMemory
  BY LoggedMeans
<1> QED BY <1>1, <1>2, <1>3, TypesInit, PTL DEF Spec

-----------------------------------------------------------------------------
(* One thread that makes every call but drop, without operations that fail: *)
(* what its call has done so far, and what the indexes still lack in batch  *)
(* mode and in a rebuild.                                                   *)

Solo(t) == Thread = {t} /\ {"drop", "badtx"} \cap Ops = {}

\* What the thread's call knows of the records.
SoloJob(p, j) ==
  /\ p \in {"open", "restore"} => j.snap = data
  /\ \A i \in 1..Len(j.todo) : j.todo[i].op # "bad"
  /\ p \in WritePcs => j.turbo = batch /\ j.key \in used
  /\ p \in {"unindex", "store"} => j.old = data[j.key] /\ (j.op = "insert" <=> j.old = NoRec)
  /\ p \in {"index", "uncache"} => data[j.key] = NewRec(j)
  /\ p \in {"fill", "add"} => j.old = data[j.key]
  /\ p \in {"scan", "add"} => j.size = Cardinality(Present(data))
  /\ p = "clear" => j.seen = {}

\* But for the record it is writing the cache agrees with memory; an inserted record is
\* not in the cache yet.
SoloCache(p, j) ==
  \A k \in Key : cache[k] # NoRec =>
    /\ k \in used
    /\ IF p \in WritePcs /\ k = j.key THEN j.op # "insert" ELSE cache[k] = data[k]

\* The record k belongs into the indexes under v at step p of the call j.
Due(p, j, v, k) == data[k] # NoRec /\ data[k].val = v /\ ~(p \in {"store", "index"} /\ k = j.key)

\* A rebuild has come to k and added it.
Added(p, j, k) == k \in j.seen /\ ~(p = "add" /\ k = j.key)

SoloIndex(p, j) ==
  \A v \in Val, k \in Key :
    /\ <<v, k>> \in hash => indexed /\ Due(p, j, v, k)
    /\ <<v, k>> \in tree => Due(p, j, v, k)
    /\ Due(p, j, v, k) =>
         /\ ~batch /\ ~(j.call = "batch" /\ p \in RebuildPcs) => <<v, k>> \in tree
         /\ indexed /\ ~batch /\ p \notin RebuildPcs => <<v, k>> \in hash
         /\ indexed /\ p \in {"scan", "add"} /\ Added(p, j, k) => <<v, k>> \in hash
         /\ indexed /\ p = "load" => <<v, k>> \in hash

SoloInv(t) ==
  /\ logged = data
  /\ \A k \in Key \ used : data[k] = NoRec
  /\ SoloJob(pc[t], job[t]) /\ SoloCache(pc[t], job[t]) /\ SoloIndex(pc[t], job[t])

LEMMA SoloInit == ASSUME NEW t \in Thread, Init PROVE SoloInv(t)
<1>1. pc[t] = "idle" /\ job[t] = NoJob /\ \A k \in Key : data[k] = NoRec /\ cache[k] = NoRec
  BY DEF Init, Empty
<1>2. logged = data /\ hash = {} /\ tree = {} /\ NoJob.todo = <<>>
  BY DEF Init, NoJob
<1> QED BY <1>1, <1>2 DEF SoloInv, SoloJob, SoloCache, SoloIndex, Due, WritePcs, RebuildPcs

\* Between the raw operations and the rebuilds, nothing is missing or under way.
LEMMA SoloMove ==
  ASSUME NEW t \in Thread, SoloInv(t), logged' = data',
         pc[t] \notin WritePcs \cup RebuildPcs, pc'[t] \notin WritePcs \cup RebuildPcs,
         UNCHANGED <<data, hash, tree, indexed, used>>, batch' = batch \/ batch' = TRUE,
         \A k \in Key : cache'[k] # NoRec => cache'[k] \in {cache[k], data[k]},
         SoloJob(pc[t], job[t])'
  PROVE  SoloInv(t)'
<1>1. pc[t] \notin {"store", "index", "scan", "add", "load"} \cup RebuildPcs
      /\ pc'[t] \notin {"store", "index", "scan", "add", "load"} \cup RebuildPcs
  BY DEF WritePcs, RebuildPcs
<1>2. SoloCache(pc[t], job[t])'
  BY DEF SoloInv, SoloCache
<1>3. SoloIndex(pc[t], job[t])'
  <2>1. \A v \in Val, k \in Key : Due(pc[t], job[t], v, k)' <=> Due(pc[t], job[t], v, k)
    BY <1>1 DEF Due
  <2>2. ~batch' => ~batch
    OBVIOUS
  <2> QED BY <1>1, <2>1, <2>2 DEF SoloInv, SoloIndex
<1> QED BY <1>2, <1>3 DEF SoloInv

\* The records that are there have been given an id.
LEMMA SoloUsed ==
  ASSUME NEW t \in Thread, SoloInv(t), NEW k \in Key, data[k] # NoRec PROVE k \in used
BY DEF SoloInv

\* A raw operation starts.
LEMMA SoloBegin ==
  ASSUME NEW t \in Thread, TypeInv, SoloInv(t), NEW j \in Job, NEW o \in CrudOps, NEW k \in Key,
         NEW v, pc[t] \notin WritePcs \cup RebuildPcs,
         \A i \in 1..Len(j.todo) : j.todo[i].op # "bad",
         o = "insert" => k \notin used, o # "insert" => data[k] # NoRec,
         Begin(t, j, o, k, v), UNCHANGED <<data, logged, cache, indexed, hash, tree, batch>>
  PROVE  SoloInv(t)'
<1> DEFINE J == [j EXCEPT !.op = o, !.key = k, !.val = v, !.old = data[k], !.turbo = batch,
                          !.touched = @ \cup {k}]
           p == IF o = "insert" THEN "store" ELSE "unindex"
<1>1. J.op = o /\ J.key = k /\ J.old = data[k] /\ J.turbo = batch /\ J.todo = j.todo
  BY DEF Job
<1>2. pc'[t] = p /\ job'[t] = J /\ k \in used' /\ used \subseteq used'
      /\ used' \subseteq used \cup {k}
  <2>1. used' = IF o = "insert" THEN used \cup {k} ELSE used
    BY DEF Begin
  <2>2. o # "insert" => k \in used
    BY SoloUsed
  <2>3. pc'[t] = p /\ job'[t] = J
    BY DEF Begin, Goto, TypeInv, TypeOK
  <2> QED BY <2>1, <2>2, <2>3
<1> HIDE DEF J
<1>3. p \in {"store", "unindex"} /\ (p = "store" <=> o = "insert")
      /\ (o = "insert" <=> data[k] = NoRec)
  BY DEF SoloInv
<1> HIDE DEF p
<1>4. SoloJob(pc[t], job[t])'
  BY <1>1, <1>2, <1>3 DEF SoloInv, SoloJob, WritePcs
<1>5. SoloCache(pc[t], job[t])'
  BY <1>1, <1>2, <1>3 DEF SoloInv, SoloCache, WritePcs
<1>6. SoloIndex(pc[t], job[t])'
  <2>1. \A w \in Val, i \in Key : Due(pc[t], job[t], w, i)' <=> Due(pc[t], job[t], w, i)
    BY <1>1, <1>2, <1>3 DEF Due, WritePcs
  <2>2. p \notin RebuildPcs /\ p \notin {"scan", "add", "load"}
    BY <1>3 DEF RebuildPcs
  <2> QED BY <1>2, <2>1, <2>2 DEF SoloInv, SoloIndex
<1> QED BY <1>2, <1>4, <1>5, <1>6 DEF SoloInv

LEMMA SoloWrite ==
  ASSUME NEW t \in Thread, TypeInv, SoloInv(t), RawWrite(t) PROVE SoloInv(t)'
<1> DEFINE j == job[t]
           k == j.key
<1>1. TypeOK /\ Fits(pc[t], j) /\ j \in Job /\ batch \in BOOLEAN
  BY DEF TypeInv, TypeOK
<1>2. /\ pc[t] \in WritePcs /\ job' = job /\ used' = used /\ batch' = batch /\ indexed' = indexed
      /\ k \in Key /\ k \in used /\ j.turbo = batch /\ j.op \in CrudOps
      /\ (j.op # "delete" => j.val \in Val) /\ (j.op # "insert" => j.old \in Rec)
  <2>1. /\ pc[t] \in WritePcs /\ job' = job /\ used' = used /\ batch' = batch /\ indexed' = indexed
    BY DEF RawWrite, Unindex, Store, DeleteGone, Index, Uncache, WritePcs
  <2> QED BY <1>1, <2>1 DEF Fits, SoloInv, SoloJob
<1>3. NewRec(j) \in Rec \cup {NoRec} /\ (NewRec(j) = NoRec <=> j.op = "delete")
      /\ (j.op # "delete" => NewRec(j).val = j.val)
  <2>1. NewRec(j) \in Rec \cup {NoRec} /\ (NewRec(j) = NoRec <=> j.op = "delete")
    BY <1>1, <1>2, NewRecType DEF CrudOps
  <2> QED BY <2>1 DEF NewRec, NewVersion
<1>4. ASSUME NEW p, Goto(t, p) PROVE pc'[t] = p
  BY <1>1, <1>4 DEF Goto, TypeOK
<1>5. \A i \in 1..Len(j.todo) : j.todo[i].op # "bad"
  BY DEF SoloInv, SoloJob
<1>6. CASE Unindex(t)
  <2>1. /\ pc[t] = "unindex" /\ pc'[t] = "store" /\ data' = data /\ logged' = logged
        /\ cache' = cache /\ hash' = hash \ {<<j.old.val, k>>} /\ tree' = tree \ {<<j.old.val, k>>}
    BY <1>4, <1>6 DEF Unindex, UnindexRecord, UnindexRecordSorted
  <2>2. j.old = data[k] /\ (j.op = "insert" <=> j.old = NoRec)
    BY <2>1 DEF SoloInv, SoloJob
  <2>3. SoloJob(pc[t], job[t])'
    BY <1>2, <1>5, <2>1, <2>2 DEF SoloJob, WritePcs
  <2>4. SoloCache(pc[t], job[t])'
    BY <1>2, <2>1 DEF SoloInv, SoloCache, WritePcs
  <2>5. SoloIndex(pc[t], job[t])'
    <3>1. \A v \in Val, i \in Key : Due(pc[t], job[t], v, i)' <=> Due(pc[t], job[t], v, i) /\ i # k
      BY <1>2, <2>1 DEF Due
    <3>2. ASSUME NEW v \in Val, NEW i \in Key
          PROVE  /\ Due(pc[t], j, v, i) /\ i = k => <<v, i>> = <<j.old.val, k>>
                 /\ <<v, i>> \in hash' <=> <<v, i>> \in hash /\ <<v, i>> # <<j.old.val, k>>
                 /\ <<v, i>> \in tree' <=> <<v, i>> \in tree /\ <<v, i>> # <<j.old.val, k>>
      BY <2>1, <2>2 DEF Due
    <3> QED BY <1>2, <2>1, <3>1, <3>2 DEF SoloInv, SoloIndex, RebuildPcs
  <2> QED BY <1>2, <2>1, <2>3, <2>4, <2>5 DEF SoloInv
<1>7. CASE Store(t)
  <2> DEFINE p == IF j.op = "insert" /\ j.turbo THEN "done"
                  ELSE IF j.op = "delete" THEN "uncache" ELSE "index"
  <2>1. /\ pc[t] = "store" /\ pc'[t] = p /\ cache' = cache /\ hash' = hash /\ tree' = tree
    BY <1>4, <1>7 DEF Store
  <2>2. /\ \A i \in Key : data'[i] = IF i = k THEN NewRec(j) ELSE data[i]
        /\ logged' = data'
    BY <1>1, <1>2, <1>7 DEF Store, TypeOK, Map, SoloInv
  <2>3. /\ p \in {"done", "uncache", "index"} /\ (p = "done" <=> j.op = "insert" /\ batch)
        /\ (p = "uncache" <=> j.op = "delete")
    BY <1>2
  <2> HIDE DEF p
  <2>4. SoloJob(pc[t], job[t])'
    BY <1>2, <1>5, <2>1, <2>2, <2>3 DEF SoloJob, WritePcs
  <2>5. SoloCache(pc[t], job[t])'
    BY <1>2, <2>1, <2>2, <2>3 DEF SoloInv, SoloCache, WritePcs
  <2>6. SoloIndex(pc[t], job[t])'
    <3>1. ASSUME NEW v \in Val, NEW i \in Key, i # k
          PROVE  Due(pc[t], job[t], v, i)' <=> Due(pc[t], job[t], v, i)
      BY <1>2, <2>1, <2>2, <3>1 DEF Due
    <3>2. ASSUME NEW v \in Val, NEW i \in Key, i = k
          PROVE  ~Due(pc[t], job[t], v, i) /\ (Due(pc[t], job[t], v, i)' => p = "done")
      BY <1>2, <1>3, <2>1, <2>2, <2>3, <3>2 DEF Due
    <3>3. p \notin RebuildPcs /\ p \notin {"scan", "add", "load"} /\ pc[t] \notin RebuildPcs
      BY <2>1, <2>3 DEF RebuildPcs
    <3>4. ASSUME NEW v \in Val, NEW i \in Key, Due(pc[t], job[t], v, i)', ~batch
          PROVE  i # k
      BY <2>3, <3>2, <3>4
    <3>5. SoloIndex(pc[t], job[t])
      BY DEF SoloInv
    <3>6. ASSUME NEW v \in Val, NEW i \in Key
          PROVE  /\ <<v, i>> \in hash => indexed /\ Due(pc[t], job[t], v, i)'
                 /\ <<v, i>> \in tree => Due(pc[t], job[t], v, i)'
      BY <3>1, <3>2, <3>5 DEF SoloIndex
    <3>7. ASSUME NEW v \in Val, NEW i \in Key, Due(pc[t], job[t], v, i)', ~batch
          PROVE  <<v, i>> \in tree /\ (indexed => <<v, i>> \in hash)
      BY <3>1, <3>3, <3>4, <3>5, <3>7 DEF SoloIndex
    <3> QED BY <1>2, <2>1, <3>3, <3>6, <3>7 DEF SoloIndex
  <2> QED BY <1>2, <2>2, <2>4, <2>5, <2>6 DEF SoloInv
<1>8. CASE DeleteGone(t)
  BY <1>8 DEF DeleteGone, SoloInv, SoloJob
<1>9. CASE Index(t)
  <2>1. /\ pc[t] = "index" /\ pc'[t] = "uncache" /\ data' = data /\ logged' = logged
        /\ cache' = cache /\ tree' = tree \cup {<<j.val, k>>}
        /\ hash' = IF indexed THEN hash \cup {<<j.val, k>>} ELSE hash
    BY <1>4, <1>9 DEF Index, IndexRecord, IndexRecordSorted
  <2>2. data[k] = NewRec(j) /\ j.op # "delete" /\ data[k] # NoRec /\ data[k].val = j.val
    BY <1>1, <1>3, <2>1 DEF SoloInv, SoloJob, Fits, WritePcs
  <2>3. SoloJob(pc[t], job[t])'
    BY <1>2, <1>5, <2>1, <2>2 DEF SoloJob, WritePcs
  <2>4. SoloCache(pc[t], job[t])'
    BY <1>2, <2>1 DEF SoloInv, SoloCache, WritePcs
  <2>5. SoloIndex(pc[t], job[t])'
    <3>1. ASSUME NEW v \in Val, NEW i \in Key
          PROVE  Due(pc[t], job[t], v, i)' <=> Due(pc[t], job[t], v, i) \/ <<v, i>> = <<j.val, k>>
      BY <1>2, <2>1, <2>2 DEF Due
    <3> QED BY <1>1, <1>2, <2>1, <3>1 DEF SoloInv, SoloIndex, RebuildPcs
  <2> QED BY <1>2, <2>1, <2>3, <2>4, <2>5 DEF SoloInv
<1>10. CASE Uncache(t)
  <2>1. /\ pc[t] = "uncache" /\ pc'[t] = "done"
        /\ UNCHANGED <<data, logged, hash, tree>>
    BY <1>4, <1>10 DEF Uncache
  <2>2. data[k] = NewRec(j)
    BY <2>1 DEF SoloInv, SoloJob
  <2>3. \A i \in Key : cache'[i] # NoRec =>
                         IF i = k THEN cache'[i] = data[k] ELSE cache'[i] = cache[i]
    <3>1. CASE j.op = "insert"
      <4>1. NewRec(j) \in Rec /\ CacheSet(k, NewRec(j)) /\ cache \in Map
        BY <1>1, <1>3, <1>10, <3>1 DEF Uncache, TypeOK
      <4> QED BY <1>2, <2>2, <4>1, CacheSetType
    <3>2. CASE j.op # "insert"
      BY <1>1, <1>2, <1>10, <3>2 DEF Uncache, TypeOK, Map
    <3> QED BY <3>1, <3>2
  <2>4. SoloJob(pc[t], job[t])'
    BY <1>2, <1>5, <2>1 DEF SoloJob, WritePcs
  <2>5. SoloCache(pc[t], job[t])'
    BY <1>2, <2>1, <2>3 DEF SoloInv, SoloCache, WritePcs
  <2>6. SoloIndex(pc[t], job[t])'
    <3>1. \A v \in Val, i \in Key : Due(pc[t], job[t], v, i)' <=> Due(pc[t], job[t], v, i)
      BY <1>2, <2>1 DEF Due
    <3> QED BY <1>1, <1>2, <2>1, <3>1 DEF SoloInv, SoloIndex, RebuildPcs
  <2> QED BY <1>2, <2>1, <2>4, <2>5, <2>6 DEF SoloInv
<1> QED BY <1>6, <1>7, <1>8, <1>9, <1>10 DEF RawWrite

LEMMA SoloLocked ==
  ASSUME NEW t \in Thread, Solo(t), TypeInv, SoloInv(t), Locked(t) PROVE SoloInv(t)'
<1>1. TypeOK /\ Fits(pc[t], job[t]) /\ job[t] \in Job /\ logged = data
  BY DEF TypeInv, TypeOK, SoloInv
<1>2. NoJob \in Job /\ NoJob.todo = <<>>
  BY NoJobType DEF NoJob
<1>3. ASSUME NEW p, Goto(t, p) PROVE pc'[t] = p
  BY <1>1, <1>3 DEF Goto, TypeOK
<1>4. CASE Crud(t)
  <2>0. PICK j \in Job : j = [NoJob EXCEPT !.call = "crud"]
    BY <1>2 DEF Job
  <2>1. j = [NoJob EXCEPT !.call = "crud"] /\ j.todo = <<>>
    BY <2>0 DEF NoJob
  <2>2. PICK o \in CrudOps, v \in Val : \E k \in Target(o) :
          Begin(t, j, o, k, IF o = "delete" THEN NoRec ELSE v)
    BY <1>4, <2>1 DEF Crud, CrudOps
  <2>3. PICK k \in Target(o) : Begin(t, j, o, k, IF o = "delete" THEN NoRec ELSE v)
    BY <2>2
  <2>4. PICK w : w = IF o = "delete" THEN NoRec ELSE v
    OBVIOUS
  <2>5. k \in Key /\ (o = "insert" => k \notin used) /\ (o # "insert" => data[k] # NoRec)
    BY <2>3 DEF Target, Present
  <2>6. Begin(t, j, o, k, w)
    BY <2>3, <2>4
  <2>7. pc[t] \notin WritePcs \cup RebuildPcs
    BY <1>4 DEF Crud, Enter, WritePcs, RebuildPcs
  <2>8. \A i \in 1..Len(j.todo) : j.todo[i].op # "bad"
    BY <2>1
  <2>9. UNCHANGED <<data, logged, cache, indexed, hash, tree, batch>>
    BY <1>4 DEF Crud
  <2> QED BY <2>5, <2>6, <2>7, <2>8, <2>9, SoloBegin
<1>5. CASE Return(t) \/ GetFill(t)
  <2>1. /\ pc[t] \in {"done", "fill"} /\ pc'[t] = "idle" /\ job'[t] = NoJob
        /\ UNCHANGED <<data, logged, hash, tree, indexed, used, batch>>
    BY <1>1, <1>3, <1>5 DEF Return, GetFill, TypeOK
  <2>2. \A k \in Key : cache'[k] # NoRec => cache'[k] \in {cache[k], data[k]}
    <3>1. CASE GetFill(t)
      <4>1. /\ job[t].key \in Key /\ job[t].old \in Rec \cup {NoRec} /\ cache \in Map
            /\ job[t].old = data[job[t].key]
        BY <1>1, <3>1 DEF GetFill, Fits, TypeOK, Job, SoloInv, SoloJob
      <4> QED BY <3>1, <4>1, CacheSetType DEF GetFill
    <3>2. CASE Return(t)
      BY <3>2 DEF Return
    <3> QED BY <1>5, <3>1, <3>2
  <2>3. pc[t] \notin WritePcs \cup RebuildPcs /\ pc'[t] \notin WritePcs \cup RebuildPcs
    BY <2>1 DEF WritePcs, RebuildPcs
  <2>4. SoloJob(pc[t], job[t])'
    BY <1>2, <2>1 DEF SoloJob, WritePcs
  <2> QED BY <1>1, <2>1, <2>2, <2>3, <2>4, SoloMove
<1>6. CASE Drop(t)
  BY <1>6 DEF Drop, Solo
<1>7. ASSUME NEW k \in Key, GetHit(t, k) PROVE SoloInv(t)'
  <2>1. /\ pc[t] = "idle" /\ pc' = pc /\ job' = job /\ cache' = cache
        /\ UNCHANGED <<data, logged, hash, tree, indexed, used, batch>>
    BY <1>7 DEF GetHit
  <2>2. pc[t] \notin WritePcs \cup RebuildPcs
    BY <2>1 DEF WritePcs, RebuildPcs
  <2>3. SoloJob(pc[t], job[t])'
    BY <2>1 DEF SoloInv, SoloJob
  <2> QED BY <1>1, <2>1, <2>2, <2>3, SoloMove
<1>8. ASSUME NEW k \in Key, GetMiss(t, k) PROVE SoloInv(t)'
  <2> DEFINE J == [NoJob EXCEPT !.call = "get", !.key = k, !.old = data[k]]
  <2>1. J.key = k /\ J.old = data[k] /\ J.todo = <<>>
    BY <1>2 DEF Job
  <2>2. /\ pc[t] = "idle" /\ pc'[t] = "fill" /\ job'[t] = J /\ cache' = cache
        /\ UNCHANGED <<data, logged, hash, tree, indexed, used, batch>>
    BY <1>1, <1>3, <1>8 DEF GetMiss, Enter, TypeOK
  <2> HIDE DEF J
  <2>3. pc[t] \notin WritePcs \cup RebuildPcs /\ pc'[t] \notin WritePcs \cup RebuildPcs
    BY <2>2 DEF WritePcs, RebuildPcs
  <2>4. SoloJob(pc[t], job[t])'
    BY <2>1, <2>2 DEF SoloJob, WritePcs
  <2> QED BY <1>1, <2>2, <2>3, <2>4, SoloMove
<1> QED BY <1>4, <1>5, <1>6, <1>7, <1>8 DEF Locked

LEMMA SoloTx ==
  ASSUME NEW t \in Thread, Solo(t), TypeInv, SoloInv(t), Tx(t) PROVE SoloInv(t)'
<1>1. /\ TypeOK /\ Fits(pc[t], job[t]) /\ job[t] \in Job /\ logged = data
      /\ SoloJob(pc[t], job[t]) /\ job[t].todo \in Seq(TxOp)
  BY DEF TypeInv, TypeOK, SoloInv, Job
<1>2. NoJob \in Job /\ NoJob.todo = <<>>
  BY NoJobType DEF NoJob
<1>3. ASSUME NEW p, Goto(t, p) PROVE pc'[t] = p
  BY <1>1, <1>3 DEF Goto, TypeOK
<1>4. ASSUME NEW p \in {"idle", "done", "apply", "open", "restore"}
      PROVE  p \notin WritePcs \cup RebuildPcs
  BY DEF WritePcs, RebuildPcs
<1>5. ASSUME logged' = data', UNCHANGED <<data, cache, hash, tree, indexed, used, batch>>,
             pc[t] \in {"idle", "done", "apply", "open", "restore"},
             pc'[t] \in {"idle", "done", "apply", "open", "restore"},
             SoloJob(pc[t], job[t])'
      PROVE  SoloInv(t)'
  BY <1>4, <1>5, SoloMove
<1>6. \A i \in 1..Len(job[t].todo) : job[t].todo[i].op # "bad"
  BY <1>1 DEF SoloJob
<1>7. CASE TxBegin(t)
  <2> DEFINE J == [NoJob EXCEPT !.call = "tx", !.snap = data]
  <2>1. J.snap = data /\ J.todo = <<>>
    BY <1>2 DEF NoJob
  <2>2. /\ pc[t] = "idle" /\ pc'[t] = "open" /\ job'[t] = J
        /\ UNCHANGED <<data, logged, cache, hash, tree, indexed, used, batch>>
    BY <1>1, <1>3, <1>7 DEF TxBegin, TypeOK
  <2> HIDE DEF J
  <2>3. SoloJob(pc[t], job[t])'
    BY <2>1, <2>2 DEF SoloJob, WritePcs
  <2> QED BY <1>1, <1>5, <2>2, <2>3
<1>8. CASE TxBuffer(t)
  <2>1. PICK e \in TxOp : /\ e.op = "bad" => "badtx" \in Ops
                          /\ job' = [job EXCEPT ![t].todo = Append(@, e)]
    <3>1. PICK e \in TxOp : /\ CASE e.op = "insert" -> e.key = NoKey /\ e.val # NoRec /\ SpareId
                                 [] e.op = "update" -> e.key \in used /\ e.val # NoRec
                                 [] e.op = "delete" -> e.key \in used /\ e.val = NoRec
                                 [] e.op = "bad" -> e.key = NoKey /\ e.val = NoRec /\ "badtx" \in Ops
                            /\ job' = [job EXCEPT ![t].todo = Append(@, e)]
      BY <1>8 DEF TxBuffer
    <3>2. e.op = "bad" => "badtx" \in Ops
      BY <3>1
    <3> QED BY <3>1, <3>2
  <2>2. PICK s \in Seq(TxOp) : s = Append(job[t].todo, e)
    BY <1>1, AppendProperties
  <2> DEFINE J == [job[t] EXCEPT !.todo = s]
  <2>3. J.todo = s /\ J.snap = job[t].snap
    BY <1>1 DEF Job
  <2>4. \A i \in 1..Len(s) : s[i].op # "bad"
    BY <1>1, <1>6, <2>1, <2>2, AppendProperties DEF Solo
  <2>5. /\ pc[t] = "open" /\ pc' = pc /\ job'[t] = J
        /\ UNCHANGED <<data, logged, cache, hash, tree, indexed, used, batch>>
    BY <1>1, <1>8, <2>1, <2>2 DEF TxBuffer, TypeOK
  <2> HIDE DEF J
  <2>6. SoloJob(pc[t], job[t])'
    BY <1>1, <2>3, <2>4, <2>5 DEF SoloJob, WritePcs
  <2> QED BY <1>1, <1>5, <2>5, <2>6
<1>9. CASE TxCommit(t) \/ TxAbort(t) \/ TxNext(t)
  <2>1. /\ pc[t] \in {"open", "done"} /\ pc'[t] \in {"apply", "restore"} /\ job' = job
        /\ pc'[t] = "restore" => pc[t] = "open"
        /\ UNCHANGED <<data, logged, cache, hash, tree, indexed, used, batch>>
    BY <1>3, <1>9 DEF TxCommit, TxAbort, TxNext
  <2>2. SoloJob(pc[t], job[t])'
    BY <1>1, <2>1 DEF SoloJob, WritePcs
  <2> QED BY <1>1, <1>5, <2>1, <2>2
<1>10. CASE TxApply(t)
  <2> DEFINE e == Head(job[t].todo)
             rest == [job[t] EXCEPT !.todo = Tail(@)]
  <2>1. /\ pc[t] = "apply" /\ job[t].todo # <<>>
        /\ (CASE e.op = "bad" -> Goto(t, "restore") /\ UNCHANGED <<job, used>>
              [] e.op = "insert" -> \E new \in Key \ used : Begin(t, rest, "insert", new, e.val)
              [] e.key # NoKey /\ data[e.key] = NoRec -> /\ job' = [job EXCEPT ![t] = rest]
                                                         /\ UNCHANGED <<pc, used>>
              [] OTHER -> Begin(t, rest, e.op, e.key, e.val))
        /\ UNCHANGED <<data, logged, cache, indexed, hash, tree, hist, batch, lock, answer>>
    BY <1>10 DEF TxApply
  <2>2. e \in TxOp /\ Tail(job[t].todo) \in Seq(TxOp) /\ e = job[t].todo[1]
        /\ \A i \in 1..Len(Tail(job[t].todo)) : Tail(job[t].todo)[i] = job[t].todo[i + 1]
        /\ Len(job[t].todo) \in Nat /\ Len(Tail(job[t].todo)) = Len(job[t].todo) - 1
        /\ Len(job[t].todo) > 0
    BY <1>1, <2>1, HeadTailProperties, EmptySeq, LenProperties
  <2>3. PICK s \in Seq(TxOp) : s = Tail(job[t].todo)
    BY <2>2
  <2>4. rest = [job[t] EXCEPT !.todo = s]
    BY <2>3
  <2>5. rest \in Job /\ rest.todo = s
    BY <1>1, <2>4 DEF Job
  <2>6. /\ Buffered(e) /\ e.op # "bad" /\ \A i \in 1..Len(rest.todo) : rest.todo[i].op # "bad"
        /\ e.op \in {"insert", "update", "delete"}
    <3>1. Buffered(e) /\ e.op # "bad"
      BY <1>1, <1>6, <2>2 DEF Fits
    <3>2. \A i \in 1..Len(rest.todo) : rest.todo[i].op # "bad"
      BY <1>6, <2>2, <2>3, <2>5
    <3> QED BY <2>2, <3>1, <3>2 DEF TxOp
  <2> HIDE DEF rest, e
  <2>7. pc[t] \notin WritePcs \cup RebuildPcs
    BY <1>4, <2>1
  <2>8. CASE e.op = "insert"
    <3>1. PICK new \in Key \ used : Begin(t, rest, "insert", new, e.val)
      BY <2>1, <2>6, <2>8 DEF Buffered
    <3>2. "insert" \in CrudOps
      BY DEF CrudOps
    <3> QED BY <2>1, <2>5, <2>6, <2>7, <3>1, <3>2, SoloBegin
  <2>9. CASE e.op # "insert" /\ data[e.key] = NoRec
    <3>1. e.key \in Key
      BY <2>6, <2>9 DEF Buffered
    <3>2. job' = [job EXCEPT ![t] = rest] /\ pc' = pc /\ used' = used
      BY <2>1, <2>6, <2>9, <3>1, NoKeyAssumption
    <3>3. job'[t] = rest
      BY <1>1, <3>2 DEF TypeOK
    <3>4. SoloJob(pc[t], job[t])'
      BY <2>1, <2>6, <3>2, <3>3 DEF SoloJob, WritePcs
    <3> QED BY <1>1, <1>5, <2>1, <3>2, <3>4
  <2>10. CASE e.op # "insert" /\ data[e.key] # NoRec
    <3>1. e.key \in Key /\ e.op \in CrudOps
      BY <2>6, <2>10 DEF Buffered, CrudOps
    <3>2. Begin(t, rest, e.op, e.key, e.val)
      BY <2>1, <2>6, <2>10, <3>1, NoKeyAssumption
    <3> QED BY <2>1, <2>5, <2>6, <2>7, <2>10, <3>1, <3>2, SoloBegin
  <2> QED BY <2>8, <2>9, <2>10
<1>11. CASE TxFlush(t) \/ TxRestore(t)
  <2>1. /\ pc[t] \in {"apply", "restore"} /\ pc'[t] = "idle" /\ job'[t] = NoJob
        /\ data' = data /\ logged' = data
        /\ UNCHANGED <<cache, hash, tree, indexed, used, batch>>
    BY <1>1, <1>3, <1>11 DEF TxFlush, TxRestore, TypeOK, SoloJob
  <2>2. SoloJob(pc[t], job[t])'
    BY <1>2, <2>1 DEF SoloJob, WritePcs
  <2> QED BY <1>1, <1>5, <2>1, <2>2
<1> QED BY <1>7, <1>8, <1>9, <1>10, <1>11 DEF Tx

LEMMA SoloBuild ==
  ASSUME NEW t \in Thread, TypeInv, FiniteInv, SoloInv(t), Build(t) PROVE SoloInv(t)'
<1>1. /\ TypeOK /\ Fits(pc[t], job[t]) /\ job[t] \in Job /\ logged = data
      /\ SoloJob(pc[t], job[t]) /\ SoloCache(pc[t], job[t]) /\ SoloIndex(pc[t], job[t])
      /\ batch \in BOOLEAN
  BY DEF TypeInv, TypeOK, SoloInv
<1>2. NoJob \in Job /\ NoJob.todo = <<>> /\ NoJob.seen = {}
  BY NoJobType DEF NoJob
<1>3. ASSUME NEW p, Goto(t, p) PROVE pc'[t] = p
  BY <1>1, <1>3 DEF Goto, TypeOK
<1>4. \A i \in 1..Len(job[t].todo) : job[t].todo[i].op # "bad"
  BY <1>1 DEF SoloJob
<1>5. ASSUME NEW c \in {"batch", "rebuild", "create"}
      PROVE  \E J \in Job : /\ J = [NoJob EXCEPT !.call = c] /\ J.call = c
                            /\ J.todo = <<>> /\ J.seen = {}
  <2>1. [NoJob EXCEPT !.call = c] \in Job
    BY <1>2 DEF Job
  <2>2. [NoJob EXCEPT !.call = c].todo = <<>> /\ [NoJob EXCEPT !.call = c].seen = {}
        /\ [NoJob EXCEPT !.call = c].call = c
    BY DEF NoJob
  <2> QED BY <2>1, <2>2
\* The records, the cache and the ids stay as they are in all of them.
<1>6. ASSUME data' = data, cache' = cache, used' = used, logged' = data,
             pc[t] \notin WritePcs, pc'[t] \notin WritePcs,
             SoloJob(pc[t], job[t])', SoloIndex(pc[t], job[t])'
      PROVE  SoloInv(t)'
  <2>1. SoloCache(pc[t], job[t])'
    BY <1>1, <1>6 DEF SoloCache
  <2> QED BY <1>6, <2>1 DEF SoloInv
<1>7. ASSUME NEW p \in {"idle", "clear", "scan", "add", "load", "flush"} PROVE p \notin WritePcs
  BY DEF WritePcs
<1>8. ASSUME NEW p \in {"idle", "clear", "scan", "add", "load", "flush"},
             NEW j, NEW v \in Val, NEW k \in Key
      PROVE  Due(p, j, v, k) <=> data[k] # NoRec /\ data[k].val = v
  BY DEF Due
<1>9. CASE BeginBatch(t)
  <2>1. /\ pc[t] = "idle" /\ batch' = TRUE
        /\ UNCHANGED <<data, logged, cache, indexed, hash, tree, used, pc, job>>
    BY <1>9 DEF BeginBatch
  <2>2. pc[t] \notin WritePcs \cup RebuildPcs
    BY <2>1 DEF WritePcs, RebuildPcs
  <2>3. SoloJob(pc[t], job[t])'
    BY <1>1, <2>1 DEF SoloJob, WritePcs
  <2> QED BY <1>1, <2>1, <2>2, <2>3, SoloMove
<1>10. CASE Rebuild(t)
  <2>1. PICK c \in {"batch", "rebuild"} :
          /\ job' = [job EXCEPT ![t] = [NoJob EXCEPT !.call = c]]
          /\ IF c = "batch" THEN batch' = FALSE ELSE batch' = batch
    BY <1>10 DEF Rebuild, NewJob
  <2>2. PICK J \in Job : J = [NoJob EXCEPT !.call = c] /\ J.call = c /\ J.todo = <<>> /\ J.seen = {}
    BY <1>5
  <2>3. /\ pc[t] = "idle" /\ pc'[t] = "clear" /\ job'[t] = J
        /\ UNCHANGED <<data, logged, cache, indexed, hash, tree, used>>
    BY <1>1, <1>3, <1>10, <2>1, <2>2 DEF Rebuild, TypeOK
  <2>4. SoloJob(pc[t], job[t])'
    BY <1>7, <2>2, <2>3 DEF SoloJob
  <2>5. SoloIndex(pc[t], job[t])'
    <3>1. ASSUME NEW v \in Val, NEW k \in Key
          PROVE  Due(pc[t], job[t], v, k)' <=> Due(pc[t], job[t], v, k)
      BY <2>3 DEF Due
    <3>2. "clear" \in RebuildPcs /\ "idle" \notin RebuildPcs
      BY DEF RebuildPcs
    <3> QED BY <1>1, <2>1, <2>2, <2>3, <3>1, <3>2 DEF SoloIndex
  <2> QED BY <1>1, <1>6, <1>7, <2>3, <2>4, <2>5
<1>11. CASE ClearHash(t)
  <2> DEFINE J == [job[t] EXCEPT !.size = Cardinality(Present(data))]
  <2>1. /\ pc[t] = "clear" /\ pc'[t] = "scan" /\ job'[t] = J /\ hash' = {}
        /\ UNCHANGED <<data, logged, cache, indexed, tree, used, batch>>
    BY <1>1, <1>3, <1>11 DEF ClearHash, Iterate, TypeOK
  <2>2. /\ J.size = Cardinality(Present(data)) /\ J.todo = job[t].todo /\ J.call = job[t].call
        /\ J.seen = job[t].seen
    BY <1>1 DEF Job
  <2>3. job[t].seen = {}
    BY <1>1, <2>1 DEF SoloJob
  <2> HIDE DEF J
  <2>4. SoloJob(pc[t], job[t])'
    BY <1>4, <1>7, <2>1, <2>2 DEF SoloJob, Present
  <2>5. SoloIndex(pc[t], job[t])'
    <3>1. ASSUME NEW v \in Val, NEW k \in Key
          PROVE  Due(pc[t], job[t], v, k)' <=> Due(pc[t], job[t], v, k)
      BY <2>1 DEF Due
    <3>2. ASSUME NEW k \in Key PROVE ~Added(pc[t], job[t], k)'
      BY <2>1, <2>2, <2>3 DEF Added
    <3>3. "clear" \in RebuildPcs /\ "scan" \in RebuildPcs
      BY DEF RebuildPcs
    <3> QED BY <1>1, <2>1, <2>2, <3>1, <3>2, <3>3 DEF SoloIndex
  <2> QED BY <1>1, <1>6, <1>7, <2>1, <2>4, <2>5
<1>12. CASE CreateIndex(t)
  <2>1. PICK j \in Job : j = [NoJob EXCEPT !.call = "create"] /\ j.call = "create"
                         /\ j.todo = <<>> /\ j.seen = {}
    BY <1>5
  <2> DEFINE J == [j EXCEPT !.size = Cardinality(Present(data))]
  <2>2. /\ pc[t] = "idle" /\ pc'[t] = "scan" /\ job'[t] = J /\ indexed' = TRUE
        /\ UNCHANGED <<data, logged, cache, hash, tree, used, batch>>
    BY <1>1, <1>3, <1>12, <2>1 DEF CreateIndex, Iterate, TypeOK
  <2>3. /\ J.size = Cardinality(Present(data)) /\ J.todo = <<>> /\ J.call = "create"
        /\ J.seen = {}
    BY <2>1 DEF Job
  <2> HIDE DEF J
  <2>4. SoloJob(pc[t], job[t])'
    BY <1>7, <2>2, <2>3 DEF SoloJob, Present
  <2>5. SoloIndex(pc[t], job[t])'
    <3>1. ASSUME NEW v \in Val, NEW k \in Key
          PROVE  Due(pc[t], job[t], v, k)' <=> Due(pc[t], job[t], v, k)
      BY <2>2 DEF Due
    <3>2. ASSUME NEW k \in Key PROVE ~Added(pc[t], job[t], k)'
      BY <2>2, <2>3 DEF Added
    <3>3. "idle" \notin RebuildPcs /\ "scan" \in RebuildPcs
      BY DEF RebuildPcs
    <3> QED BY <1>1, <2>2, <2>3, <3>1, <3>2, <3>3 DEF SoloIndex
  <2> QED BY <1>1, <1>6, <1>7, <2>2, <2>4, <2>5
<1>13. CASE Scan(t)
  <2>1. PICK k \in Present(data) :
          job' = [job EXCEPT ![t].key = k, ![t].old = data[k], ![t].seen = @ \cup {k}]
    BY <1>13 DEF Scan
  <2> DEFINE J == [job[t] EXCEPT !.key = k, !.old = data[k], !.seen = @ \cup {k}]
  <2>2. /\ pc[t] = "scan" /\ pc'[t] = "add" /\ job'[t] = J
        /\ UNCHANGED <<data, logged, cache, indexed, hash, tree, used, batch>>
    BY <1>1, <1>3, <1>13, <2>1 DEF Scan, TypeOK
  <2>3. /\ J.key = k /\ J.old = data[k] /\ J.seen = job[t].seen \cup {k} /\ J.todo = job[t].todo
        /\ J.call = job[t].call /\ J.size = job[t].size
    BY <1>1 DEF Job
  <2> HIDE DEF J
  <2>4. SoloJob(pc[t], job[t])'
    BY <1>1, <1>4, <1>7, <2>2, <2>3 DEF SoloJob, Present
  <2>5. SoloIndex(pc[t], job[t])'
    <3>1. ASSUME NEW v \in Val, NEW i \in Key
          PROVE  Due(pc[t], job[t], v, i)' <=> Due(pc[t], job[t], v, i)
      BY <2>2 DEF Due
    <3>2. ASSUME NEW i \in Key, Added(pc[t], job[t], i)' PROVE Added(pc[t], job[t], i)
      BY <2>2, <2>3, <3>2 DEF Added
    <3>3. "add" \in RebuildPcs /\ "scan" \in RebuildPcs
      BY DEF RebuildPcs
    <3> QED BY <1>1, <2>2, <2>3, <3>1, <3>2, <3>3 DEF SoloIndex
  <2> QED BY <1>1, <1>6, <1>7, <2>2, <2>4, <2>5
<1>14. CASE AddEntry(t)
  <2>1. /\ pc[t] = "add" /\ pc'[t] = "scan" /\ job' = job
        /\ hash' = IF indexed THEN hash \cup {<<job[t].old.val, job[t].key>>} ELSE hash
        /\ UNCHANGED <<data, logged, cache, indexed, tree, used, batch>>
    BY <1>3, <1>14 DEF AddEntry, IndexRecord
  <2>2. job[t].key \in Key /\ job[t].old = data[job[t].key] /\ data[job[t].key] # NoRec
    BY <1>1, <2>1, NoRecAssumption DEF SoloJob, Fits
  <2>3. SoloJob(pc[t], job[t])'
    BY <1>1, <1>4, <1>7, <2>1 DEF SoloJob, Present
  <2>4. SoloIndex(pc[t], job[t])'
    <3>1. ASSUME NEW v \in Val, NEW i \in Key
          PROVE  Due(pc[t], job[t], v, i)' <=> Due(pc[t], job[t], v, i)
      BY <2>1 DEF Due
    <3>2. ASSUME NEW i \in Key, Added(pc[t], job[t], i)'
          PROVE  Added(pc[t], job[t], i) \/ i = job[t].key
      BY <2>1, <3>2 DEF Added
    <3>3. ASSUME NEW v \in Val, NEW i \in Key, Due(pc[t], job[t], v, i), i = job[t].key
          PROVE  <<v, i>> = <<job[t].old.val, job[t].key>>
      BY <2>2, <3>3 DEF Due
    <3>4. ASSUME NEW v \in Val, NEW i \in Key, <<v, i>> = <<job[t].old.val, job[t].key>>
          PROVE  Due(pc[t], job[t], v, i)
      BY <2>1, <2>2, <3>4 DEF Due
    <3>5. "add" \in RebuildPcs /\ "scan" \in RebuildPcs
      BY DEF RebuildPcs
    <3> QED BY <1>1, <2>1, <3>1, <3>2, <3>3, <3>4, <3>5 DEF SoloIndex
  <2> QED BY <1>1, <1>6, <1>7, <2>1, <2>3, <2>4
<1>15. CASE ScanDone(t)
  <2>1. /\ pc[t] = "scan" /\ Present(data) \subseteq job[t].seen /\ job' = job
        /\ pc'[t] = IF job[t].call = "create" THEN "flush" ELSE "load"
        /\ UNCHANGED <<data, logged, cache, indexed, hash, tree, used, batch>>
    BY <1>3, <1>15 DEF ScanDone
  <2>2. SoloJob(pc[t], job[t])'
    BY <1>1, <1>4, <1>7, <2>1 DEF SoloJob
  <2>3. SoloIndex(pc[t], job[t])'
    <3>1. ASSUME NEW v \in Val, NEW i \in Key
          PROVE  /\ Due(pc[t], job[t], v, i)' <=> Due(pc[t], job[t], v, i)
                 /\ Due(pc[t], job[t], v, i) => Added(pc[t], job[t], i)
      BY <2>1 DEF Due, Added, Present
    <3>2. "flush" \notin RebuildPcs /\ "scan" \in RebuildPcs /\ "load" \in RebuildPcs
      BY DEF RebuildPcs
    <3> QED BY <1>1, <2>1, <3>1, <3>2 DEF SoloIndex
  <2> QED BY <1>1, <1>6, <1>7, <2>1, <2>2, <2>3
<1>16. CASE ScanFails(t)
  BY <1>1, <1>16 DEF ScanFails, SameSize, SoloJob
<1>17. CASE LoadTree(t)
  <2>1. /\ pc[t] = "load" /\ pc'[t] = "flush" /\ job' = job
        /\ tree' = IF Present(data) = {} THEN tree ELSE Entries(data)
        /\ UNCHANGED <<data, logged, cache, indexed, hash, used, batch>>
    BY <1>3, <1>17 DEF LoadTree
  <2>2. SoloJob(pc[t], job[t])'
    BY <1>1, <1>4, <1>7, <2>1 DEF SoloJob
  <2>3. SoloIndex(pc[t], job[t])'
    <3>1. ASSUME NEW v \in Val, NEW i \in Key
          PROVE  /\ Due(pc[t], job[t], v, i)' <=> Due(pc[t], job[t], v, i)
                 /\ Due(pc[t], job[t], v, i) <=> <<v, i>> \in Entries(data)
      BY <2>1 DEF Due, Entries, Present
    <3>2. "flush" \notin RebuildPcs
      BY DEF RebuildPcs
    <3>3. \A v \in Val, i \in Key : Present(data) = {} => ~Due(pc[t], job[t], v, i)
      BY DEF Due, Present
    <3>4. ASSUME NEW v \in Val, NEW i \in Key
          PROVE  <<v, i>> \in tree' <=> Due(pc[t], job[t], v, i)
      BY <1>1, <2>1, <3>1, <3>3 DEF SoloIndex
    <3> QED BY <1>1, <2>1, <3>1, <3>2, <3>4 DEF SoloIndex
  <2> QED BY <1>1, <1>6, <1>7, <2>1, <2>2, <2>3
<1>18. CASE RebuildDone(t)
  <2>1. /\ pc[t] = "flush" /\ pc'[t] = "idle" /\ job'[t] = NoJob /\ logged' = data
        /\ UNCHANGED <<data, cache, indexed, hash, tree, used, batch>>
    BY <1>1, <1>3, <1>18 DEF RebuildDone, TypeOK
  <2>2. pc[t] \notin WritePcs \cup RebuildPcs /\ pc'[t] \notin WritePcs \cup RebuildPcs
    BY <2>1 DEF WritePcs, RebuildPcs
  <2>3. SoloJob(pc[t], job[t])'
    BY <1>2, <2>1 DEF SoloJob, WritePcs
  <2> QED BY <2>1, <2>2, <2>3, SoloMove
<1> QED BY <1>9, <1>10, <1>11, <1>12, <1>13, <1>14, <1>15, <1>16, <1>17, <1>18 DEF Build

LEMMA SoloNext ==
  ASSUME NEW t \in Thread, Solo(t), TypeInv, FiniteInv, SoloInv(t), [Next]_vars PROVE SoloInv(t)'
<1>1. CASE UNCHANGED vars
  BY <1>1 DEF vars, SoloInv, SoloJob, SoloCache, SoloIndex, Due, Added, Present
<1>2. CASE Next
  <2>1. RawWrite(t) \/ Locked(t) \/ Tx(t) \/ Build(t)
    BY <1>2 DEF Next, Solo
  <2> QED BY <2>1, SoloWrite, SoloLocked, SoloTx, SoloBuild
<1> QED BY <1>1, <1>2

LEMMA SoloMeans ==
  ASSUME NEW t \in Thread, Solo(t), TypeInv, SoloInv(t)
  PROVE  CacheIsData /\ IndexIsData /\ RestartFindsMemory
<1>1. CacheIsData
  BY DEF Solo, SoloInv, SoloCache, CacheIsData, Writing
<1>2. RestartFindsMemory
  BY DEF SoloInv, RestartFindsMemory
<1>3. IndexIsData
  <2> SUFFICES ASSUME Quiet, ~batch, \A u \in Thread : pc[u] \notin RebuildPcs
               PROVE  (indexed => hash = Entries(data)) /\ tree = Entries(data)
    BY DEF IndexIsData
  <2>1. /\ SoloIndex(pc[t], job[t]) /\ pc[t] \notin RebuildPcs
        /\ hash \subseteq Val \X Key /\ tree \subseteq Val \X Key
        /\ Entries(data) \subseteq Val \X Key
    BY EntriesType DEF SoloInv, TypeInv, TypeOK
  <2>2. pc[t] \notin {"store", "index"}
    BY DEF Quiet, Writing, WritePcs
  <2>3. ASSUME NEW v \in Val, NEW k \in Key
        PROVE  Due(pc[t], job[t], v, k) <=> <<v, k>> \in Entries(data)
    BY <2>2 DEF Due, Entries, Present
  <2>4. ASSUME NEW v \in Val, NEW k \in Key
        PROVE  /\ <<v, k>> \in tree <=> <<v, k>> \in Entries(data)
               /\ indexed => (<<v, k>> \in hash <=> <<v, k>> \in Entries(data))
    BY <2>1, <2>3 DEF SoloIndex
  <2>5. \A S, T \in SUBSET (Val \X Key) :
          (\A v \in Val, k \in Key : <<v, k>> \in S <=> <<v, k>> \in T) => S = T
    OBVIOUS
  <2> QED BY <2>1, <2>4, <2>5
<1> QED BY <1>1, <1>2, <1>3

\* With one thread, cache, indexes and log agree with memory through transactions, batches,
\* index builds and rebuilds (engine.py:107-167, 465-477, 688-696, 873-905).
THEOREM SoloAgrees ==
  ASSUME NEW t \in Thread, Solo(t)
  PROVE  Spec => [](CacheIsData /\ IndexIsData /\ RestartFindsMemory)
<1>1. Init => SoloInv(t)
  BY SoloInit
<1>2. TypeInv /\ FiniteInv /\ SoloInv(t) /\ [Next]_vars => TypeInv' /\ FiniteInv' /\ SoloInv(t)'
  BY TypesNext, SoloNext
<1>3. TypeInv /\ SoloInv(t) => CacheIsData /\ IndexIsData /\ RestartFindsMemory
  BY SoloMeans
<1> QED BY <1>1, <1>2, <1>3, TypesInit, PTL DEF Spec

-----------------------------------------------------------------------------
(* Loops over the dict beside inserts and updates: any number of threads    *)
(* that write, end batches, create indexes and rebuild them.                *)

Looping == NoTx /\ {"delete", "drop"} \cap Ops = {}

\* A writer holds the lock and knows the record it replaces.
LoopWriter ==
  \A t \in Thread :
    /\ pc[t] \in WritePcs \cup {"done", "fill"} => lock = t
    /\ pc[t] \in WritePcs => job[t].op \in {"insert", "update"} /\ job[t].key \in used
    /\ pc[t] \in {"unindex", "store"} =>
         /\ job[t].old = data[job[t].key]
         /\ job[t].op = "insert" <=> job[t].old = NoRec
    /\ pc[t] = "index" => data[job[t].key].val = job[t].val
    /\ pc[t] = "clear" => job[t].seen = {}

InLoop(t) == pc[t] \in {"scan", "add"}

Count == Cardinality(Present(data))

\* The loop of u has k before it, or is about to add the record that is there.
Before(u, k) == k \notin job[u].seen
                \/ (pc[u] = "add" /\ job[u].key = k /\ job[u].old = data[k])

\* A writer has taken the entry of k out and will put it in again.
Rewritten(k) == \E w \in Thread : pc[w] \in {"store", "index"} /\ job[w].key = k

\* What the index lacks is still before a loop that is no older, or the loop will fail.
Covered ==
  \A t \in Thread, k \in Key :
    InLoop(t) /\ indexed /\ data[k] # NoRec /\ ~Rewritten(k) =>
      \/ <<data[k].val, k>> \in hash
      \/ job[t].size < Count
      \/ \E u \in Thread : InLoop(u) /\ job[t].size <= job[u].size /\ Before(u, k)

LoopInv == /\ \A k \in Key \ used : data[k] = NoRec
           /\ \A t \in Thread : InLoop(t) => job[t].size <= Count
           /\ LoopWriter /\ Covered

LEMMA LoopInit == ASSUME Init PROVE LoopInv
<1>1. \A t \in Thread : pc[t] = "idle"
  BY DEF Init
<1>2. \A k \in Key : data[k] = NoRec
  BY DEF Init, Empty
<1>3. \A t \in Thread : ~InLoop(t)
  BY <1>1 DEF InLoop
<1>4. LoopWriter
  BY <1>1 DEF LoopWriter, WritePcs
<1>5. Covered
  BY <1>3 DEF Covered
<1> QED BY <1>2, <1>3, <1>4, <1>5 DEF LoopInv

\* What a step of the loops' world can be.
LEMMA LoopSteps ==
  ASSUME Looping, TypeInv, LoggedInv, LoopInv, NEW t \in Thread,
         RawWrite(t) \/ Locked(t) \/ Tx(t) \/ Build(t)
  PROVE  \/ Unindex(t) \/ Store(t) \/ Index(t) \/ Uncache(t)
         \/ Crud(t) \/ Return(t) \/ GetFill(t)
         \/ \E k \in Key : GetHit(t, k) \/ GetMiss(t, k)
         \/ Build(t)
<1>1. pc[t] \notin {"open", "apply", "restore"} /\ job[t].call # "tx"
  BY DEF LoggedInv
<1>2. ~Tx(t)
  BY <1>1 DEF Looping, NoTx, Tx, TxBegin, TxBuffer, TxCommit, TxApply, TxNext, TxFlush,
              TxAbort, TxRestore
<1>3. ~DeleteGone(t)
  BY DEF DeleteGone, LoopInv, LoopWriter, WritePcs
<1>4. ~Drop(t)
  BY DEF Drop, Looping
<1> QED BY <1>2, <1>3, <1>4 DEF RawWrite, Locked

\* What a writer stores is a record.
LEMMA LoopStores ==
  ASSUME TypeInv, LoopInv, NEW t \in Thread, pc[t] \in WritePcs
  PROVE  /\ NewRec(job[t]) \in Rec /\ NewRec(job[t]) # NoRec /\ job[t].key \in Key
         /\ NewRec(job[t]).val = job[t].val
<1>1. Fits(pc[t], job[t]) /\ job[t] \in Job /\ job[t].op \in {"insert", "update"}
  BY DEF TypeInv, TypeOK, LoopInv, LoopWriter
<1>2. /\ job[t].key \in Key /\ (job[t].op # "delete" => job[t].val \in Val)
      /\ job[t].op \in CrudOps /\ (job[t].op # "insert" => job[t].old \in Rec)
  BY <1>1 DEF Fits
<1>3. NewRec(job[t]) \in Rec \cup {NoRec} /\ (NewRec(job[t]) = NoRec <=> job[t].op = "delete")
  BY <1>1, <1>2, NewRecType DEF CrudOps
<1>4. NewRec(job[t]).val = job[t].val
  BY <1>1 DEF NewRec, NewVersion
<1> QED BY <1>1, <1>2, <1>3, <1>4

\* Nobody else is in a write while one is.
LEMMA LoopAlone ==
  ASSUME LoopInv, NEW t \in Thread, lock = t \/ lock = NoThread
  PROVE  \A u \in Thread \ {t} : pc[u] \notin WritePcs \cup {"done", "fill"}
BY NoThreadAssumption DEF LoopInv, LoopWriter

LEMMA LoopWriterStep ==
  ASSUME Looping, TypeInv, LoggedInv, LoopInv, NEW t \in Thread,
         RawWrite(t) \/ Locked(t) \/ Tx(t) \/ Build(t)
  PROVE  LoopWriter' /\ \A k \in Key \ used' : data'[k] = NoRec
<1>1. /\ TypeOK /\ job[t] \in Job /\ Fits(pc[t], job[t])
      /\ LoopWriter /\ \A k \in Key \ used : data[k] = NoRec
  BY DEF TypeInv, TypeOK, LoopInv
<1>2. \A u \in Thread \ {t} : pc'[u] = pc[u] /\ job'[u] = job[u]
  BY <1>1, OneCall
<1>3. ASSUME NEW p, Goto(t, p) PROVE pc'[t] = p
  BY <1>1, <1>3 DEF Goto, TypeOK
<1>4. NoJob.seen = {}
  BY DEF NoJob
<1>5. CASE pc[t] \in WritePcs
  <2>1. lock = t /\ job[t].op \in {"insert", "update"} /\ job[t].key \in used
    BY <1>1, <1>5 DEF LoopWriter
  <2>2. \A u \in Thread \ {t} : pc[u] \notin WritePcs \cup {"done", "fill"}
    BY <2>1, LoopAlone
  <2>3. Unindex(t) \/ Store(t) \/ Index(t) \/ Uncache(t)
    BY <1>5, LoopSteps DEF WritePcs, Crud, Enter, Return, GetFill, GetHit, GetMiss,
       Build, BeginBatch, Rebuild, ClearHash, CreateIndex, Scan, AddEntry, ScanDone, ScanFails,
       LoadTree, RebuildDone
  <2>4. lock' = lock /\ job' = job /\ used' = used
    BY <2>3 DEF Unindex, Store, Index, Uncache
  <2>5. pc'[t] \in {"store", "done", "index", "uncache"}
        /\ (pc'[t] = "store" => pc[t] = "unindex" /\ data' = data)
    BY <1>3, <2>3 DEF Unindex, Store, Index, Uncache
  <2>6. \A k \in Key \ {job[t].key} : data'[k] = data[k]
    BY <1>1, <2>3 DEF Unindex, Store, Index, Uncache, TypeOK, Map
  <2>7. ASSUME NEW u \in Thread \ {t}
        PROVE  pc'[u] \notin WritePcs \cup {"done", "fill"} /\ (pc'[u] = "clear" => job'[u].seen = {})
    BY <1>1, <1>2, <2>2 DEF LoopWriter
  <2>8. /\ pc'[t] \in WritePcs \cup {"done", "fill"} => lock' = t
        /\ pc'[t] \in WritePcs => job'[t].op \in {"insert", "update"} /\ job'[t].key \in used'
        /\ pc'[t] \in {"unindex", "store"} =>
             /\ job'[t].old = data'[job'[t].key]
             /\ job'[t].op = "insert" <=> job'[t].old = NoRec
        /\ pc'[t] = "index" => data'[job'[t].key].val = job'[t].val
        /\ pc'[t] = "clear" => job'[t].seen = {}
    <3>1. ASSUME pc'[t] = "index" PROVE data'[job[t].key].val = job[t].val
      <4>1. Store(t)
        BY <1>3, <2>3, <3>1 DEF Unindex, Index, Uncache
      <4>2. data'[job[t].key] = NewRec(job[t]) /\ NewRec(job[t]).val = job[t].val
        BY <1>1, <1>5, <4>1, LoopStores DEF Store, TypeOK, Map
      <4> QED BY <4>2
    <3> QED BY <1>1, <2>1, <2>4, <2>5, <3>1 DEF LoopWriter
  <2>9. LoopWriter'
    BY <2>7, <2>8 DEF LoopWriter, WritePcs
  <2> QED BY <1>1, <2>1, <2>4, <2>6, <2>9
<1>6. CASE Crud(t)
  <2>1. PICK o \in CrudOps \cap Ops, v \in Val : \E k \in Target(o) :
          Begin(t, [NoJob EXCEPT !.call = "crud"], o, k, IF o = "delete" THEN NoRec ELSE v)
    BY <1>6 DEF Crud, CrudOps
  <2>2. PICK k \in Target(o) :
          Begin(t, [NoJob EXCEPT !.call = "crud"], o, k, IF o = "delete" THEN NoRec ELSE v)
    BY <2>1
  <2>3. /\ k \in Key /\ o \in {"insert", "update"}
        /\ (o = "insert" => k \notin used) /\ (o # "insert" => data[k] # NoRec)
    BY <2>2 DEF Target, Present, Looping, CrudOps
  <2>4. PICK j \in Job : j = [NoJob EXCEPT !.call = "crud"]
    BY NoJobType DEF Job
  <2> DEFINE J == [j EXCEPT !.op = o, !.key = k, !.val = IF o = "delete" THEN NoRec ELSE v,
                            !.old = data[k], !.turbo = batch, !.touched = @ \cup {k}]
  <2>5. J.op = o /\ J.key = k /\ J.old = data[k]
    BY DEF Job
  <2>6. /\ job'[t] = J /\ pc'[t] = (IF o = "insert" THEN "store" ELSE "unindex")
        /\ used' = IF o = "insert" THEN used \cup {k} ELSE used
    BY <1>1, <1>3, <2>2, <2>4 DEF Begin, TypeOK
  <2> HIDE DEF J
  <2>7. lock = NoThread /\ lock' = t /\ data' = data
    BY <1>6 DEF Crud, Enter
  <2>8. \A u \in Thread \ {t} : pc[u] \notin WritePcs \cup {"done", "fill"}
    BY <2>7, LoopAlone
  <2>9. k \in used' /\ (o = "insert" <=> data[k] = NoRec)
    BY <1>1, <2>3, <2>6
  <2>10. ASSUME NEW u \in Thread \ {t}
         PROVE  pc'[u] \notin WritePcs \cup {"done", "fill"} /\ (pc'[u] = "clear" => job'[u].seen = {})
    BY <1>1, <1>2, <2>8 DEF LoopWriter
  <2>11. /\ lock' = t /\ job'[t].op \in {"insert", "update"} /\ job'[t].key \in used'
         /\ job'[t].old = data'[job'[t].key] /\ (job'[t].op = "insert" <=> job'[t].old = NoRec)
         /\ pc'[t] \notin {"clear", "index"}
    BY <2>3, <2>5, <2>6, <2>7, <2>9
  <2>12. LoopWriter'
    BY <2>10, <2>11 DEF LoopWriter, WritePcs
  <2> QED BY <1>1, <2>6, <2>7, <2>12
<1>7. CASE Return(t) \/ GetFill(t)
  <2>1. /\ lock = t /\ lock' = NoThread /\ pc'[t] = "idle" /\ data' = data /\ used' = used
    BY <1>1, <1>3, <1>7 DEF Return, GetFill, LoopWriter
  <2>2. \A u \in Thread \ {t} : pc[u] \notin WritePcs \cup {"done", "fill"}
    BY <2>1, LoopAlone
  <2> QED BY <1>1, <1>2, <2>1, <2>2 DEF LoopWriter, WritePcs
<1>8. ASSUME NEW k \in Key, GetHit(t, k)
      PROVE  LoopWriter' /\ \A i \in Key \ used' : data'[i] = NoRec
  BY <1>1, <1>8 DEF GetHit, LoopWriter
<1>9. ASSUME NEW k \in Key, GetMiss(t, k)
      PROVE  LoopWriter' /\ \A i \in Key \ used' : data'[i] = NoRec
  <2>1. lock = NoThread /\ lock' = t /\ pc'[t] = "fill" /\ data' = data /\ used' = used
    BY <1>3, <1>9 DEF GetMiss, Enter
  <2>2. \A u \in Thread \ {t} : pc[u] \notin WritePcs \cup {"done", "fill"}
    BY <2>1, LoopAlone
  <2> QED BY <1>1, <1>2, <2>1, <2>2 DEF LoopWriter, WritePcs
<1>10. CASE Build(t)
  <2>1. lock' = lock /\ data' = data /\ used' = used
    BY <1>10 DEF Build, BeginBatch, Rebuild, ClearHash, CreateIndex, Scan, AddEntry, ScanDone,
                 ScanFails, LoadTree, RebuildDone
  <2>2. /\ pc'[t] \notin WritePcs \cup {"done", "fill"}
        /\ pc'[t] = "clear" => job'[t].seen = {}
    <3>1. CASE Rebuild(t)
      <4>1. PICK c : job' = [job EXCEPT ![t] = [NoJob EXCEPT !.call = c]]
        BY <3>1 DEF Rebuild, NewJob
      <4>2. job'[t].seen = {}
        BY <1>1, <1>4, <4>1 DEF TypeOK, NoJob
      <4> QED BY <1>3, <3>1, <4>2 DEF Rebuild, WritePcs
    <3>2. CASE BeginBatch(t)
      BY <3>2 DEF BeginBatch, WritePcs
    <3>3. CASE ClearHash(t) \/ CreateIndex(t) \/ Scan(t) \/ AddEntry(t) \/ ScanDone(t)
                 \/ ScanFails(t) \/ LoadTree(t) \/ RebuildDone(t)
      BY <1>3, <3>3 DEF ClearHash, Iterate, CreateIndex, Scan, AddEntry, ScanDone, ScanFails,
                        LoadTree, RebuildDone, WritePcs
    <3> QED BY <1>10, <3>1, <3>2, <3>3 DEF Build
  <2> QED BY <1>1, <1>2, <2>1, <2>2 DEF LoopWriter, WritePcs
<1>11. CASE pc[t] \notin WritePcs
  BY <1>6, <1>7, <1>8, <1>9, <1>10, <1>11, LoopSteps DEF Unindex, Store, Index, Uncache, WritePcs
<1> QED BY <1>5, <1>11

\* Steps outside the loops that put an entry in again or leave it alone.
LEMMA CoverKeep ==
  ASSUME Covered, NEW t \in Thread, data' = data, indexed' = indexed,
         \A u \in Thread \ {t} : pc'[u] = pc[u] /\ job'[u] = job[u],
         ~InLoop(t), ~InLoop(t)',
         \A k \in Key : Rewritten(k) => \/ Rewritten(k)'
                                        \/ indexed => <<data[k].val, k>> \in hash',
         \A k \in Key : <<data[k].val, k>> \in hash => Rewritten(k)' \/ <<data[k].val, k>> \in hash'
  PROVE  Covered'
<1>1. \A u \in Thread : InLoop(u)' => InLoop(u) /\ job'[u] = job[u]
  BY DEF InLoop
<1>2. \A u \in Thread : InLoop(u) => InLoop(u)' /\ job'[u] = job[u]
  BY DEF InLoop
<1>3. ASSUME NEW u \in Thread, NEW k \in Key, InLoop(u), Before(u, k) PROVE Before(u, k)'
  <2>1. u # t
    BY <1>3
  <2> QED BY <1>3, <2>1 DEF Before
<1>4. Count' = Count
  BY DEF Count, Present
<1> SUFFICES ASSUME NEW s \in Thread, NEW k \in Key,
                    InLoop(s)', indexed', data'[k] # NoRec, ~Rewritten(k)',
                    <<data'[k].val, k>> \notin hash', ~(job'[s].size < Count')
             PROVE  \E u \in Thread : InLoop(u)' /\ job'[s].size <= job'[u].size /\ Before(u, k)'
  BY DEF Covered
<1>5. InLoop(s) /\ job'[s] = job[s]
  BY <1>1
<1>6. ~Rewritten(k) /\ <<data[k].val, k>> \notin hash /\ ~(job[s].size < Count)
  BY <1>4, <1>5
<1>7. PICK u \in Thread : InLoop(u) /\ job[s].size <= job[u].size /\ Before(u, k)
  BY <1>5, <1>6 DEF Covered
<1> QED BY <1>2, <1>3, <1>5, <1>7

\* Steps of a loop: what was before it stays before it, is in the index, or the loop fails.
LEMMA CoverLoop ==
  ASSUME TypeInv, FiniteInv, Covered, NEW t \in Thread, data' = data, indexed' = indexed,
         \A u \in Thread \ {t} : pc'[u] = pc[u] /\ job'[u] = job[u],
         pc'[t] \notin {"store", "index"}, InLoop(t),
         InLoop(t)' => job'[t].size = job[t].size, hash \subseteq hash',
         \A k \in Key : indexed /\ data[k] # NoRec /\ Before(t, k) =>
                          \/ InLoop(t)' /\ Before(t, k)'
                          \/ <<data[k].val, k>> \in hash'
                          \/ job[t].size < Count
  PROVE  Covered'
<1>1. \A u \in Thread : InLoop(u)' => InLoop(u) /\ job'[u].size = job[u].size
  BY DEF InLoop
<1>2. \A k \in Key : Rewritten(k) <=> Rewritten(k)'
  BY DEF Rewritten, InLoop
<1>3. Count' = Count /\ Count \in Nat /\ \A u \in Thread : job[u].size \in Nat
  BY FS_CardinalityType DEF Count, Present, FiniteInv, TypeInv, TypeOK, Job
<1> SUFFICES ASSUME NEW s \in Thread, NEW k \in Key,
                    InLoop(s)', indexed', data'[k] # NoRec, ~Rewritten(k)',
                    <<data'[k].val, k>> \notin hash', ~(job'[s].size < Count')
             PROVE  \E u \in Thread : InLoop(u)' /\ job'[s].size <= job'[u].size /\ Before(u, k)'
  BY DEF Covered
<1>4. PICK u \in Thread : InLoop(u) /\ job[s].size <= job[u].size /\ Before(u, k)
  BY <1>1, <1>2, <1>3 DEF Covered
<1>5. CASE u # t
  BY <1>1, <1>4, <1>5 DEF InLoop, Before
<1>6. CASE u = t
  <2>1. ~(job[t].size < Count)
    BY <1>1, <1>3, <1>4, <1>6
  <2>2. InLoop(t)' /\ Before(t, k)'
    BY <1>4, <1>6, <2>1
  <2> QED BY <1>1, <1>4, <1>6, <2>2
<1> QED BY <1>5, <1>6

\* A new loop has every id before it.
LEMMA CoverNew ==
  ASSUME TypeInv, FiniteInv, LoopInv, NEW t \in Thread, data' = data,
         \A u \in Thread \ {t} : pc'[u] = pc[u] /\ job'[u] = job[u],
         pc'[t] = "scan", job'[t].size = Count, job'[t].seen = {}
  PROVE  Covered' /\ \A u \in Thread : InLoop(u)' => job'[u].size <= Count'
<1>1. Count' = Count /\ Count \in Nat
  BY FS_CardinalityType DEF Count, Present, FiniteInv
<1>2. \A u \in Thread : InLoop(u)' => job'[u].size <= Count
  BY <1>1 DEF LoopInv, InLoop
<1>3. InLoop(t)' /\ \A k \in Key : Before(t, k)'
  BY DEF InLoop, Before
<1> QED BY <1>1, <1>2, <1>3 DEF Covered

LEMMA CoverStore ==
  ASSUME TypeInv, FiniteInv, FiniteInv', LoopInv, NEW t \in Thread, Store(t)
  PROVE  Covered' /\ \A u \in Thread : InLoop(u)' => job'[u].size <= Count'
<1> DEFINE j == job[t]
           k == j.key
<1>1. /\ TypeOK /\ LoopWriter /\ Covered /\ \A u \in Thread : InLoop(u) => job[u].size <= Count
      /\ \A u \in Thread : job[u].size \in Nat
  BY DEF TypeInv, TypeOK, LoopInv, Job
<1>2. pc[t] = "store" /\ job' = job /\ hash' = hash /\ indexed' = indexed
  BY DEF Store
<1>3. /\ NewRec(j) # NoRec /\ k \in Key /\ j.op \in {"insert", "update"}
      /\ j.op = "insert" <=> data[k] = NoRec
  BY <1>1, <1>2, LoopStores DEF LoopWriter, WritePcs
<1>4. \A i \in Key : data'[i] = IF i = k THEN NewRec(j) ELSE data[i]
  BY <1>1, <1>3 DEF Store, TypeOK, Map
<1>5. \A u \in Thread : InLoop(u)' <=> InLoop(u)
  <2>1. pc'[t] \in {"done", "uncache", "index"} /\ \A u \in Thread \ {t} : pc'[u] = pc[u]
    BY <1>1 DEF Store, Goto, TypeOK
  <2> QED BY <1>2, <2>1 DEF InLoop
<1>6. /\ Count \in Nat /\ Count' \in Nat /\ Count' = Cardinality(Present(data'))
      /\ IsFiniteSet(Present(data))
  BY FS_CardinalityType DEF Count, Present, FiniteInv
<1>7. CASE j.op = "insert"
  <2>1. Present(data') = Present(data) \cup {k} /\ k \notin Present(data)
    BY <1>3, <1>4, <1>7 DEF Present
  <2>2. Count' = Count + 1
    BY <1>6, <2>1, FS_AddElement DEF Count
  <2>3. \A u \in Thread : InLoop(u)' => job'[u].size < Count'
    BY <1>1, <1>2, <1>5, <1>6, <2>2
  <2> QED BY <1>1, <1>2, <1>6, <2>3 DEF Covered
<1>8. CASE j.op = "update"
  <2>1. Present(data') = Present(data)
    BY <1>3, <1>4, <1>8 DEF Present
  <2>2. Count' = Count
    BY <1>6, <2>1 DEF Count
  <2>3. pc' = [pc EXCEPT ![t] = "index"]
    BY <1>8 DEF Store, Goto
  <2>4. \A i \in Key : Rewritten(i)' <=> Rewritten(i)
    BY <1>1, <1>2, <2>3 DEF Rewritten, TypeOK
  <2>5. ASSUME NEW i \in Key, i = k PROVE Rewritten(i)
    BY <1>2, <2>5 DEF Rewritten
  <2>6. ASSUME NEW u \in Thread, NEW i \in Key, i # k, InLoop(u), Before(u, i)
        PROVE  Before(u, i)'
    <3>1. u # t /\ pc'[u] = pc[u] /\ data'[i] = data[i]
      BY <1>1, <1>2, <1>4, <2>3, <2>6 DEF InLoop, TypeOK
    <3> QED BY <1>2, <2>6, <3>1 DEF Before
  <2>7. SUFFICES ASSUME NEW s \in Thread, NEW i \in Key,
                        InLoop(s)', indexed', data'[i] # NoRec, ~Rewritten(i)',
                        <<data'[i].val, i>> \notin hash', ~(job'[s].size < Count')
                 PROVE  \E u \in Thread : InLoop(u)' /\ job'[s].size <= job'[u].size /\ Before(u, i)'
    BY <1>1, <1>2, <1>5, <2>2 DEF Covered
  <2>8. i # k /\ data'[i] = data[i] /\ ~Rewritten(i)
    BY <1>4, <2>4, <2>5, <2>7
  <2>9. PICK u \in Thread : InLoop(u) /\ job[s].size <= job[u].size /\ Before(u, i)
    BY <1>1, <1>2, <1>5, <2>2, <2>7, <2>8 DEF Covered
  <2> QED BY <1>2, <1>5, <2>6, <2>8, <2>9
<1> QED BY <1>3, <1>7, <1>8

LEMMA LoopNext ==
  ASSUME Looping, TypeInv, FiniteInv, FiniteInv', LoggedInv, LoopInv, [Next]_vars PROVE LoopInv'
<1>1. CASE UNCHANGED vars
  BY <1>1 DEF vars, LoopInv, InLoop, Count, Present, LoopWriter, Covered, Rewritten, Before
<1>2. CASE Next
  <2>1. PICK t \in Thread : RawWrite(t) \/ Locked(t) \/ Tx(t) \/ Build(t)
    BY <1>2 DEF Next
  <2>2. LoopWriter' /\ \A k \in Key \ used' : data'[k] = NoRec
    BY <2>1, LoopWriterStep
  <2>3. /\ TypeOK /\ job[t] \in Job /\ Fits(pc[t], job[t]) /\ LoopWriter /\ Covered
        /\ \A u \in Thread : InLoop(u) => job[u].size <= Count
    BY DEF TypeInv, TypeOK, LoopInv
  <2>4. \A u \in Thread \ {t} : pc'[u] = pc[u] /\ job'[u] = job[u]
    BY <2>1, <2>3, OneCall
  <2>5. ASSUME NEW p, Goto(t, p) PROVE pc'[t] = p
    BY <2>3, <2>5 DEF Goto, TypeOK
  <2>6. SUFFICES Covered' /\ \A u \in Thread : InLoop(u)' => job'[u].size <= Count'
    BY <2>2 DEF LoopInv
  <2>7. ASSUME data' = data, InLoop(t)' => InLoop(t) /\ job'[t].size = job[t].size
        PROVE  \A u \in Thread : InLoop(u)' => job'[u].size <= Count'
    <3>1. Count' = Count
      BY <2>7 DEF Count, Present
    <3> QED BY <2>3, <2>4, <2>7, <3>1 DEF InLoop
  <2>8. ASSUME data' = data, indexed' = indexed, hash' = hash, ~InLoop(t), ~InLoop(t)',
               pc[t] \notin {"store", "index"}
        PROVE  Covered'
    <3>1. \A k \in Key : Rewritten(k) => Rewritten(k)'
      BY <2>4, <2>8 DEF Rewritten
    <3> QED BY <2>3, <2>4, <2>8, <3>1, CoverKeep
  <2>9. CASE Unindex(t)
    <3>1. /\ pc[t] = "unindex" /\ pc'[t] = "store" /\ job' = job /\ data' = data
          /\ indexed' = indexed /\ hash' = hash \ {<<job[t].old.val, job[t].key>>}
      BY <2>5, <2>9 DEF Unindex, UnindexRecord
    <3>2. ~InLoop(t) /\ ~InLoop(t)'
      BY <3>1 DEF InLoop
    <3>3. \A k \in Key : /\ Rewritten(k) => Rewritten(k)'
                         /\ <<data[k].val, k>> \in hash => Rewritten(k)' \/ <<data[k].val, k>> \in hash'
      BY <2>4, <3>1 DEF Rewritten
    <3> QED BY <2>3, <2>4, <2>7, <3>1, <3>2, <3>3, CoverKeep
  <2>10. CASE Store(t)
    BY <2>10, CoverStore
  <2>11. CASE Index(t)
    <3>1. /\ pc[t] = "index" /\ pc'[t] = "uncache" /\ job' = job /\ data' = data
          /\ indexed' = indexed
          /\ hash' = IF indexed THEN hash \cup {<<job[t].val, job[t].key>>} ELSE hash
      BY <2>5, <2>11 DEF Index, IndexRecord
    <3>2. ~InLoop(t) /\ ~InLoop(t)'
      BY <3>1 DEF InLoop
    <3>3. data[job[t].key].val = job[t].val
      BY <2>3, <3>1 DEF LoopWriter
    <3>4. \A k \in Key : Rewritten(k) => \/ Rewritten(k)'
                                         \/ indexed => <<data[k].val, k>> \in hash'
      BY <2>4, <3>1, <3>3 DEF Rewritten
    <3> QED BY <2>3, <2>4, <2>7, <3>1, <3>2, <3>4, CoverKeep
  <2>12. CASE Uncache(t) \/ Crud(t) \/ Return(t) \/ GetFill(t)
                \/ \E k \in Key : GetHit(t, k) \/ GetMiss(t, k)
    <3>1. data' = data /\ indexed' = indexed /\ hash' = hash
      BY <2>12 DEF Uncache, Crud, Return, GetFill, GetHit, GetMiss
    <3>2. pc[t] \in {"uncache", "idle", "done", "fill"} /\ pc'[t] \notin {"scan", "add"}
      <4>1. CASE Crud(t)
        BY <2>5, <4>1 DEF Crud, Enter, Begin
      <4> QED BY <2>5, <2>12, <4>1 DEF Uncache, Return, GetFill, GetHit, GetMiss, Enter
    <3> QED BY <2>7, <2>8, <3>1, <3>2 DEF InLoop
  <2>13. CASE BeginBatch(t) \/ Rebuild(t) \/ LoadTree(t) \/ RebuildDone(t)
    <3>1. data' = data /\ indexed' = indexed /\ hash' = hash
      BY <2>13 DEF BeginBatch, Rebuild, LoadTree, RebuildDone
    <3>2. pc[t] \in {"idle", "load", "flush"} /\ pc'[t] \notin {"scan", "add"}
      BY <2>5, <2>13 DEF BeginBatch, Rebuild, LoadTree, RebuildDone
    <3> QED BY <2>7, <2>8, <3>1, <3>2 DEF InLoop
  <2>14. CASE ClearHash(t)
    <3>1. job[t].seen = {} /\ data' = data /\ pc'[t] = "scan"
      BY <2>3, <2>5, <2>14 DEF ClearHash, Iterate, LoopWriter
    <3> DEFINE J == [job[t] EXCEPT !.size = Cardinality(Present(data))]
    <3>2. J.size = Count /\ J.seen = job[t].seen
      BY <2>3 DEF Job, Count
    <3>3. job'[t] = J
      BY <2>3, <2>14 DEF ClearHash, Iterate, TypeOK
    <3> HIDE DEF J
    <3> QED BY <2>4, <3>1, <3>2, <3>3, CoverNew
  <2>15. CASE CreateIndex(t)
    <3>1. data' = data /\ pc'[t] = "scan"
      BY <2>5, <2>15 DEF CreateIndex, Iterate
    <3> DEFINE J == [[NoJob EXCEPT !.call = "create"] EXCEPT !.size = Cardinality(Present(data))]
    <3>2. J.size = Count /\ J.seen = {}
      BY DEF NoJob, Count
    <3>3. job'[t] = J
      BY <2>3, <2>15 DEF CreateIndex, Iterate, TypeOK
    <3> HIDE DEF J
    <3> QED BY <2>4, <3>1, <3>2, <3>3, CoverNew
  <2>16. CASE Scan(t)
    <3>1. PICK k \in Present(data) :
            job' = [job EXCEPT ![t].key = k, ![t].old = data[k], ![t].seen = @ \cup {k}]
      BY <2>16 DEF Scan
    <3> DEFINE J == [job[t] EXCEPT !.key = k, !.old = data[k], !.seen = @ \cup {k}]
    <3>2. /\ pc[t] = "scan" /\ pc'[t] = "add" /\ job'[t] = J
          /\ data' = data /\ indexed' = indexed /\ hash' = hash
      BY <2>3, <2>5, <2>16, <3>1 DEF Scan, TypeOK
    <3>3. J.key = k /\ J.old = data[k] /\ J.seen = job[t].seen \cup {k} /\ J.size = job[t].size
      BY <2>3 DEF Job
    <3> HIDE DEF J
    <3>4. InLoop(t) /\ InLoop(t)' /\ \A i \in Key : Before(t, i) => Before(t, i)'
      BY <3>2, <3>3 DEF InLoop, Before
    <3> QED BY <2>3, <2>4, <2>7, <3>2, <3>3, <3>4, CoverLoop
  <2>17. CASE AddEntry(t)
    <3>1. /\ pc[t] = "add" /\ pc'[t] = "scan" /\ job' = job /\ data' = data /\ indexed' = indexed
          /\ hash' = IF indexed THEN hash \cup {<<job[t].old.val, job[t].key>>} ELSE hash
      BY <2>5, <2>17 DEF AddEntry, IndexRecord
    <3>2. InLoop(t) /\ InLoop(t)'
      BY <3>1 DEF InLoop
    <3>3. ASSUME NEW k \in Key, indexed, Before(t, k)
          PROVE  Before(t, k)' \/ <<data[k].val, k>> \in hash'
      BY <3>1, <3>3 DEF Before
    <3> QED BY <2>3, <2>4, <2>7, <3>1, <3>2, <3>3, CoverLoop
  <2>18. CASE ScanDone(t) \/ ScanFails(t)
    <3>1. /\ pc[t] = "scan" /\ pc'[t] \in {"flush", "load"} /\ job' = job /\ data' = data
          /\ indexed' = indexed /\ hash' = hash
          /\ Present(data) \subseteq job[t].seen \/ ~SameSize(t)
      BY <2>5, <2>18 DEF ScanDone, ScanFails
    <3>2. InLoop(t) /\ ~InLoop(t)'
      BY <3>1 DEF InLoop
    <3>3. ~SameSize(t) => job[t].size < Count
      BY <2>3, <3>2, FS_CardinalityType DEF SameSize, Count, FiniteInv, Job
    <3>4. ASSUME NEW k \in Key, data[k] # NoRec, Before(t, k) PROVE job[t].size < Count
      BY <3>1, <3>3, <3>4 DEF Before, Present
    <3> QED BY <2>3, <2>4, <2>7, <3>1, <3>2, <3>4, CoverLoop
  <2> QED BY <2>1, <2>9, <2>10, <2>11, <2>12, <2>13, <2>14, <2>15, <2>16, <2>17, <2>18, LoopSteps
         DEF Build
<1> QED BY <1>1, <1>2

\* A loop that ends without an error, as the only one, has come to every record.
LEMMA LoopEnds ==
  ASSUME Looping, TypeInv, FiniteInv, LoggedInv, LoopInv, Next, NEW t \in Thread,
         pc[t] = "scan", pc'[t] \in {"flush", "load"}, SameSize(t), Quiet, indexed,
         \A u \in Thread \ {t} : pc[u] \notin RebuildPcs
  PROVE  Entries(data) \subseteq hash
<1>1. /\ TypeOK /\ job[t] \in Job /\ Covered /\ TypeInv
  BY DEF TypeInv, TypeOK, LoopInv
<1>2. Present(data) \subseteq job[t].seen
  <2>1. PICK u \in Thread : RawWrite(u) \/ Locked(u) \/ Tx(u) \/ Build(u)
    BY DEF Next
  <2>2. u = t
    BY <1>1, <2>1, OneCall
  <2>3. ASSUME NEW p, Goto(t, p) PROVE pc'[t] = p
    BY <1>1, <2>3 DEF Goto, TypeOK
  <2>4. ~RawWrite(t) /\ ~Locked(t)
    BY DEF RawWrite, Unindex, Store, DeleteGone, Index, Uncache,
           Locked, Crud, Enter, Return, GetFill, Drop, GetHit, GetMiss
  <2>5. ~Tx(t)
    BY DEF LoggedInv, NoTx, Looping, Tx, TxBegin, TxBuffer, TxCommit, TxApply, TxNext,
                TxFlush, TxAbort, TxRestore
  <2>6. ~Scan(t)
    BY <2>3 DEF Scan
  <2>7. ScanDone(t)
    BY <2>1, <2>2, <2>4, <2>5, <2>6
       DEF Build, BeginBatch, Rebuild, ClearHash, CreateIndex, AddEntry, ScanFails, LoadTree,
           RebuildDone
  <2> QED BY <2>7 DEF ScanDone
<1>3. \A k \in Key : ~Rewritten(k)
  BY DEF Quiet, Writing, WritePcs, Rewritten
<1>4. \A u \in Thread : InLoop(u) <=> u = t
  BY DEF InLoop, RebuildPcs
<1>5. ASSUME NEW k \in Present(data) PROVE <<data[k].val, k>> \in hash
  <2>1. k \in Key /\ data[k] # NoRec /\ k \in job[t].seen
    BY <1>2 DEF Present
  <2>2. ~(job[t].size < Count)
    BY <1>1 DEF SameSize, Count, Job
  <2>3. ~Before(t, k)
    BY <2>1 DEF Before
  <2> QED BY <1>1, <1>3, <1>4, <2>1, <2>2, <2>3 DEF Covered
<1> QED BY <1>5 DEF Entries

\* Beside inserts, updates, batches and other loops, however many: a loop that fills an index
\* and ends without an error, as the only one, has left an entry for every record
\* (api.py:120-127, index/engine.py, engine.py:881-905).
THEOREM LoopCovers == ASSUME Looping PROVE Spec => IndexCoversData
<1> DEFINE Inv == TypeInv /\ FiniteInv /\ LoggedInv /\ LoopInv
<1>1. Init => Inv
  BY LoggedInit, TypesInit, LoopInit
<1>2. Inv /\ [Next]_vars => Inv'
  BY TypesNext, LoggedNext, LoopNext DEF Looping
<1>3. Inv /\ [Next]_vars =>
        [\A t \in Thread :
           pc[t] = "scan" /\ pc'[t] \in {"flush", "load"} /\ SameSize(t) /\ Quiet /\ indexed
             /\ (\A u \in Thread \ {t} : pc[u] \notin RebuildPcs)
             => Entries(data) \subseteq hash]_vars
  BY LoopEnds
<1> QED BY <1>1, <1>2, <1>3, PTL DEF Spec, IndexCoversData

-----------------------------------------------------------------------------
(* The searches of IndexSearch, for any ids, values and threads.  The      *)
(* indexes' side of the argument is CoreInv; SearchInv says what a search  *)
(* has so far.                                                             *)

Phases == {"done", "check", "fetch", "get_many", "buckets", "scan"}
Sizes == {Cardinality(S) : S \in (SUBSET Key) \cup (SUBSET Val)}
SearchType == [phase : Phases, how : {"none", "failed", "raw", "locked", "range", "prefix"},
               want : SUBSET Val, ids : SUBSET Key, seen : SUBSET (Val \cup Key),
               size : Sizes, key : Key \cup {NoKey}, found : Map, at : Map, calm : SUBSET Key]

\* Ids that have had a record: they are never given out again.
Settled == used \ Inserting

\* An id that is still to be read stands for a record that had the value, or a later
\* version of it, or nothing any more.
Pending == search.ids \cup (IF search.phase = "fetch" THEN {search.key} ELSE {})
FitInv ==
  /\ \A k \in Pending :
       /\ k \in Settled /\ search.at[k] # NoRec /\ search.at[k].val \in search.want
       /\ data[k] = NoRec \/ data[k] = search.at[k] \/ data[k].ver > search.at[k].ver
  /\ search.phase \in {"buckets", "get_many"} => search.found = Empty
  /\ search.phase = "scan" => search.ids = {}
  /\ AnswerFits

\* Where a search has what it must not miss.
CompleteInv ==
  /\ search.calm \cap Written = {}
  /\ \A k \in search.calm : data[k] # NoRec /\ data[k].val \in search.want =>
       /\ search.phase = "check" => k \in search.ids \/ search.found[k] # NoRec
       /\ search.phase = "fetch" => \/ k \in search.ids \/ search.found[k] # NoRec
                                    \/ k = search.key
       /\ search.phase = "get_many" => k \in search.ids
       /\ search.phase = "buckets" => (data[k].val \in search.seen => k \in search.ids)
       /\ search.phase = "scan" => (k \in search.seen => search.found[k] # NoRec)
       /\ search.phase = "done" => search.found[k] # NoRec

KeyInv == search.phase = "fetch" => search.key \in Key
SearchInv == search \in SearchType /\ KeyInv /\ FitInv /\ CompleteInv

-----------------------------------------------------------------------------
(* What the other threads do to the records.                               *)

\* A record changes by the step of a thread that is writing it, to a later version; an id
\* that has had a record never gets another one.
LEMMA DataStep ==
  ASSUME LockedOnly, CoreInv, Next, NEW k \in Key
  PROVE  /\ data'[k] # data[k] => k \in Written'
         /\ k \in Settled =>
              /\ k \in Settled'
              /\ \/ data'[k] = data[k] \/ data'[k] = NoRec
                 \/ data[k] # NoRec /\ data'[k].ver > data[k].ver
<1>1. PICK t \in Thread : \/ RawWrite(t) \/ Crud(t) \/ Return(t) \/ GetFill(t)
                          \/ \E i \in Key : GetHit(t, i) \/ GetMiss(t, i)
  BY OnlyLocked
<1>2. TypeOK /\ ModeInv /\ WriterInv /\ HistoryInv
  BY DEF CoreInv
<1>3. CASE Store(t)
  <2> DEFINE i == job[t].key
  <2>1. /\ pc[t] = "store" /\ job' = job /\ used' = used
        /\ data' = [data EXCEPT ![i] = NewRec(job[t])]
        /\ pc' = [pc EXCEPT ![t] = IF job[t].op = "delete" THEN "uncache" ELSE "index"]
    BY <1>2, <1>3 DEF Store, Goto, WriterInv, Writing, WritePcs
  <2>2. /\ i \in Key /\ i \in Written' /\ job[t].op \in CrudOps /\ job[t].old = data[i]
        /\ job[t].op = "insert" => i \in Inserting
    BY <1>2, <2>1 DEF WriterInv, Writing, WritePcs, TypeOK, Written, Inserting
  <2>3. Inserting' \subseteq Inserting
    BY <1>2, <2>1 DEF Inserting, TypeOK
  <2>4. data'[k] # data[k] => k = i
    BY <1>2, <2>1 DEF TypeOK, Map
  <2>5. CASE k = i /\ k \in Settled
    <3>1. job[t].op \in {"update", "delete"} /\ data[k] # NoRec
      <4>1. job[t].op # "insert"
        BY <2>2, <2>5 DEF Settled
      <4>2. data[i] # NoRec
        BY <1>2, <2>1, <2>2, <4>1 DEF WriterInv, Writing, WritePcs
      <4> QED BY <2>2, <2>5, <4>1, <4>2 DEF CrudOps
    <3>2. job[t].op = "delete" => data'[k] = NoRec
      BY <1>2, <2>1, <2>2, <2>5 DEF NewRec, TypeOK, Map
    <3>3. ASSUME job[t].op = "update" PROVE data'[k].ver > data[k].ver
      <4>1. data[k] \in Rec
        BY <1>2, <3>1 DEF TypeOK, Map
      <4>2. data'[k] = [val |-> job[t].val, ver |-> data[k].ver + 1]
        BY <1>2, <2>1, <2>2, <2>5, <3>3 DEF NewRec, NewVersion, TypeOK, Map
      <4> QED BY <3>1, <4>1, <4>2 DEF Rec
    <3> QED BY <2>1, <2>2, <2>3, <2>5, <3>1, <3>2, <3>3 DEF Settled
  <2> QED BY <2>1, <2>2, <2>3, <2>4, <2>5 DEF Settled
<1>4. CASE Crud(t)
  <2>1. PICK o \in CrudOps, v \in Val : \E i \in Target(o) :
          Begin(t, [NoJob EXCEPT !.call = "crud"], o, i, IF o = "delete" THEN NoRec ELSE v)
    BY <1>4 DEF Crud, CrudOps
  <2>2. PICK i \in Target(o) :
          Begin(t, [NoJob EXCEPT !.call = "crud"], o, i, IF o = "delete" THEN NoRec ELSE v)
    BY <2>1
  <2>3. data' = data /\ used' = IF o = "insert" THEN used \cup {i} ELSE used
    BY <1>4, <2>2 DEF Crud, Begin
  <2>4. /\ job' = [job EXCEPT ![t] = job'[t]] /\ job'[t].key = i /\ job'[t].op = o
        /\ pc' = [pc EXCEPT ![t] = IF o = "insert" THEN "store" ELSE "unindex"]
    <3>1. [NoJob EXCEPT !.call = "crud"] \in Job
      BY NoJobType DEF Job
    <3> QED BY <1>2, <2>2, <3>1 DEF Begin, Goto, TypeOK, Job
  <2>5. o = "insert" => i \notin used
    BY <2>2 DEF Target
  <2>6. Inserting' \subseteq Inserting \cup (IF o = "insert" THEN {i} ELSE {})
    BY <1>2, <2>4 DEF Inserting, TypeOK
  <2> QED BY <2>3, <2>5, <2>6 DEF Settled
<1>5. CASE Unindex(t) \/ Index(t) \/ Uncache(t)
  <2>1. data' = data /\ job' = job /\ used' = used
    BY <1>5 DEF Unindex, Index, Uncache
  <2>2. \E p \in {"store", "uncache", "done"} :
          /\ pc' = [pc EXCEPT ![t] = p]
          /\ p = "store" => job[t].op # "insert"
    BY <1>2, <1>5 DEF Unindex, Index, Uncache, Goto, WriterInv, Writing, WritePcs
  <2>3. Inserting' \subseteq Inserting
    BY <1>2, <2>1, <2>2 DEF Inserting, TypeOK
  <2> QED BY <2>1, <2>3 DEF Settled
<1>6. CASE Return(t) \/ GetFill(t) \/ \E i \in Key : GetHit(t, i) \/ GetMiss(t, i)
  <2>1. data' = data /\ used' = used
    BY <1>6 DEF Return, GetFill, GetHit, GetMiss
  <2>2. \/ UNCHANGED <<pc, job>>
        \/ \E p \in {"idle", "fill"} : \E j : pc' = [pc EXCEPT ![t] = p] /\ job' = [job EXCEPT ![t] = j]
    BY <1>6 DEF Return, GetFill, GetHit, GetMiss, Goto
  <2>3. Inserting' \subseteq Inserting
    BY <1>2, <2>2 DEF Inserting, TypeOK
  <2> QED BY <2>1, <2>3 DEF Settled
<1> QED BY <1>1, <1>3, <1>4, <1>5, <1>6, NoDeleteGone DEF RawWrite

-----------------------------------------------------------------------------
(* What a search does.                                                     *)

LEMMA NoSearchType == NoSearch \in SearchType
<1>1. Cardinality({}) = 0
  BY FS_EmptySet
<1>2. 0 \in Sizes
  BY <1>1 DEF Sizes
<1> QED BY <1>2 DEF NoSearch, SearchType, Phases, Empty, Map

\* A search that has just begun, has failed, or was forgotten.
LEMMA NothingYet ==
  ASSUME NEW h, search' = [NoSearch EXCEPT !.how = h], h \in {"none", "failed"}
  PROVE  SearchInv'
<1>1. search' \in SearchType
  BY NoSearchType DEF SearchType
<1>2. search'.phase = "done" /\ search'.ids = {} /\ search'.calm = {} /\ search'.found = Empty
  BY DEF NoSearch
<1>3. Pending' = {} /\ Present(search'.found) = {}
  BY <1>2 DEF Pending, Present, Empty
<1>4. AnswerFits'
  BY <1>3 DEF AnswerFits
<1> QED BY <1>1, <1>2, <1>3, <1>4 DEF SearchInv, KeyInv, FitInv, CompleteInv

\* The steps of a search leave the core alone.
LEMMA CoreStays ==
  ASSUME UNCHANGED vars
  PROVE  data' = data /\ Written' = Written /\ Settled' = Settled
BY DEF vars, Written, Settled, Inserting

\* A record is settled, and listed in both indexes unless it is being written.
LEMMA Listed ==
  ASSUME CoreInv, NEW k \in Key
  PROVE  /\ data[k] # NoRec => k \in Settled /\ data[k] \in Rec
         /\ \A want \in SUBSET Val, e \in {hash, tree} :
              /\ k \in InIndex(e, want) => data[k] # NoRec /\ data[k].val \in want
              /\ k \notin Written /\ data[k] # NoRec /\ data[k].val \in want => k \in InIndex(e, want)
<1>1. HistoryInv /\ IndexInv /\ data \in Map
  BY DEF CoreInv, TypeOK
<1>2. data[k] # NoRec => k \in Settled /\ data[k] \in Rec
  BY <1>1 DEF HistoryInv, Settled, Map
<1>3. ASSUME NEW v \in Val
      PROVE  /\ <<v, k>> \in hash <=> ListedAs(v, k)
             /\ <<v, k>> \in tree <=> ListedAs(v, k)
  BY <1>1 DEF IndexInv
<1>4. Unlisted \subseteq Written
  BY DEF Unlisted, Written, WritePcs
<1> QED BY <1>2, <1>3, <1>4 DEF InIndex, ListedAs

LEMMA LookupStep ==
  ASSUME CoreInv, SearchInv, NEW how \in {"raw", "locked", "range"},
         NEW want \in SUBSET Val, Lookup(how, want)
  PROVE  SearchInv'
<1> DEFINE ids == InIndex(IF how = "range" THEN tree ELSE hash, want)
           at == [k \in Key |-> IF k \in ids THEN data[k] ELSE NoRec]
           p == IF how = "locked" THEN "get_many" ELSE "check"
<1>1. /\ data' = data /\ Written' = Written /\ Settled' = Settled
      /\ search' = [Begun(how, want) EXCEPT !.phase = p, !.ids = ids, !.at = at]
  BY CoreStays DEF Lookup
<1>2. ids \subseteq Key /\ at \in Map
  BY DEF InIndex, CoreInv, TypeOK, Map
<1>3. /\ search'.phase = p /\ search'.want = want /\ search'.ids = ids /\ search'.at = at
      /\ search'.found = Empty /\ search'.calm = Key \ Written /\ search' \in SearchType
  <2> HIDE DEF ids, at
  <2>1. search' = [phase |-> p, how |-> how, want |-> want, ids |-> ids, seen |-> {}, size |-> 0,
                   key |-> NoKey, found |-> Empty, at |-> at, calm |-> Key \ Written]
    BY <1>1 DEF Begun, NoSearch
  <2>2. 0 \in Sizes /\ Empty \in Map
    BY NoSearchType DEF NoSearch, SearchType
  <2>3. search' \in SearchType
    BY <1>2, <2>1, <2>2 DEF SearchType, Phases
  <2> QED BY <2>1, <2>3
<1>4. \A k \in ids : k \in Settled /\ at[k] = data[k] /\ data[k] # NoRec /\ data[k].val \in want
  BY <1>2, Listed
<1>5. \A k \in Key \ Written : data[k] # NoRec /\ data[k].val \in want => k \in ids
  BY Listed
<1> HIDE DEF ids, at
<1>6. KeyInv' /\ FitInv'
  <2>1. Pending' = ids
    BY <1>3 DEF Pending
  <2>2. AnswerFits'
    BY <1>3 DEF AnswerFits, Present, Empty
  <2> QED BY <1>1, <1>3, <1>4, <2>1, <2>2 DEF FitInv, KeyInv
<1>7. CompleteInv'
  BY <1>1, <1>3, <1>5 DEF CompleteInv
<1> QED BY <1>3, <1>6, <1>7 DEF SearchInv

LEMMA CheckStep ==
  ASSUME CoreInv, SearchInv, NEW k \in Key, Check(k) PROVE SearchInv'
<1>1. /\ data' = data /\ Written' = Written /\ Settled' = Settled
      /\ search.phase = "check" /\ k \in search.ids
      /\ search' = IF data[k] = NoRec THEN [search EXCEPT !.ids = @ \ {k}]
                   ELSE [search EXCEPT !.ids = @ \ {k}, !.key = k, !.phase = "fetch"]
  BY CoreStays DEF Check
<1>2. /\ search' \in SearchType /\ search'.want = search.want /\ search'.at = search.at
      /\ search'.found = search.found /\ search'.calm = search.calm
      /\ search'.ids = search.ids \ {k}
      /\ IF data[k] = NoRec THEN search'.phase = "check"
         ELSE search'.phase = "fetch" /\ search'.key = k
  BY <1>1 DEF SearchInv, SearchType, Phases
<1>3. KeyInv' /\ FitInv'
  <2>1. Pending' \subseteq Pending
    BY <1>1, <1>2 DEF Pending
  <2>2. AnswerFits'
    BY <1>2 DEF SearchInv, FitInv, AnswerFits, Present
  <2> QED BY <1>1, <1>2, <2>1, <2>2 DEF SearchInv, FitInv, KeyInv
<1>4. CompleteInv'
  BY <1>1, <1>2 DEF SearchInv, CompleteInv
<1> QED BY <1>2, <1>3, <1>4 DEF SearchInv

LEMMA FetchStep ==
  ASSUME CoreInv, SearchInv, Fetch PROVE SearchInv'
<1> DEFINE k == search.key
<1>1. /\ data' = data /\ Written' = Written /\ Settled' = Settled
      /\ search.phase = "fetch" /\ k \in Key /\ k \in Pending
  BY CoreStays DEF Fetch, SearchInv, KeyInv, Pending
<1>2. CASE data[k] = NoRec
  BY <1>2, NothingYet DEF Fetch
<1>3. CASE data[k] # NoRec
  <2>1. search' = [search EXCEPT !.found[k] = data[k], !.key = NoKey, !.phase = "check"]
    BY <1>3 DEF Fetch
  <2>2. data[k] \in Rec
    BY <1>1, <1>3, Listed
  <2>3. /\ search' \in SearchType /\ search'.want = search.want /\ search'.at = search.at
        /\ search'.calm = search.calm /\ search'.ids = search.ids /\ search'.phase = "check"
        /\ search'.found = [search.found EXCEPT ![k] = data[k]]
    BY <1>1, <2>1, <2>2 DEF SearchInv, SearchType, Phases, Map
  <2>4. search'.found[k] = data[k] /\ \A i \in Key \ {k} : search'.found[i] = search.found[i]
    BY <1>1, <2>3 DEF SearchInv, SearchType, Map
  <2>5. AnswerFits'
    BY <1>1, <1>3, <2>3, <2>4 DEF SearchInv, FitInv, AnswerFits, Present
  <2>6. KeyInv' /\ FitInv'
    <3>1. Pending' \subseteq Pending
      BY <2>3 DEF Pending
    <3> QED BY <1>1, <2>3, <2>5, <3>1 DEF SearchInv, FitInv, KeyInv
  <2>7. CompleteInv'
    <3>1. search.calm \subseteq Key
      BY DEF SearchInv, SearchType
    <3> QED BY <1>1, <1>3, <2>3, <2>4, <3>1 DEF SearchInv, CompleteInv
  <2> QED BY <2>3, <2>6, <2>7 DEF SearchInv
<1> QED BY <1>2, <1>3

LEMMA FetchedAllStep ==
  ASSUME SearchInv, FetchedAll PROVE SearchInv'
<1>1. /\ data' = data /\ Written' = Written /\ Settled' = Settled
      /\ search.phase = "check" /\ search.ids = {} /\ search' = [search EXCEPT !.phase = "done"]
  BY CoreStays DEF FetchedAll
<1>2. /\ search' \in SearchType /\ search'.want = search.want /\ search'.at = search.at
      /\ search'.calm = search.calm /\ search'.ids = {} /\ search'.phase = "done"
      /\ search'.found = search.found
  BY <1>1 DEF SearchInv, SearchType, Phases
<1>3. KeyInv' /\ FitInv'
  <2>1. Pending' = {}
    BY <1>2 DEF Pending
  <2>2. AnswerFits'
    BY <1>2 DEF SearchInv, FitInv, AnswerFits, Present
  <2> QED BY <1>2, <2>1, <2>2 DEF FitInv, KeyInv
<1>4. CompleteInv'
  BY <1>1, <1>2 DEF SearchInv, CompleteInv
<1> QED BY <1>2, <1>3, <1>4 DEF SearchInv

LEMMA GetManyStep ==
  ASSUME CoreInv, SearchInv, GetMany PROVE SearchInv'
<1> DEFINE F == [k \in Key |-> IF k \in search.ids THEN data[k] ELSE NoRec]
<1>1. /\ data' = data /\ Written' = Written /\ Settled' = Settled
      /\ search.phase = "get_many"
      /\ search' = [search EXCEPT !.found = F, !.ids = {}, !.phase = "done"]
  BY CoreStays DEF GetMany
<1>2. F \in Map
  BY DEF CoreInv, TypeOK, Map
<1>3. /\ search' \in SearchType /\ search'.want = search.want /\ search'.at = search.at
      /\ search'.calm = search.calm /\ search'.ids = {} /\ search'.phase = "done"
      /\ search'.found = F
  BY <1>1, <1>2 DEF SearchInv, SearchType, Phases
<1>4. AnswerFits'
  <2>1. \A k \in Present(F) : k \in Pending /\ F[k] = data[k] /\ data[k] # NoRec
    BY DEF Present, Pending
  <2> QED BY <1>3, <2>1 DEF SearchInv, FitInv, AnswerFits, Present
<1>5. KeyInv' /\ FitInv'
  <2>1. Pending' = {}
    BY <1>3 DEF Pending
  <2> QED BY <1>3, <1>4, <2>1 DEF FitInv, KeyInv
<1>6. CompleteInv'
  <2>1. search.calm \subseteq Key
    BY DEF SearchInv, SearchType
  <2> QED BY <1>1, <1>3, <2>1 DEF SearchInv, CompleteInv
<1> QED BY <1>3, <1>5, <1>6 DEF SearchInv

-----------------------------------------------------------------------------
(* find_prefix.                                                            *)

LEMMA PrefixStep ==
  ASSUME CoreInv, SearchInv, NEW want \in SUBSET Val, SearchPrefix(want)
  PROVE  SearchInv'
<1>1. /\ data' = data /\ Written' = Written /\ Settled' = Settled
      /\ search' = [Begun("prefix", want) EXCEPT !.phase = "buckets", !.size = Cardinality(Values)]
  BY CoreStays DEF SearchPrefix
<1>2. Cardinality(Values) \in Sizes
  <2>1. hash \subseteq Val \X Key
    BY DEF CoreInv, TypeOK
  <2>2. \A e \in hash : e[1] \in Val
    BY <2>1
  <2>3. Values \in SUBSET Val
    BY <2>2 DEF Values
  <2> QED BY <2>3 DEF Sizes
<1>3. /\ search' \in SearchType /\ search'.phase = "buckets" /\ search'.want = want
      /\ search'.ids = {} /\ search'.seen = {} /\ search'.found = Empty
      /\ search'.calm = Key \ Written
  BY <1>1, <1>2, NoSearchType DEF Begun, NoSearch, SearchType, Phases
<1>4. KeyInv' /\ FitInv'
  <2>1. Pending' = {} /\ Present(search'.found) = {}
    BY <1>3 DEF Pending, Present, Empty
  <2> QED BY <1>3, <2>1 DEF FitInv, KeyInv, AnswerFits
<1>5. CompleteInv'
  BY <1>1, <1>3 DEF CompleteInv
<1> QED BY <1>3, <1>4, <1>5 DEF SearchInv

LEMMA BucketStep ==
  ASSUME CoreInv, SearchInv, NEW v \in Val, Bucket(v) PROVE SearchInv'
<1> DEFINE B == InIndex(hash, {v})
<1>1. /\ data' = data /\ Written' = Written /\ Settled' = Settled
      /\ search.phase = "buckets" /\ search.found = Empty
  BY CoreStays DEF Bucket, SearchInv, FitInv
<1>2. CASE Cardinality(Values) # search.size
  BY <1>2, NothingYet DEF Bucket
<1>3. CASE Cardinality(Values) = search.size /\ v \notin search.want
  <2>1. /\ search' \in SearchType /\ search'.phase = "buckets" /\ search'.want = search.want
        /\ search'.ids = search.ids /\ search'.at = search.at /\ search'.found = Empty
        /\ search'.calm = search.calm /\ search'.seen = search.seen \cup {v}
    BY <1>1, <1>3 DEF Bucket, SearchInv, SearchType
  <2>2. KeyInv' /\ FitInv'
    <3>1. Pending' = Pending
      BY <1>1, <2>1 DEF Pending
    <3> QED BY <1>1, <2>1, <3>1 DEF SearchInv, FitInv, KeyInv, AnswerFits, Present, Empty
  <2>3. CompleteInv'
    BY <1>1, <1>3, <2>1 DEF SearchInv, CompleteInv
  <2> QED BY <2>1, <2>2, <2>3 DEF SearchInv
<1>4. CASE Cardinality(Values) = search.size /\ v \in search.want
  <2>1. B \subseteq Key /\ Taken(B) \in Map
    BY DEF InIndex, Taken, Map, SearchInv, SearchType, CoreInv, TypeOK
  <2>2. /\ search' \in SearchType /\ search'.phase = "buckets" /\ search'.want = search.want
        /\ search'.ids = search.ids \cup B /\ search'.at = Taken(B) /\ search'.found = Empty
        /\ search'.calm = search.calm /\ search'.seen = search.seen \cup {v}
    BY <1>1, <1>4, <2>1 DEF Bucket, SearchInv, SearchType
  <2>3. \A k \in B : k \in Settled /\ data[k] # NoRec /\ data[k].val = v
    BY <2>1, Listed
  <2>4. \A k \in Key \ Written : data[k] # NoRec /\ data[k].val = v => k \in B
    BY Listed
  <2>5. \A k \in Key : Taken(B)[k] = IF k \in B THEN data[k] ELSE search.at[k]
    BY DEF Taken
  <2> HIDE DEF B
  <2>6. KeyInv' /\ FitInv'
    <3>1. Pending' = search.ids \cup B /\ Pending = search.ids /\ search.ids \subseteq Key
      BY <1>1, <2>2 DEF Pending, SearchInv, SearchType
    <3>2. AnswerFits'
      BY <2>2 DEF AnswerFits, Present, Empty
    <3> QED BY <1>1, <1>4, <2>1, <2>2, <2>3, <2>5, <3>1, <3>2 DEF SearchInv, FitInv, KeyInv
  <2>7. CompleteInv'
    <3>1. search.calm \subseteq Key
      BY DEF SearchInv, SearchType
    <3> QED BY <1>1, <2>2, <2>4, <3>1 DEF SearchInv, CompleteInv
  <2> QED BY <2>2, <2>6, <2>7 DEF SearchInv
<1> QED BY <1>2, <1>3, <1>4

LEMMA BucketsDoneStep ==
  ASSUME CoreInv, SearchInv, BucketsDone PROVE SearchInv'
<1>1. /\ data' = data /\ Written' = Written /\ Settled' = Settled
      /\ search.phase = "buckets" /\ search.found = Empty /\ Values \subseteq search.seen
      /\ search.calm \subseteq Key
  BY CoreStays DEF BucketsDone, SearchInv, FitInv, SearchType
<1>2. CASE Cardinality(Values) # search.size
  BY <1>2, NothingYet DEF BucketsDone
<1>3. CASE Cardinality(Values) = search.size /\ search.ids # {}
  <2>1. /\ search' \in SearchType /\ search'.phase = "get_many" /\ search'.want = search.want
        /\ search'.ids = search.ids /\ search'.at = search.at /\ search'.found = Empty
        /\ search'.calm = search.calm
    BY <1>1, <1>3 DEF BucketsDone, SearchInv, SearchType, Phases
  <2>2. KeyInv' /\ FitInv'
    <3>1. Pending' = Pending
      BY <1>1, <2>1 DEF Pending
    <3> QED BY <1>1, <2>1, <3>1 DEF SearchInv, FitInv, KeyInv, AnswerFits, Present, Empty
  <2>3. CompleteInv'
    <3>1. ASSUME NEW k \in search.calm, data[k] # NoRec, data[k].val \in search.want
          PROVE  k \in search.ids
      <4>1. k \in Key /\ k \notin Written /\ search.want \in SUBSET Val
        BY <1>1 DEF SearchInv, SearchType, CompleteInv
      <4>2. k \in InIndex(hash, {data[k].val})
        BY <3>1, <4>1, Listed
      <4>3. data[k].val \in Values
        BY <4>2 DEF InIndex, Values
      <4> QED BY <1>1, <3>1, <4>3 DEF SearchInv, CompleteInv
    <3> QED BY <1>1, <2>1, <3>1 DEF SearchInv, CompleteInv
  <2> QED BY <2>1, <2>2, <2>3 DEF SearchInv
<1>4. CASE Cardinality(Values) = search.size /\ search.ids = {}
  <2>1. Cardinality(Present(data)) \in Sizes
    BY DEF Present, Sizes
  <2>2. /\ search' \in SearchType /\ search'.phase = "scan" /\ search'.ids = {}
        /\ search'.found = Empty /\ search'.calm = search.calm /\ search'.seen = {}
    BY <1>1, <1>4, <2>1 DEF BucketsDone, SearchInv, SearchType, Phases
  <2>3. KeyInv' /\ FitInv'
    <3>1. Pending' = {} /\ Present(search'.found) = {}
      BY <2>2 DEF Pending, Present, Empty
    <3> QED BY <2>2, <3>1 DEF FitInv, KeyInv, AnswerFits
  <2>4. CompleteInv'
    BY <1>1, <2>2 DEF SearchInv, CompleteInv
  <2> QED BY <2>2, <2>3, <2>4 DEF SearchInv
<1> QED BY <1>2, <1>3, <1>4

LEMMA ScanRecordStep ==
  ASSUME CoreInv, SearchInv, NEW k \in Key, ScanRecord(k) PROVE SearchInv'
<1>1. /\ data' = data /\ Written' = Written /\ Settled' = Settled
      /\ search.phase = "scan" /\ search.ids = {} /\ search.calm \subseteq Key
      /\ data[k] # NoRec
  BY CoreStays DEF ScanRecord, SearchInv, FitInv, SearchType, Present
<1>2. CASE Cardinality(Present(data)) # search.size
  BY <1>2, NothingYet DEF ScanRecord
<1>3. CASE Cardinality(Present(data)) = search.size
  <2> DEFINE F == IF data[k].val \in search.want THEN [search.found EXCEPT ![k] = data[k]]
                  ELSE search.found
  <2>1. F \in Map /\ F[k] = IF data[k].val \in search.want THEN data[k] ELSE search.found[k]
    BY <1>1 DEF SearchInv, SearchType, Map, CoreInv, TypeOK
  <2>2. \A i \in Key \ {k} : F[i] = search.found[i]
    BY DEF SearchInv, SearchType, Map
  <2>3. /\ search' \in SearchType /\ search'.phase = "scan" /\ search'.want = search.want
        /\ search'.ids = {} /\ search'.at = search.at /\ search'.found = F
        /\ search'.calm = search.calm /\ search'.seen = search.seen \cup {k}
    BY <1>1, <1>3, <2>1 DEF ScanRecord, SearchInv, SearchType
  <2> HIDE DEF F
  <2>4. AnswerFits'
    BY <1>1, <2>1, <2>2, <2>3 DEF SearchInv, FitInv, AnswerFits, Present
  <2>5. KeyInv' /\ FitInv'
    <3>1. Pending' = {}
      BY <2>3 DEF Pending
    <3> QED BY <2>3, <2>4, <3>1 DEF FitInv, KeyInv
  <2>6. CompleteInv'
    <3>1. ASSUME NEW i \in search.calm, data[i] # NoRec, data[i].val \in search.want,
                 i \in search'.seen
          PROVE  F[i] # NoRec
      <4>1. i \in Key
        BY <1>1
      <4>2. CASE i = k
        BY <1>1, <2>1, <3>1, <4>2
      <4>3. CASE i # k
        <5>1. F[i] = search.found[i]
          BY <2>2, <4>1, <4>3
        <5>2. i \in search.seen
          BY <2>3, <3>1, <4>3
        <5> QED BY <1>1, <3>1, <5>1, <5>2 DEF SearchInv, CompleteInv
      <4> QED BY <4>2, <4>3
    <3> QED BY <1>1, <2>3, <3>1 DEF SearchInv, CompleteInv
  <2> QED BY <2>3, <2>5, <2>6 DEF SearchInv
<1> QED BY <1>2, <1>3

LEMMA ScannedAllStep ==
  ASSUME CoreInv, SearchInv, ScannedAll PROVE SearchInv'
<1>1. /\ data' = data /\ Written' = Written /\ Settled' = Settled
      /\ search.phase = "scan" /\ search.ids = {} /\ search.calm \subseteq Key
      /\ Present(data) \subseteq search.seen
  BY CoreStays DEF ScannedAll, SearchInv, FitInv, SearchType
<1>2. CASE Cardinality(Present(data)) # search.size
  BY <1>2, NothingYet DEF ScannedAll
<1>3. CASE Cardinality(Present(data)) = search.size
  <2>1. /\ search' \in SearchType /\ search'.phase = "done" /\ search'.want = search.want
        /\ search'.ids = {} /\ search'.at = search.at /\ search'.found = search.found
        /\ search'.calm = search.calm
    BY <1>1, <1>3 DEF ScannedAll, SearchInv, SearchType, Phases
  <2>2. KeyInv' /\ FitInv'
    <3>1. Pending' = {}
      BY <2>1 DEF Pending
    <3>2. AnswerFits'
      BY <2>1 DEF SearchInv, FitInv, AnswerFits, Present
    <3> QED BY <2>1, <3>1, <3>2 DEF FitInv, KeyInv
  <2>3. CompleteInv'
    BY <1>1, <2>1 DEF SearchInv, CompleteInv, Present
  <2> QED BY <2>1, <2>2, <2>3 DEF SearchInv
<1> QED BY <1>2, <1>3

-----------------------------------------------------------------------------
(* The searches beside the threads that write.                             *)

LEMMA CoreStepStep ==
  ASSUME LockedOnly, CoreInv, CoreInv', SearchInv, CoreStep PROVE SearchInv'
<1>1. CASE search.phase = "done"
  <2>1. search' = [NoSearch EXCEPT !.how = "none"]
    BY <1>1 DEF CoreStep, NoSearch
  <2> QED BY <2>1, NothingYet
<1>2. CASE search.phase # "done"
  <2>1. /\ search' \in SearchType /\ search'.calm = search.calm \ Written'
        /\ \A f \in {"phase", "want", "ids", "seen", "key", "found", "at"} :
             search'[f] = search[f]
    BY <1>2 DEF CoreStep, SearchInv, SearchType
  <2>2. /\ search'.phase = search.phase /\ search'.want = search.want
        /\ search'.ids = search.ids /\ search'.seen = search.seen /\ search'.key = search.key
        /\ search'.found = search.found /\ search'.at = search.at
    BY <2>1
  <2>3. data \in Map /\ data' \in Map
    BY DEF CoreInv, TypeOK
  <2>4. KeyInv' /\ FitInv'
    <3>1. Pending' = Pending /\ Pending \subseteq Key
      BY <2>2 DEF Pending, SearchInv, KeyInv, SearchType
    <3>2. ASSUME NEW k \in Pending
          PROVE  /\ k \in Settled' /\ search.at[k] # NoRec /\ search.at[k].val \in search.want
                 /\ data'[k] = NoRec \/ data'[k] = search.at[k] \/ data'[k].ver > search.at[k].ver
      <4>1. /\ k \in Settled'
            /\ \/ data'[k] = data[k] \/ data'[k] = NoRec
               \/ data[k] # NoRec /\ data'[k].ver > data[k].ver
        BY <3>1, DataStep DEF CoreStep, SearchInv, FitInv
      <4>2. /\ search.at[k] # NoRec /\ search.at[k].val \in search.want
            /\ data[k] = NoRec \/ data[k] = search.at[k] \/ data[k].ver > search.at[k].ver
        BY DEF SearchInv, FitInv
      <4>3. k \in Key /\ search.at \in Map
        BY <3>1 DEF SearchInv, SearchType
      <4>4. /\ search.at[k] \in Rec
            /\ data[k] \in Rec \cup {NoRec} /\ data'[k] \in Rec \cup {NoRec}
        BY <2>3, <4>2, <4>3 DEF Map
      <4> QED BY <4>1, <4>2, <4>4 DEF Rec
    <3>3. AnswerFits'
      BY <2>2 DEF SearchInv, FitInv, AnswerFits, Present
    <3> QED BY <2>2, <3>1, <3>2, <3>3 DEF SearchInv, FitInv, KeyInv
  <2>5. CompleteInv'
    <3>1. \A k \in search'.calm : k \in search.calm /\ k \notin Written' /\ data'[k] = data[k]
      BY <2>1, DataStep DEF CoreStep, SearchInv, SearchType
    <3> QED BY <2>1, <2>2, <3>1 DEF SearchInv, CompleteInv
  <2> QED BY <2>1, <2>4, <2>5 DEF SearchInv
<1> QED BY <1>1, <1>2

LEMMA SearchStep == ASSUME CoreInv, SearchInv, Search PROVE SearchInv'
<1>1. CASE \E want \in SUBSET Val \ {{}} :
             SearchPrefix(want) \/ \E how \in {"raw", "locked", "range"} : Lookup(how, want)
  BY <1>1, PrefixStep, LookupStep
<1>2. CASE \E k \in Key : Check(k) \/ ScanRecord(k)
  BY <1>2, CheckStep, ScanRecordStep
<1>3. CASE Fetch \/ FetchedAll \/ GetMany
  BY <1>3, FetchStep, FetchedAllStep, GetManyStep
<1>4. CASE BucketsDone \/ ScannedAll \/ \E v \in Val : Bucket(v)
  BY <1>4, BucketsDoneStep, ScannedAllStep, BucketStep
<1> QED BY <1>1, <1>2, <1>3, <1>4 DEF Search

LEMMA SearchInvAlways == ASSUME LockedOnly PROVE SearchSpec => [](CoreInv /\ SearchInv)
<1>1. ASSUME SearchInit PROVE CoreInv /\ SearchInv
  <2>1. CoreInv
    BY <1>1, CoreInvInit DEF SearchInit
  <2>2. search = NoSearch /\ search.phase = "done" /\ search.ids = {} /\ search.calm = {}
        /\ Present(search.found) = {}
    BY <1>1 DEF SearchInit, NoSearch, Present, Empty
  <2>3. Pending = {} /\ AnswerFits
    BY <2>2 DEF Pending, AnswerFits
  <2> QED BY <2>1, <2>2, <2>3, NoSearchType DEF SearchInv, KeyInv, FitInv, CompleteInv
<1>2. ASSUME CoreInv, SearchInv, [CoreStep \/ Search]_searchVars PROVE CoreInv' /\ SearchInv'
  <2>1. [Next]_vars
    BY <1>2 DEF CoreStep, Search, Lookup, Check, Fetch, FetchedAll, GetMany, SearchPrefix, Bucket,
                BucketsDone, ScanRecord, ScannedAll, searchVars
  <2>2. CoreInv'
    BY <1>2, <2>1, CoreInvNext
  <2>3. CASE UNCHANGED searchVars
    <3>1. UNCHANGED vars /\ search' = search
      BY <2>3 DEF searchVars
    <3>2. data' = data /\ Written' = Written /\ Settled' = Settled /\ Pending' = Pending
      BY <3>1, CoreStays DEF Pending
    <3>3. KeyInv' /\ FitInv' /\ CompleteInv'
      <4>1. KeyInv' /\ CompleteInv'
        BY <1>2, <3>1, <3>2 DEF SearchInv, KeyInv, CompleteInv
      <4>2. AnswerFits'
        BY <1>2, <3>1 DEF SearchInv, FitInv, AnswerFits, Present
      <4>3. FitInv
        BY <1>2 DEF SearchInv
      <4> QED BY <3>1, <3>2, <4>1, <4>2, <4>3 DEF FitInv
    <3> QED BY <1>2, <2>2, <3>1, <3>3 DEF SearchInv
  <2> QED BY <1>2, <2>2, <2>3, CoreStepStep, SearchStep
<1> QED BY <1>1, <1>2, PTL DEF SearchSpec

\* A search without the lock answers with records that have a value asked for, or that were
\* updated while it went on (engine.py:449-463, 631-644).
THEOREM SearchFits == ASSUME LockedOnly PROVE SearchSpec => []AnswerFits
<1>1. SearchInv => AnswerFits
  BY DEF SearchInv, FitInv
<1> QED BY <1>1, SearchInvAlways, PTL

\* It misses no record with such a value that nobody was writing meanwhile.
THEOREM SearchComplete == ASSUME LockedOnly PROVE SearchSpec => []AnswerComplete
<1>1. SearchInv => AnswerComplete
  BY DEF SearchInv, CompleteInv, AnswerComplete, Present, SearchType
<1> QED BY <1>1, SearchInvAlways, PTL
=============================================================================
