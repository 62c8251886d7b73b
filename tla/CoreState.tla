----------------------------- MODULE CoreState -----------------------------
(***************************************************************************)
(* The in-memory state of one collection of RayzorgenCore and what must    *)
(* agree with it: the record cache, the hash and the B+ tree index of one  *)
(* field, the version history, and the contents a restart would find       *)
(* (DurableStore has the files in detail; here a log append or a snapshot  *)
(* takes effect at once).                                                  *)
(*                                                                         *)
(* insert, update, delete and get run under RayzorgenCore._lock.  A        *)
(* Transaction buffers its operations and applies them in commit without   *)
(* the lock; create_index, rebuild_indexes, begin_batch and end_batch take *)
(* no lock either, so the calls inside an operation are separate steps.    *)
(* A record has one field (val) and its version.                           *)
(***************************************************************************)
EXTENDS Naturals, Sequences, FiniteSets

CONSTANTS Key,       \* record ids: uuids, each inserted at most once
          Val,       \* values of the indexed field
          Thread,
          Txs,       \* the threads that use transactions
          MaxVer,    \* bound on record versions and on the history a call adds to
          MaxTx,     \* bound on the operations of a transaction
          CacheMax,  \* LRUCache.max_size
          Ops,       \* the API calls the threads make
          NoRec, NoKey, NoThread

AllOps == {"insert", "update", "delete", "get", "tx", "badtx", "drop", "batch",
           "create_index", "rebuild"}

ASSUME OpsAssumption == Ops \subseteq AllOps
\* One transaction at a time; and nothing that replaces the dict of the records
\* (a drop, a rollback) while another thread loops over it (batch, create_index,
\* rebuild) or is in a commit.
ASSUME TxAssumption == Txs \subseteq Thread /\ Cardinality(Txs) <= 1
ASSUME DictAssumption ==
  Cardinality({o \in {{"drop"}, {"tx", "badtx"}, {"batch", "create_index", "rebuild"}} :
                 o \cap Ops # {}}) <= (IF Cardinality(Thread) = 1 THEN 2 ELSE 1)
ASSUME BoundAssumption == MaxVer \in Nat /\ MaxTx \in Nat /\ CacheMax \in Nat \ {0}
ASSUME NoThreadAssumption == NoThread \notin Thread
ASSUME NoKeyAssumption == NoKey \notin Key

Rec == [val : Val, ver : Nat]
ASSUME NoRecAssumption == NoRec \notin Rec \cup Val

Map == [Key -> Rec \cup {NoRec}]
Empty == [k \in Key |-> NoRec]
Present(m) == {k \in Key : m[k] # NoRec}

\* A version in the history; its val is NoRec when the record was deleted.
Version == [val : Val \cup {NoRec}, ver : Nat]

\* A buffered operation of a transaction ("bad": its data is not a dict).
TxOp == [op : {"insert", "update", "delete", "bad"}, key : Key \cup {NoKey}, val : Val \cup {NoRec}]

VARIABLES
  data,     \* core._data[c]
  logged,   \* what log and snapshot hold: the records after a restart
  cache,    \* core.record_cache
  indexed,  \* the hash index exists
  hash,     \* its entries <<value, id>>
  tree,     \* the entries of the B+ tree
  hist,     \* timetravel._history
  batch,    \* core._batch_mode and _turbo_mode
  lock,     \* holder of core._lock
  pc,       \* pc[t]: the step t is at
  job,      \* job[t]: the call t is in
  answer,   \* answer[t]: what t's last get returned
  used      \* ids given out

vars == <<data, logged, cache, indexed, hash, tree, hist, batch, lock, pc, job, answer, used>>

Job == [call : {"none", "crud", "get", "tx", "rebuild", "batch", "create"},
        op : {"none", "insert", "update", "delete", "bad"},
        key : Key \cup {NoKey}, val : Val \cup {NoRec},
        old : Rec \cup {NoRec},     \* the record the call read
        turbo : BOOLEAN,
        todo : Seq(TxOp),           \* Transaction._operations
        snap : Map,                 \* Transaction._snapshot
        touched : SUBSET Key,       \* ids a commit has written
        seen : SUBSET Key,          \* ids a rebuild has come to
        size : Nat]                 \* size of the dict when the rebuild began

NoJob == [call |-> "none", op |-> "none", key |-> NoKey, val |-> NoRec, old |-> NoRec,
          turbo |-> FALSE, todo |-> <<>>, snap |-> Empty, touched |-> {}, seen |-> {},
          size |-> 0]

WritePcs == {"unindex", "store", "index", "uncache"}
RebuildPcs == {"clear", "scan", "add", "load"}
Pcs == WritePcs \cup RebuildPcs
         \cup {"idle", "done", "fill", "open", "apply", "flush", "restore"}

TypeOK ==
  /\ data \in Map /\ logged \in Map /\ cache \in Map
  /\ indexed \in BOOLEAN /\ batch \in BOOLEAN
  /\ hash \subseteq Val \X Key /\ tree \subseteq Val \X Key
  /\ hist \in [Key -> Seq(Version)]
  /\ lock \in Thread \cup {NoThread}
  /\ pc \in [Thread -> Pcs]
  /\ job \in [Thread -> Job]
  /\ answer \in [Thread -> Rec \cup {NoRec}]
  /\ used \subseteq Key

Init ==
  /\ data = Empty /\ logged = Empty /\ cache = Empty
  /\ indexed = ("create_index" \notin Ops)
  /\ hash = {} /\ tree = {}
  /\ hist = [k \in Key |-> <<>>]
  /\ batch = FALSE
  /\ lock = NoThread
  /\ pc = [t \in Thread |-> "idle"]
  /\ job = [t \in Thread |-> NoJob]
  /\ answer = [t \in Thread |-> NoRec]
  /\ used = {}

Entries(m) == {<<m[k].val, k>> : k \in Present(m)}
Goto(t, p) == pc' = [pc EXCEPT ![t] = p]

-----------------------------------------------------------------------------
(* _raw_insert, _raw_update and _raw_delete.                               *)

\* The raw operation o of t on id k starts: the record is read.  j: the call so far.
Begin(t, j, o, k, v) ==
  /\ job' = [job EXCEPT ![t] = [j EXCEPT !.op = o, !.key = k, !.val = v, !.old = data[k],
                                         !.turbo = batch, !.touched = @ \cup {k}]]
  /\ Goto(t, IF o = "insert" THEN "store" ELSE "unindex")
  /\ used' = IF o = "insert" THEN used \cup {k} ELSE used

\* Bounds: there is an id left that no transaction needs; versions and history
\* below MaxVer.
SpareId == Cardinality(Key \ used) >
             Cardinality({p \in Thread \X (1..MaxTx) :
                            /\ p[2] <= Len(job[p[1]].todo)
                            /\ job[p[1]].todo[p[2]].op = "insert"})

\* Ids an operation o can be about: a new one, or one that is there.
Target(o) == IF o = "insert" THEN {k \in Key \ used : SpareId}
             ELSE {k \in Present(data) : data[k].ver < MaxVer /\ Len(hist[k]) < MaxVer}

\* IndexManager: the hash index, if there is one, and the B+ tree.
IndexRecord(k, v) == hash' = IF indexed THEN hash \cup {<<v, k>>} ELSE hash
UnindexRecord(k, v) == hash' = hash \ {<<v, k>>}
IndexRecordSorted(k, v) == tree' = tree \cup {<<v, k>>}
UnindexRecordSorted(k, v) == tree' = tree \ {<<v, k>>}

Unindex(t) ==
  /\ pc[t] = "unindex"
  /\ UnindexRecord(job[t].key, job[t].old.val)
  /\ UnindexRecordSorted(job[t].key, job[t].old.val)
  /\ Goto(t, "store")
  /\ UNCHANGED <<data, logged, cache, indexed, hist, batch, lock, job, answer, used>>

\* The version that is recorded, and the record that is stored.
NewVersion(j) == [val |-> j.val, ver |-> IF j.op = "insert" THEN 1 ELSE j.old.ver + 1]
\* Mutant: a delete empties the record instead of removing it.
NewRecEmptied(j) == NewVersion(j)

NewRec(j) == IF j.op = "delete" THEN NoRec ELSE NewVersion(j)

\* Mutant: updates leave the history alone.
StoreNoHistory(t) ==
  LET j == job[t]  k == j.key IN
  /\ pc[t] = "store"
  /\ j.op = "delete" => data[k] # NoRec
  /\ data' = [data EXCEPT ![k] = NewRec(j)]
  /\ logged' = [logged EXCEPT ![k] = NewRec(j)]
  /\ hist' = IF batch \/ j.op = "update" THEN hist
             ELSE [hist EXCEPT ![k] = Append(@, NewVersion(j))]
  /\ Goto(t, IF j.op = "insert" /\ j.turbo THEN "done"
             ELSE IF j.op = "delete" THEN "uncache" ELSE "index")
  /\ UNCHANGED <<cache, indexed, hash, tree, batch, lock, job, answer, used>>

\* Mutant: deletes are not logged.
StoreUnlogged(t) ==
  LET j == job[t]  k == j.key IN
  /\ pc[t] = "store"
  /\ data' = [data EXCEPT ![k] = NewRec(j)]
  /\ logged' = IF j.op = "delete" THEN logged ELSE [logged EXCEPT ![k] = NewRec(j)]
  /\ hist' = IF batch /\ j.op # "delete" THEN hist
             ELSE [hist EXCEPT ![k] = Append(@, NewVersion(j))]
  /\ Goto(t, IF j.op = "insert" /\ j.turbo THEN "done"
             ELSE IF j.op = "delete" THEN "uncache" ELSE "index")
  /\ UNCHANGED <<cache, indexed, hash, tree, batch, lock, job, answer, used>>

\* History, memory and log.
Store(t) ==
  LET j == job[t]  k == j.key IN
  /\ pc[t] = "store"
  /\ j.op = "delete" => data[k] # NoRec
  /\ data' = [data EXCEPT ![k] = NewRec(j)]
  /\ logged' = [logged EXCEPT ![k] = NewRec(j)]
  /\ hist' = IF batch /\ j.op # "delete" THEN hist
             ELSE [hist EXCEPT ![k] = Append(@, NewVersion(j))]
  /\ Goto(t, IF j.op = "insert" /\ j.turbo THEN "done"
             ELSE IF j.op = "delete" THEN "uncache" ELSE "index")
  /\ UNCHANGED <<cache, indexed, hash, tree, batch, lock, job, answer, used>>

\* "del coll[record_id]" of a record a commit has deleted meanwhile: KeyError.
DeleteGone(t) ==
  /\ pc[t] = "store" /\ job[t].op = "delete" /\ data[job[t].key] = NoRec
  /\ hist' = [hist EXCEPT ![job[t].key] = Append(@, NewVersion(job[t]))]
  /\ Goto(t, IF job[t].call = "tx" THEN "restore" ELSE "done")
  /\ UNCHANGED <<data, logged, cache, indexed, hash, tree, batch, lock, job, answer, used>>

\* Mutant: the record is indexed under the value it had.
IndexOld(t) ==
  /\ pc[t] = "index"
  /\ LET v == IF job[t].op = "update" THEN job[t].old.val ELSE job[t].val
     IN IndexRecord(job[t].key, v) /\ IndexRecordSorted(job[t].key, v)
  /\ Goto(t, "uncache")
  /\ UNCHANGED <<data, logged, cache, indexed, hist, batch, lock, job, answer, used>>

Index(t) ==
  /\ pc[t] = "index"
  /\ IndexRecord(job[t].key, job[t].val)
  /\ IndexRecordSorted(job[t].key, job[t].val)
  /\ Goto(t, "uncache")
  /\ UNCHANGED <<data, logged, cache, indexed, hist, batch, lock, job, answer, used>>

\* LRUCache.set: over its limit the cache drops its oldest entry (here: any).
CacheSet(k, r) ==
  LET full == [cache EXCEPT ![k] = r] IN
  IF Cardinality(Present(full)) <= CacheMax THEN cache' = full
  ELSE \E old \in Present(cache) \ {k} : cache' = [full EXCEPT ![old] = NoRec]

\* Mutant: an update leaves the cached record.
UncacheDeletes(t) ==
  /\ pc[t] = "uncache"
  /\ IF job[t].op = "insert" THEN CacheSet(job[t].key, NewRec(job[t]))
     ELSE cache' = IF job[t].op = "update" THEN cache
                   ELSE [cache EXCEPT ![job[t].key] = NoRec]
  /\ Goto(t, "done")
  /\ UNCHANGED <<data, logged, indexed, hash, tree, hist, batch, lock, job, answer, used>>

\* An insert caches its record, update and delete invalidate the cached one.
Uncache(t) ==
  /\ pc[t] = "uncache"
  /\ IF job[t].op = "insert" THEN CacheSet(job[t].key, NewRec(job[t]))
     ELSE cache' = [cache EXCEPT ![job[t].key] = NoRec]
  /\ Goto(t, "done")
  /\ UNCHANGED <<data, logged, indexed, hash, tree, hist, batch, lock, job, answer, used>>

-----------------------------------------------------------------------------
(* The locked calls.                                                       *)

\* Mutant: the write calls do not take the lock.
EnterUnlocked(t) == pc[t] = "idle" /\ UNCHANGED lock

Enter(t) ==
  /\ pc[t] = "idle" /\ lock = NoThread
  /\ lock' = t

NewJob(t, c) == [job EXCEPT ![t] = [NoJob EXCEPT !.call = c]]

\* The calls that write: an id that is not there is left alone.
Crud(t) ==
  /\ Enter(t)
  /\ \E o \in {"insert", "update", "delete"} \cap Ops, v \in Val : \E k \in Target(o) :
       Begin(t, [NoJob EXCEPT !.call = "crud"], o, k, IF o = "delete" THEN NoRec ELSE v)
  /\ UNCHANGED <<data, logged, cache, indexed, hash, tree, hist, batch, answer>>

Return(t) ==
  /\ pc[t] = "done" /\ job[t].call = "crud"
  /\ lock' = NoThread
  /\ Goto(t, "idle")
  /\ job' = [job EXCEPT ![t] = NoJob]
  /\ UNCHANGED <<data, logged, cache, indexed, hash, tree, hist, batch, answer, used>>

\* get: a cached record is the answer ...
GetHit(t, k) ==
  /\ "get" \in Ops
  /\ pc[t] = "idle" /\ lock = NoThread
  /\ cache[k] # NoRec
  /\ answer' = [answer EXCEPT ![t] = cache[k]]
  /\ UNCHANGED <<data, logged, cache, indexed, hash, tree, hist, batch, lock, pc, job, used>>

\* ... any other is read from memory ...
GetMiss(t, k) ==
  /\ "get" \in Ops
  /\ Enter(t)
  /\ cache[k] = NoRec
  /\ job' = [job EXCEPT ![t] = [NoJob EXCEPT !.call = "get", !.key = k, !.old = data[k]]]
  /\ Goto(t, "fill")
  /\ UNCHANGED <<data, logged, cache, indexed, hash, tree, hist, batch, answer, used>>

\* ... and cached.
GetFill(t) ==
  /\ pc[t] = "fill"
  /\ IF job[t].old = NoRec THEN UNCHANGED cache ELSE CacheSet(job[t].key, job[t].old)
  /\ answer' = [answer EXCEPT ![t] = job[t].old]
  /\ lock' = NoThread
  /\ Goto(t, "idle")
  /\ job' = [job EXCEPT ![t] = NoJob]
  /\ UNCHANGED <<data, logged, indexed, hash, tree, hist, batch, used>>

\* Mutant: the files are left behind.
DropKeepsFiles(t) ==
  /\ "drop" \in Ops
  /\ pc[t] = "idle" /\ lock = NoThread
  /\ data' = Empty
  /\ indexed' = FALSE /\ hash' = {}
  /\ UNCHANGED <<logged, cache, tree, hist, batch, lock, pc, job, answer, used>>

\* drop_collection: the records and the hash indexes; neither the B+ trees nor
\* the record cache.
Drop(t) ==
  /\ "drop" \in Ops
  /\ pc[t] = "idle" /\ lock = NoThread
  /\ data' = Empty /\ logged' = Empty
  /\ indexed' = FALSE /\ hash' = {}
  /\ UNCHANGED <<cache, tree, hist, batch, lock, pc, job, answer, used>>

-----------------------------------------------------------------------------
(* Transaction.                                                            *)

\* begin: a copy of all the data, made under the lock.
TxBegin(t) ==
  /\ t \in Txs /\ {"tx", "badtx"} \cap Ops # {}
  /\ pc[t] = "idle" /\ lock = NoThread
  /\ \A k \in Key : Len(hist[k]) < MaxVer
  /\ job' = [job EXCEPT ![t] = [NoJob EXCEPT !.call = "tx", !.snap = data]]
  /\ Goto(t, "open")
  /\ UNCHANGED <<data, logged, cache, indexed, hash, tree, hist, batch, lock, answer, used>>

TxBuffer(t) ==
  /\ pc[t] = "open" /\ Len(job[t].todo) < MaxTx
  /\ \E e \in TxOp :
       /\ CASE e.op = "insert" -> e.key = NoKey /\ e.val # NoRec /\ SpareId
            [] e.op = "update" -> e.key \in used /\ e.val # NoRec
            [] e.op = "delete" -> e.key \in used /\ e.val = NoRec
            [] e.op = "bad" -> e.key = NoKey /\ e.val = NoRec /\ "badtx" \in Ops
       /\ e.op # "bad" => e.op \in Ops
       /\ e.key # NoKey /\ data[e.key] # NoRec => data[e.key].ver + Len(job[t].todo) < MaxVer
       /\ job' = [job EXCEPT ![t].todo = Append(@, e)]
  /\ UNCHANGED <<data, logged, cache, indexed, hash, tree, hist, batch, lock, pc, answer, used>>

TxCommit(t) ==
  /\ pc[t] = "open"
  /\ Goto(t, "apply")
  /\ UNCHANGED <<data, logged, cache, indexed, hash, tree, hist, batch, lock, job, answer, used>>

\* The next operation; an update or delete of an id that is not there does nothing.
TxApply(t) ==
  /\ pc[t] = "apply" /\ job[t].todo # <<>>
  /\ LET e == Head(job[t].todo)
         rest == [job[t] EXCEPT !.todo = Tail(@)]
         k == e.key
     IN CASE e.op = "bad" -> Goto(t, "restore") /\ UNCHANGED <<job, used>>
          [] e.op = "insert" -> \E new \in Key \ used : Begin(t, rest, "insert", new, e.val)
          [] k # NoKey /\ data[k] = NoRec -> /\ job' = [job EXCEPT ![t] = rest]
                                             /\ UNCHANGED <<pc, used>>
          [] OTHER -> Begin(t, rest, e.op, k, e.val)
  /\ UNCHANGED <<data, logged, cache, indexed, hash, tree, hist, batch, lock, answer>>

TxNext(t) ==
  /\ pc[t] = "done" /\ job[t].call = "tx"
  /\ Goto(t, "apply")
  /\ UNCHANGED <<data, logged, cache, indexed, hash, tree, hist, batch, lock, job, answer, used>>

\* All applied: _flush_all.
TxFlush(t) ==
  /\ pc[t] = "apply" /\ job[t].todo = <<>>
  /\ logged' = data
  /\ Goto(t, "idle")
  /\ job' = [job EXCEPT ![t] = NoJob]
  /\ UNCHANGED <<data, cache, indexed, hash, tree, hist, batch, lock, answer, used>>

\* The caller gives up.
TxAbort(t) ==
  /\ pc[t] = "open"
  /\ Goto(t, "restore")
  /\ UNCHANGED <<data, logged, cache, indexed, hash, tree, hist, batch, lock, job, answer, used>>

\* rollback: the data of begin comes back; nothing else is touched.
TxRestore(t) ==
  /\ pc[t] = "restore" /\ lock \in {NoThread, t}
  /\ data' = job[t].snap
  /\ Goto(t, "idle")
  /\ job' = [job EXCEPT ![t] = NoJob]
  /\ UNCHANGED <<logged, cache, indexed, hash, tree, hist, batch, lock, answer, used>>

-----------------------------------------------------------------------------
(* Batch mode and the building of indexes, all without the lock.           *)

BeginBatch(t) ==
  /\ "batch" \in Ops
  /\ pc[t] = "idle" /\ ~batch
  /\ batch' = TRUE
  /\ UNCHANGED <<data, logged, cache, indexed, hash, tree, hist, lock, pc, job, answer, used>>

\* end_batch, and rebuild_indexes: IndexManager.rebuild starts.
Rebuild(t) ==
  /\ pc[t] = "idle"
  /\ \/ batch /\ batch' = FALSE /\ job' = NewJob(t, "batch")
     \/ "rebuild" \in Ops /\ UNCHANGED batch /\ job' = NewJob(t, "rebuild")
  /\ Goto(t, "clear")
  /\ UNCHANGED <<data, logged, cache, indexed, hash, tree, hist, lock, answer, used>>

\* A loop over the dict starts.
Iterate(t, j) ==
  /\ job' = [job EXCEPT ![t] = [j EXCEPT !.size = Cardinality(Present(data))]]
  /\ Goto(t, "scan")

ClearHash(t) ==
  /\ pc[t] = "clear"
  /\ hash' = {}
  /\ Iterate(t, job[t])
  /\ UNCHANGED <<data, logged, cache, indexed, tree, hist, batch, lock, answer, used>>

\* create_index: the index is registered, then filled.
CreateIndex(t) ==
  /\ "create_index" \in Ops
  /\ pc[t] = "idle"
  /\ indexed' = TRUE
  /\ Iterate(t, [NoJob EXCEPT !.call = "create"])
  /\ UNCHANGED <<data, logged, cache, hash, tree, hist, batch, lock, answer, used>>

SameSize(t) == Cardinality(Present(data)) = job[t].size

\* The iterator yields the next record (a new one comes last) ...
Scan(t) ==
  /\ pc[t] = "scan" /\ SameSize(t)
  /\ \E k \in Present(data) \ job[t].seen :
       job' = [job EXCEPT ![t].key = k, ![t].old = data[k], ![t].seen = @ \cup {k}]
  /\ Goto(t, "add")
  /\ UNCHANGED <<data, logged, cache, indexed, hash, tree, hist, batch, lock, answer, used>>

\* ... which is indexed.
AddEntry(t) ==
  /\ pc[t] = "add"
  /\ IndexRecord(job[t].key, job[t].old.val)
  /\ Goto(t, "scan")
  /\ UNCHANGED <<data, logged, cache, indexed, tree, hist, batch, lock, job, answer, used>>

\* Mutant: the B+ tree is not loaded.
ScanDoneNoTree(t) ==
  /\ pc[t] = "scan" /\ SameSize(t) /\ Present(data) \subseteq job[t].seen
  /\ Goto(t, "flush")
  /\ UNCHANGED <<data, logged, cache, indexed, hash, tree, hist, batch, lock, job, answer, used>>

ScanDone(t) ==
  /\ pc[t] = "scan" /\ SameSize(t) /\ Present(data) \subseteq job[t].seen
  /\ Goto(t, IF job[t].call = "create" THEN "flush" ELSE "load")
  /\ UNCHANGED <<data, logged, cache, indexed, hash, tree, hist, batch, lock, job, answer, used>>

\* The dict has grown or shrunk: RuntimeError, which end_batch swallows.
ScanFails(t) ==
  /\ pc[t] = "scan" /\ ~SameSize(t)
  /\ Goto(t, "flush")
  /\ UNCHANGED <<data, logged, cache, indexed, hash, tree, hist, batch, lock, job, answer, used>>

\* The B+ tree is loaded anew, unless there is nothing to load.
LoadTree(t) ==
  /\ pc[t] = "load"
  /\ tree' = IF Present(data) = {} THEN tree ELSE Entries(data)
  /\ Goto(t, "flush")
  /\ UNCHANGED <<data, logged, cache, indexed, hash, hist, batch, lock, job, answer, used>>

\* end_batch flushes; the others just return.
RebuildDone(t) ==
  /\ pc[t] = "flush"
  /\ logged' = IF job[t].call = "batch" THEN data ELSE logged
  /\ Goto(t, "idle")
  /\ job' = [job EXCEPT ![t] = NoJob]
  /\ UNCHANGED <<data, cache, indexed, hash, tree, hist, batch, lock, answer, used>>

RawWrite(t) == Unindex(t) \/ Store(t) \/ DeleteGone(t) \/ Index(t) \/ Uncache(t)
Locked(t) == \/ Crud(t) \/ Return(t) \/ GetFill(t) \/ Drop(t)
             \/ \E k \in Key : GetHit(t, k) \/ GetMiss(t, k)
Tx(t) == \/ TxBegin(t) \/ TxBuffer(t) \/ TxCommit(t) \/ TxApply(t) \/ TxNext(t)
         \/ TxFlush(t) \/ TxAbort(t) \/ TxRestore(t)
Build(t) == \/ BeginBatch(t) \/ Rebuild(t) \/ ClearHash(t) \/ CreateIndex(t) \/ Scan(t)
            \/ AddEntry(t) \/ ScanDone(t) \/ ScanFails(t) \/ LoadTree(t) \/ RebuildDone(t)

Next == \E t \in Thread : RawWrite(t) \/ Locked(t) \/ Tx(t) \/ Build(t)

Spec == Init /\ [][Next]_vars

-----------------------------------------------------------------------------
(* Properties                                                              *)

Writing(t) == pc[t] \in WritePcs
Quiet == \A t \in Thread : ~Writing(t)

\* The record cache never disagrees with memory about an id nobody is writing: a
\* get answers what is there (engine.py:465-477).
CacheIsData ==
  \A k \in Key :
    cache[k] # NoRec /\ (\A t \in Thread : Writing(t) => job[t].key # k) => cache[k] = data[k]

\* Outside batch mode both indexes hold exactly the records there are, when no
\* write and no rebuild is under way (engine.py:882, "then rebuild indexes + flush").
IndexIsData ==
  Quiet /\ ~batch /\ (\A t \in Thread : pc[t] \notin RebuildPcs)
    => (indexed => hash = Entries(data)) /\ tree = Entries(data)

\* What the log and the snapshots hold is what is in memory: a restart after they
\* are written out changes nothing.
RestartFindsMemory == Quiet => logged = data

\* The history has every version of every record, in order, and ends in the
\* record that is there (README.md:86, "every version of every record is preserved").
HistoryKeepsAll ==
  \A k \in used : (\A t \in Thread : Writing(t) => job[t].key # k) =>
    LET h == hist[k] IN
    /\ h # <<>>
    /\ \A i \in DOMAIN h : h[i].ver = i
    /\ h[Len(h)].val = IF data[k] = NoRec THEN NoRec ELSE data[k].val

\* A read answers only with records that were stored once, no rolled-back
\* transaction and no half-done write can make one up.
AnswersWereStored ==
  \A t \in Thread : answer[t] = NoRec
                  \/ \E k \in Key : \E i \in DOMAIN hist[k] : hist[k][i] = answer[t]

\* When the loop that fills the hash index ends without an error and was the only
\* one, the index has every record, whatever was written meanwhile (it may also
\* have records under a value they no longer have, see IndexIsData).
IndexCoversData ==
  [][\A t \in Thread :
       pc[t] = "scan" /\ pc'[t] \in {"flush", "load"} /\ SameSize(t) /\ Quiet /\ indexed
         /\ (\A u \in Thread \ {t} : pc[u] \notin RebuildPcs)
         => Entries(data) \subseteq hash]_vars

\* A rollback undoes what its transaction did and nothing else (README.md:137).
RollbackKeepsOthers ==
  [][\A t \in Thread, k \in Key :
       pc[t] = "restore" /\ pc'[t] = "idle" /\ k \notin job[t].touched
         => data'[k] = data[k]]_vars

\* The collection is a map: a read answers with the record that is there, and a
\* version number is given out once per record.
Map1 == INSTANCE RecordMap WITH map <- data
ImplementsRecordMap == Map1!Spec
=============================================================================
