---------------------------- MODULE DurableStore ----------------------------
(***************************************************************************)
(* The write path of one collection and its recovery: RayzorgenCore (in    *)
(* memory), BinaryStore (the .rdb snapshot) and WAL (the .wal log), with   *)
(* threads, batch mode, I/O errors, and a crash between any two writes to  *)
(* the disk.  A record is reduced to its data (val) and its version.       *)
(*                                                                         *)
(* Locking is the code's: insert, update, delete, checkpoint, close and    *)
(* drop hold RayzorgenCore._lock; flush, snapshot, begin_batch and         *)
(* end_batch do not.  BinaryStore.save holds the store's own lock.         *)
(***************************************************************************)
EXTENDS Naturals, Sequences, FiniteSets, FiniteSetsExt

CONSTANTS Key,        \* record ids: uuids, each inserted at most once
          Val,        \* record contents
          Thread,
          MaxVer,     \* bound on record versions
          Threshold,  \* WAL records that trigger a snapshot (1 MB in the code)
          BufMax,     \* WAL._buffer_max
          Ops,        \* the API calls the threads make
          Faults,     \* the faults that may happen
          MaxFaults,  \* how many of them
          MaxRestarts,
          InitSnap,   \* has the collection been snapshotted before?
          NoRec, NoPromise, NoThread

AllOps == {"insert", "update", "delete", "delete_many", "checkpoint", "snapshot",
           "batch", "drop", "close"}
AllFaults == {"append", "save", "tear"}

ASSUME OpsAssumption == Ops \subseteq AllOps /\ Faults \subseteq AllFaults
ASSUME BoundAssumption ==
  /\ MaxVer \in Nat /\ Threshold \in Nat /\ BufMax \in Nat \ {0}
  /\ MaxFaults \in Nat /\ MaxRestarts \in Nat /\ InitSnap \in BOOLEAN
ASSUME SentinelAssumption == NoThread \notin Thread

Rec == [val : Val, ver : Nat]
ASSUME NoRecAssumption == NoRec \notin Rec /\ NoPromise \notin Rec \cup {NoRec}

Map == [Key -> Rec \cup {NoRec}]
Entry == [op : {"insert", "update"}, key : Key, rec : Rec]
           \cup [op : {"delete"}, key : Key, rec : {NoRec}]
Empty == [k \in Key |-> NoRec]

VARIABLES
  data,     \* core._data[c]
  known,    \* c is in core._data
  wbuf,     \* WAL._buffer
  sync,     \* WAL._sync_fsync
  batch,    \* core._batch_mode (and _turbo_mode)
  snap,     \* the .rdb file
  hasSnap,  \* the .rdb file exists
  wal,      \* the readable records of the .wal file
  synced,   \* how many of them fsync has put on the disk
  torn,     \* the .wal file goes on after them with an incomplete record
  lock,     \* holder of core._lock
  pc,       \* pc[t]: the step t is at
  job,      \* job[t]: the call t is in, its WAL record, the image it saves
  faults,   \* faults so far
  restarts, \* restarts so far
  used,     \* ids given out
  prom      \* prom[k]: what the callers were told is on the disk

disk == <<snap, hasSnap, wal, synced, torn>>
vars == <<data, known, wbuf, sync, batch, disk, lock, pc, job, faults, restarts, used, prom>>

SavePcs == {"replace", "rotate", "remove"}
Pcs == SavePcs \cup {"idle", "log", "flush", "done", "endsync", "encode",
                     "dropsnap", "dropwal"}
Call == [op : AllOps \cup {"none"}, entry : Entry \cup {NoRec}, img : Map]
Idle == [op |-> "none", entry |-> NoRec, img |-> Empty]

TypeOK ==
  /\ data \in Map /\ snap \in Map
  /\ known \in BOOLEAN /\ hasSnap \in BOOLEAN
  /\ sync \in BOOLEAN /\ batch \in BOOLEAN /\ torn \in BOOLEAN
  /\ wbuf \in Seq(Entry) /\ wal \in Seq(Entry)
  /\ synced \in 0..Len(wal)
  /\ lock \in Thread \cup {NoThread}
  /\ pc \in [Thread -> Pcs]
  /\ job \in [Thread -> Call]
  /\ faults \in 0..MaxFaults /\ restarts \in 0..MaxRestarts
  /\ used \subseteq Key
  /\ prom \in [Key -> Rec \cup {NoRec, NoPromise}]

Init ==
  /\ data = Empty /\ snap = Empty
  /\ known = InitSnap /\ hasSnap = InitSnap
  /\ wbuf = <<>> /\ wal = <<>> /\ synced = 0 /\ torn = FALSE
  /\ sync = TRUE /\ batch = FALSE
  /\ lock = NoThread
  /\ pc = [t \in Thread |-> "idle"]
  /\ job = [t \in Thread |-> Idle]
  /\ faults = 0 /\ restarts = 0
  /\ used = {}
  /\ prom = Empty

-----------------------------------------------------------------------------
(* Recovery: the snapshot with the log applied on top.                     *)

\* The records of the log about k.
Touches(w, k) == {i \in DOMAIN w : w[i].key = k}

\* Is k there before record i of the log is applied?
Existed(base, w, k, i) ==
  LET before == {j \in Touches(w, k) : j < i}
  IN IF before = {} THEN base[k] # NoRec ELSE w[Max(before)].op # "delete"

\* Mutant: replay counts the version up from the record it finds.
ApplyCounting(base, w) ==
  [k \in Key |->
     IF Touches(w, k) = {} THEN base[k]
     ELSE LET i == Max(Touches(w, k))
              updates == {j \in Touches(w, k) : w[j].op = "update"}
              start == IF w[Min(Touches(w, k))].op = "insert" THEN 1
                       ELSE IF base[k] = NoRec THEN 0 ELSE base[k].ver IN
          IF w[i].op = "update"
            THEN [w[i].rec EXCEPT !.ver = start + Cardinality(updates)]
            ELSE w[i].rec]

\* Mutant: a delete record is skipped.
ApplyNoDelete(base, w) ==
  [k \in Key |->
     LET live == {i \in Touches(w, k) : w[i].op # "delete"} IN
     IF live = {} THEN base[k] ELSE w[Max(live)].rec]

\* The loop of _apply_wal: the last record about k decides.  The payload of an
\* update is the whole new record; its version is counted up once more when
\* it is applied to a record that is there.
ApplyWal(base, w) ==
  [k \in Key |->
     IF Touches(w, k) = {} THEN base[k]
     ELSE LET i == Max(Touches(w, k)) IN
          IF w[i].op = "update" /\ Existed(base, w, k, i)
            THEN [w[i].rec EXCEPT !.ver = @ + 1]
            ELSE w[i].rec]

\* The loop itself: one turn of it, and all of them.
ApplyEntry(m, e) ==
  [m EXCEPT ![e.key] = IF e.op = "update" /\ m[e.key] # NoRec
                         THEN [e.rec EXCEPT !.ver = @ + 1]
                         ELSE e.rec]
ApplyLoop(base, w) ==
  LET m[i \in 0..Len(w)] == IF i = 0 THEN base ELSE ApplyEntry(m[i - 1], w[i])
  IN  m[Len(w)]

\* WAL.read_all when n records of the file are left: up to the first incomplete one.
ReadAll(n) == SubSeq(wal, 1, n)

\* BinaryStore.load with the first n records of the log.
LoadAt(n) == ApplyWal(snap, ReadAll(n))

\* What a restart finds if these survive: a collection without .rdb file is
\* not listed, so its log is not read.
RecoveredAt(n) == IF hasSnap THEN LoadAt(n) ELSE Empty

-----------------------------------------------------------------------------
(* Insert, update, delete: memory first, then the log, under core._lock.   *)

Enter(t) ==
  /\ pc[t] = "idle" /\ lock = NoThread
  /\ lock' = t

Write(t, o, e) ==
  /\ Enter(t)
  /\ data' = [data EXCEPT ![e.key] = e.rec]
  /\ known' = TRUE
  /\ job' = [job EXCEPT ![t] = [op |-> o, entry |-> e, img |-> Empty]]
  /\ pc' = [pc EXCEPT ![t] = "log"]
  /\ prom' = [prom EXCEPT ![e.key] = NoPromise]
  /\ UNCHANGED <<wbuf, sync, batch, disk, faults, restarts>>

Insert(t) ==
  /\ "insert" \in Ops
  /\ \E k \in Key \ used, v \in Val :
       /\ Write(t, "insert", [op |-> "insert", key |-> k, rec |-> [val |-> v, ver |-> 1]])
       /\ used' = used \cup {k}

Update(t) ==
  /\ "update" \in Ops
  /\ \E k \in Key, v \in Val :
       /\ data[k] # NoRec /\ data[k].ver < MaxVer
       /\ Write(t, "update", [op |-> "update", key |-> k,
                              rec |-> [val |-> v, ver |-> data[k].ver + 1]])
  /\ UNCHANGED used

\* Mutant: delete() leaves no record in the log.
DeleteUnlogged(t) ==
  /\ \E k \in Key, o \in {"delete", "delete_many"} \cap Ops :
       /\ data[k] # NoRec
       /\ Enter(t)
       /\ data' = [data EXCEPT ![k] = NoRec]
       /\ job' = [job EXCEPT ![t].op = o]
       /\ pc' = [pc EXCEPT ![t] = "flush"]
       /\ prom' = [prom EXCEPT ![k] = IF sync THEN NoRec ELSE NoPromise]
  /\ UNCHANGED <<known, wbuf, sync, batch, disk, faults, restarts, used>>

Delete(t) ==
  /\ \E k \in Key, o \in {"delete", "delete_many"} \cap Ops :
       /\ data[k] # NoRec
       /\ Write(t, o, [op |-> "delete", key |-> k, rec |-> NoRec])
  /\ UNCHANGED used

MayFail(f) == IF f \in Faults /\ faults < MaxFaults THEN BOOLEAN ELSE {FALSE}

\* Mutant: the sync-mode append does not call fsync.
AppendNoFsync(e) ==
  IF torn THEN UNCHANGED <<wal, synced>> ELSE wal' = Append(wal, e) /\ UNCHANGED synced

\* A record appended to the file; behind an incomplete one nobody reads it.
AppendToFile(e) ==
  IF torn THEN UNCHANGED <<wal, synced>>
  ELSE wal' = Append(wal, e) /\ synced' = Len(wal) + 1

\* _flush_buffer: written, not fsynced.
FlushBuffer(b) ==
  /\ wal' = IF torn THEN wal ELSE wal \o b
  /\ wbuf' = <<>>
  /\ UNCHANGED synced

\* WAL.append of the pending record.
Log(t) ==
  /\ pc[t] = "log"
  /\ LET e == job[t].entry IN
     /\ \/ /\ sync   \* an I/O error of write or fsync is swallowed
           /\ \E failed \in MayFail("append") :
                /\ IF failed THEN UNCHANGED <<wal, synced>> ELSE AppendToFile(e)
                /\ faults' = IF failed THEN faults + 1 ELSE faults
           /\ UNCHANGED wbuf
        \/ /\ ~sync /\ Len(wbuf) + 1 < BufMax
           /\ wbuf' = Append(wbuf, e)
           /\ UNCHANGED <<wal, synced, faults>>
        \/ /\ ~sync /\ Len(wbuf) + 1 >= BufMax
           /\ FlushBuffer(Append(wbuf, e))
           /\ UNCHANGED faults
     /\ prom' = IF sync THEN [prom EXCEPT ![e.key] = e.rec] ELSE prom
  /\ pc' = [pc EXCEPT ![t] = "flush"]
  /\ UNCHANGED <<data, known, sync, batch, snap, hasSnap, torn, lock, job, restarts, used>>

-----------------------------------------------------------------------------
(* _flush_one and BinaryStore.save.                                        *)

StoreFree == \A u \in Thread : pc[u] \notin SavePcs

\* No snapshot: batch mode, a short log, wal_only, or no file lock in time.
FlushOneSkips(t) ==
  /\ pc[t] = "flush"
  /\ pc' = [pc EXCEPT ![t] = "done"]
  /\ UNCHANGED <<data, known, wbuf, sync, batch, disk, lock, job, faults, restarts, used, prom>>

\* A long log: _merge_from_disk adds what only the disk has, then save starts.
\* insert, update and delete come here outside batch mode, delete_many always.
FlushOneSaves(t) ==
  /\ pc[t] = "flush"
  /\ batch => job[t].op = "delete_many"
  /\ Len(wal) >= Threshold \/ torn
  /\ StoreFree
  /\ LET found == LoadAt(Len(wal))
         merged == [k \in Key |-> IF data[k] = NoRec THEN found[k] ELSE data[k]]
     IN /\ data' = merged
        /\ job' = [job EXCEPT ![t].img = merged]
  /\ pc' = [pc EXCEPT ![t] = "replace"]
  /\ UNCHANGED <<known, wbuf, sync, batch, disk, lock, faults, restarts, used, prom>>

\* checkpoint() and close(): _flush_all under the lock.
Checkpoint(t) ==
  /\ \E o \in {"checkpoint", "close"} \cap Ops :
       /\ Enter(t)
       /\ job' = [job EXCEPT ![t].op = o]
       /\ pc' = [pc EXCEPT ![t] = "encode"]
  /\ UNCHANGED <<data, known, wbuf, sync, batch, disk, faults, restarts, used, prom>>

\* flush() and snapshot(): _flush_all without it.
Snapshot(t) ==
  /\ "snapshot" \in Ops
  /\ pc[t] = "idle"
  /\ job' = [job EXCEPT ![t].op = "snapshot"]
  /\ pc' = [pc EXCEPT ![t] = "encode"]
  /\ UNCHANGED <<data, known, wbuf, sync, batch, disk, lock, faults, restarts, used, prom>>

\* save: the records are encoded ...
Encode(t) ==
  /\ pc[t] = "encode" /\ known
  /\ StoreFree
  /\ job' = [job EXCEPT ![t].img = data]
  /\ pc' = [pc EXCEPT ![t] = "replace"]
  /\ UNCHANGED <<data, known, wbuf, sync, batch, disk, lock, faults, restarts, used, prom>>

\* ... but _flush_all saves only collections in memory.
NothingToSave(t) ==
  /\ pc[t] = "encode" /\ ~known
  /\ pc' = [pc EXCEPT ![t] = "done"]
  /\ UNCHANGED <<data, known, wbuf, sync, batch, disk, lock, job, faults, restarts, used, prom>>

\* ... written to a .tmp file, fsynced, moved over the .rdb file ...
Replace(t) ==
  /\ pc[t] = "replace"
  /\ snap' = job[t].img
  /\ hasSnap' = TRUE
  /\ pc' = [pc EXCEPT ![t] = "rotate"]
  /\ UNCHANGED <<data, known, wbuf, sync, batch, wal, synced, torn, lock, job, faults,
                 restarts, used, prom>>

\* ... or an I/O error makes save return False, which no caller looks at ...
SaveFails(t) ==
  /\ pc[t] = "replace"
  /\ "save" \in Faults /\ faults < MaxFaults
  /\ faults' = faults + 1
  /\ pc' = [pc EXCEPT ![t] = "done"]
  /\ UNCHANGED <<data, known, wbuf, sync, batch, disk, lock, job, restarts, used, prom>>

\* Mutant: rotate leaves the buffer for the new log.
RotateKeepsBuffer(t) ==
  /\ pc[t] = "rotate"
  /\ pc' = [pc EXCEPT ![t] = "remove"]
  /\ UNCHANGED <<data, known, wbuf, sync, batch, disk, lock, job, faults, restarts, used,
                 prom>>

\* ... then rotate: the buffer goes to the old log ...
RotateFlush(t) ==
  /\ pc[t] = "rotate"
  /\ FlushBuffer(wbuf)
  /\ pc' = [pc EXCEPT ![t] = "remove"]
  /\ UNCHANGED <<data, known, sync, batch, snap, hasSnap, torn, lock, job, faults, restarts,
                 used, prom>>

\* Mutant: the count of fsynced records is not reset with the log.
RotateKeepsSynced(t) ==
  /\ pc[t] = "remove"
  /\ wal' = <<>> /\ torn' = FALSE
  /\ pc' = [pc EXCEPT ![t] = "done"]
  /\ UNCHANGED <<data, known, wbuf, sync, batch, snap, hasSnap, synced, lock, job, faults,
                 restarts, used, prom>>

\* ... which is removed and opened anew.
RotateRemove(t) ==
  /\ pc[t] = "remove"
  /\ wal' = <<>> /\ synced' = 0 /\ torn' = FALSE
  /\ pc' = [pc EXCEPT ![t] = "done"]
  /\ UNCHANGED <<data, known, wbuf, sync, batch, snap, hasSnap, lock, job, faults, restarts,
                 used, prom>>

\* What a returning call tells its caller is on the disk: flush, snapshot,
\* checkpoint and end_batch promise the records they saved.
Promised(t) ==
  [k \in Key |-> IF known /\ job[t].op \in {"checkpoint", "snapshot", "batch"}
                          /\ job[t].img[k] = data[k]
                   THEN data[k] ELSE prom[k]]

Return(t) ==
  /\ pc[t] = "done" /\ job[t].op # "close"
  /\ prom' = Promised(t)
  /\ lock' = IF lock = t THEN NoThread ELSE lock
  /\ pc' = [pc EXCEPT ![t] = "idle"]
  /\ job' = [job EXCEPT ![t] = Idle]
  /\ UNCHANGED <<data, known, wbuf, sync, batch, disk, faults, restarts, used>>

-----------------------------------------------------------------------------
(* Batch mode: no lock.                                                    *)

BeginBatch(t) ==
  /\ "batch" \in Ops
  /\ pc[t] = "idle" /\ ~batch
  /\ batch' = TRUE
  /\ sync' = FALSE
  /\ UNCHANGED <<data, known, wbuf, disk, lock, pc, job, faults, restarts, used, prom>>

EndBatch(t) ==
  /\ pc[t] = "idle" /\ batch
  /\ batch' = FALSE
  /\ job' = [job EXCEPT ![t].op = "batch"]
  /\ pc' = [pc EXCEPT ![t] = "endsync"]
  /\ UNCHANGED <<data, known, wbuf, sync, disk, lock, faults, restarts, used, prom>>

\* flush_all_wal: the second WAL.flush (line 169) replaces the first: it syncs
\* the file and leaves the buffer alone.  Then fsync per write is on again.
EndBatchSync(t) ==
  /\ pc[t] = "endsync"
  /\ synced' = Len(wal)
  /\ sync' = TRUE
  /\ pc' = [pc EXCEPT ![t] = "encode"]
  /\ UNCHANGED <<data, known, wbuf, batch, snap, hasSnap, wal, torn, lock, job, faults,
                 restarts, used, prom>>

-----------------------------------------------------------------------------
(* drop_collection: memory, then the .rdb file, then the .wal file.        *)

Drop(t) ==
  /\ "drop" \in Ops /\ known
  /\ Enter(t)
  /\ data' = Empty /\ known' = FALSE
  /\ job' = [job EXCEPT ![t].op = "drop"]
  /\ pc' = [pc EXCEPT ![t] = "dropsnap"]
  /\ prom' = [k \in Key |-> NoPromise]
  /\ UNCHANGED <<wbuf, sync, batch, disk, faults, restarts, used>>

\* The log is closed (its buffer written and synced), then the .rdb removed.
DropSnap(t) ==
  /\ pc[t] = "dropsnap" /\ StoreFree
  /\ wal' = (IF torn THEN wal ELSE wal \o wbuf)
  /\ synced' = Len(wal')
  /\ wbuf' = <<>>
  /\ snap' = Empty /\ hasSnap' = FALSE
  /\ pc' = [pc EXCEPT ![t] = "dropwal"]
  /\ UNCHANGED <<data, known, sync, batch, torn, lock, job, faults, restarts, used, prom>>

\* Mutant: the .wal file is left behind.
DropKeepsWal(t) ==
  /\ pc[t] = "dropwal" /\ StoreFree
  /\ pc' = [pc EXCEPT ![t] = "done"]
  /\ prom' = Empty
  /\ UNCHANGED <<data, known, wbuf, sync, batch, disk, lock, job, faults, restarts, used>>

DropWal(t) ==
  /\ pc[t] = "dropwal" /\ StoreFree
  /\ wal' = <<>> /\ synced' = 0 /\ torn' = FALSE
  /\ pc' = [pc EXCEPT ![t] = "done"]
  /\ prom' = Empty
  /\ UNCHANGED <<data, known, wbuf, sync, batch, snap, hasSnap, lock, job, faults, restarts,
                 used>>

-----------------------------------------------------------------------------
(* The end of the process and the start of the next one (_load_all).       *)

Restart ==
  /\ restarts < MaxRestarts
  /\ restarts' = restarts + 1
  /\ data' = IF hasSnap THEN ApplyWal(snap, wal') ELSE Empty
  /\ known' = hasSnap
  /\ wbuf' = <<>> /\ sync' = TRUE /\ batch' = FALSE
  /\ lock' = NoThread
  /\ pc' = [t \in Thread |-> "idle"]
  /\ job' = [t \in Thread |-> Idle]

\* close_all writes the buffer behind the log and syncs it.
CloseAll(t) ==
  /\ pc[t] = "done" /\ job[t].op = "close"
  /\ wal' = IF torn THEN wal ELSE wal \o wbuf
  /\ synced' = Len(wal')
  /\ prom' = [k \in Key |-> IF known THEN data[k] ELSE prom[k]]
  /\ Restart
  /\ UNCHANGED <<snap, hasSnap, torn, faults, used>>

\* A crash keeps at least the fsynced part of the log.  A record being written
\* may stay behind incomplete; nothing cuts it off later.
BeingWritten(n) ==
  \/ n < Len(wal)
  \/ \E t \in Thread : (pc[t] = "log" /\ sync) \/ (pc[t] = "rotate" /\ wbuf # <<>>)

Crash ==
  \E n \in synced..Len(wal) :
    /\ wal' = SubSeq(wal, 1, n)
    /\ \E tear \in (IF BeingWritten(n) /\ ~torn THEN MayFail("tear") ELSE {FALSE}) :
         /\ torn' = (torn \/ tear)
         /\ faults' = IF tear THEN faults + 1 ELSE faults
    /\ Restart
    /\ UNCHANGED <<snap, hasSnap, synced, used, prom>>

Client(t) == Insert(t) \/ Update(t) \/ Delete(t) \/ Log(t) \/ FlushOneSkips(t)
Save(t) == \/ FlushOneSaves(t) \/ Checkpoint(t) \/ Snapshot(t) \/ Encode(t)
           \/ NothingToSave(t) \/ Replace(t) \/ SaveFails(t)
           \/ RotateFlush(t) \/ RotateRemove(t) \/ Return(t)
Mode(t) == \/ BeginBatch(t) \/ EndBatch(t) \/ EndBatchSync(t)
           \/ Drop(t) \/ DropSnap(t) \/ DropWal(t) \/ CloseAll(t)

Next == (\E t \in Thread : Client(t) \/ Save(t) \/ Mode(t)) \/ Crash

Spec == Init /\ [][Next]_vars

-----------------------------------------------------------------------------
(* Properties                                                              *)

\* Two records, or their absence, with the same contents (versions apart).
SameContents(r, s) ==
  /\ r = NoRec <=> s = NoRec
  /\ r # NoRec => r.val = s.val

\* Whatever part of the unsynced log survives a crash now, the restart finds
\* every promised record with its contents (README.md:17, "automatic crash
\* recovery"): at every point of save and rotate, and in the middle of a call.
NoLostWrite ==
  \A k \in Key, n \in synced..Len(wal) :
    prom[k] \in Rec => SameContents(RecoveredAt(n)[k], prom[k])

\* A restart never brings back a record whose deletion, or whose collection's
\* drop, was promised.
NoResurrection ==
  \A k \in Key, n \in synced..Len(wal) :
    prom[k] = NoRec => RecoveredAt(n)[k] = NoRec

\* Replay counts the version of an updated record up once too often, but only
\* once: what a restart finds is the promised version or the next, so that a
\* compare-and-swap never sees an older one (binary_store.py:175).
VersionAtMostOneAhead ==
  \A k \in Key, n \in synced..Len(wal) :
    prom[k] \in Rec => RecoveredAt(n)[k].ver \in {prom[k].ver, prom[k].ver + 1}

\* The declarative replay is what the loop computes, on every log, replayed on the snapshot
\* it belongs to or on a newer one; and with it versions are at most one ahead.
ReplayExact ==
  /\ \A n \in synced..Len(wal) : LoadAt(n) = ApplyLoop(snap, ReadAll(n))
  /\ VersionAtMostOneAhead

\* _merge_from_disk adds "records we don't know about" (engine.py:318): while the
\* process runs, no record it has had and deleted comes back into memory.
MergeAddsOnlyUnknown ==
  [][restarts' = restarts =>
       \A k \in used : data[k] = NoRec => data'[k] = NoRec]_vars

\* When nobody is in a call and the process is not in batch mode, the files
\* alone give back exactly the contents in memory.
QuietDiskIsMemory ==
  (\A t \in Thread : pc[t] = "idle") /\ sync
     => \A k \in Key : SameContents(RecoveredAt(Len(wal))[k], data[k])

\* The same in batch mode and when crashes cut the log anywhere: a promised write is lost
\* only where a crash has left an incomplete record behind (log.py:112), and then only as
\* long as no snapshot has removed it or after the next restart, which reads the log up to
\* it; the same record is what brings deleted records back.
PromisesKept ==
  /\ ~torn /\ restarts <= 1 => NoLostWrite
  /\ ~torn => QuietDiskIsMemory
  /\ faults = 0 => NoLostWrite /\ NoResurrection
=============================================================================
