-------------------------- MODULE SharedDirectory --------------------------
(***************************************************************************)
(* Several processes with one collection in one data directory             *)
(* (core/engine.py and storage/binary_store.py).  Each has its own copy of *)
(* the records and its own open log file; snapshot and log are found by    *)
(* name.  A snapshot after a large log is taken with the file lock and     *)
(* merges what others have written; checkpoint and close take no lock and  *)
(* merge nothing.  A record is its id: whether it is there is all that is  *)
(* told apart.  Log records are written through (sync mode), and the       *)
(* temporary file of a snapshot is written in one step.                    *)
(***************************************************************************)
EXTENDS Naturals, Sequences, FiniteSets

CONSTANTS Proc, Key, None,
          Threshold,        \* log records from which a write takes a snapshot
          MaxLog, MaxStarts \* bounds: records of the log, starts of a process

VARIABLES mem,              \* what a process has in memory
          handle,           \* its log file: "log" (the one found by name), "gone" (removed by
                            \* another process), "unopened", "none" (no collection yet)
          snap, hasSnap, tmp, log,
          lock,             \* holder of the file lock
          pc, job, read,    \* where a process is, why it saves, the snapshot it has read
          starts,
          \* For the property: ids ever inserted, ever in a snapshot, ever deleted; the
          \* processes that have been alone since their start; whether one that was not has
          \* saved without the lock.
          used, saved, deleted, alone, crossed
files == <<snap, hasSnap, tmp, log>>
ghosts == <<used, saved, deleted, alone, crossed>>
vars == <<mem, handle, files, lock, pc, job, read, starts, ghosts>>

Pcs == {"down", "wait", "load_snap", "load_log", "idle", "flush", "merge_snap", "merge_log",
        "write", "replace", "remove", "open"}
Entry == [op : {"insert", "update", "delete"}, key : Key]
TypeOK ==
  /\ mem \in [Proc -> SUBSET Key] /\ read \in [Proc -> SUBSET Key]
  /\ handle \in [Proc -> {"none", "unopened", "log", "gone"}]
  /\ snap \subseteq Key /\ hasSnap \in BOOLEAN /\ tmp \in (SUBSET Key) \cup {None}
  /\ log \in Seq(Entry)
  /\ lock \in Proc \cup {None}
  /\ pc \in [Proc -> Pcs] /\ job \in [Proc -> {"one", "checkpoint", "close"}]
  /\ used \subseteq Key /\ saved \subseteq Key /\ deleted \subseteq Key
  /\ alone \subseteq Proc /\ crossed \in BOOLEAN

Up == {p \in Proc : pc[p] # "down"}
Goto(p, l) == pc' = [pc EXCEPT ![p] = l]

\* A directory with nothing, or with the snapshot of an empty collection.
Init == /\ mem = [p \in Proc |-> {}] /\ handle = [p \in Proc |-> "none"]
        /\ snap = {} /\ hasSnap \in BOOLEAN /\ tmp = None /\ log = <<>> /\ lock = None
        /\ pc = [p \in Proc |-> "down"] /\ job = [p \in Proc |-> "one"]
        /\ read = [p \in Proc |-> {}] /\ starts = 0
        /\ used = {} /\ saved = {} /\ deleted = {} /\ alone = {} /\ crossed = FALSE

\* The loop of _apply_wal on the ids of a snapshot: an id is there afterwards if snapshot or
\* log name it, unless the last record of the log about it is a delete.
Named == {log[i].key : i \in DOMAIN log}
DeletedLast == {k \in Named : \E i \in DOMAIN log : /\ log[i] = [op |-> "delete", key |-> k]
                                                   /\ \A j \in DOMAIN log : j > i => log[j].key # k}
ReadAll(ids) == (ids \cup Named) \ DeletedLast

\* A collection without a snapshot is not loaded at all.
Start(p) ==
  /\ pc[p] = "down" /\ starts < MaxStarts /\ starts' = starts + 1
  /\ Goto(p, IF hasSnap THEN "wait" ELSE "idle")
  /\ alone' = IF Up = {} THEN {p} ELSE {}
  /\ UNCHANGED <<mem, handle, files, lock, job, read, used, saved, deleted, crossed>>

LoadLock(p) ==
  /\ pc[p] = "wait" /\ lock = None /\ lock' = p /\ Goto(p, "load_snap")
  /\ UNCHANGED <<mem, handle, files, job, read, starts, ghosts>>

\* The lock was not free for five seconds: the collection counts as empty.
LoadGivesUp(p) ==
  /\ pc[p] = "wait" /\ lock # None /\ Goto(p, "idle")
  /\ handle' = [handle EXCEPT ![p] = "unopened"]
  /\ UNCHANGED <<mem, files, lock, job, read, starts, ghosts>>

ReadSnap(p) ==
  /\ pc[p] \in {"load_snap", "merge_snap"} /\ read' = [read EXCEPT ![p] = snap]
  /\ Goto(p, IF pc[p] = "load_snap" THEN "load_log" ELSE "merge_log")
  /\ UNCHANGED <<mem, handle, files, lock, job, starts, ghosts>>

LoadLog(p) ==
  /\ pc[p] = "load_log" /\ mem' = [mem EXCEPT ![p] = ReadAll(read[p])]
  /\ handle' = [handle EXCEPT ![p] = "log"] /\ read' = [read EXCEPT ![p] = {}]
  /\ lock' = None /\ Goto(p, "idle")
  /\ UNCHANGED <<files, job, starts, ghosts>>

-----------------------------------------------------------------------------
\* A write, after the change of memory: it opens the log at the first use, and is lost to
\* the directory where another process has removed that file.
AppendWal(p, op, k) ==
  /\ log' = IF handle[p] = "gone" THEN log ELSE Append(log, [op |-> op, key |-> k])
  /\ handle' = [handle EXCEPT ![p] = IF @ = "gone" THEN "gone" ELSE "log"]
  /\ Goto(p, "flush") /\ UNCHANGED <<snap, hasSnap, tmp, lock, job, read, starts>>

Insert(p, k) ==
  /\ pc[p] = "idle" /\ Len(log) < MaxLog /\ k \notin used
  /\ used' = used \cup {k} /\ mem' = [mem EXCEPT ![p] = @ \cup {k}]
  /\ AppendWal(p, "insert", k) /\ UNCHANGED <<saved, deleted, alone, crossed>>

Update(p, k) ==
  /\ pc[p] = "idle" /\ Len(log) < MaxLog /\ k \in mem[p]
  /\ AppendWal(p, "update", k) /\ UNCHANGED <<mem, ghosts>>

Delete(p, k) ==
  /\ pc[p] = "idle" /\ Len(log) < MaxLog /\ k \in mem[p]
  /\ deleted' = deleted \cup {k} /\ mem' = [mem EXCEPT ![p] = @ \ {k}]
  /\ AppendWal(p, "delete", k) /\ UNCHANGED <<used, saved, alone, crossed>>

\* _flush_one: nothing to do below the threshold, or the lock is not to be had in time.
FlushSkips(p) ==
  /\ pc[p] = "flush" /\ (Len(log) < Threshold \/ lock # None) /\ Goto(p, "idle")
  /\ UNCHANGED <<mem, handle, files, lock, job, read, starts, ghosts>>

\* Mutant: the snapshot does not wait for the lock.
FlushUnlocked(p) ==
  /\ pc[p] = "flush" /\ Len(log) >= Threshold /\ lock' = p
  /\ job' = [job EXCEPT ![p] = "one"] /\ Goto(p, "merge_snap")
  /\ UNCHANGED <<mem, handle, files, read, starts, ghosts>>

FlushLocks(p) ==
  /\ pc[p] = "flush" /\ Len(log) >= Threshold /\ lock = None /\ lock' = p
  /\ job' = [job EXCEPT ![p] = "one"] /\ Goto(p, "merge_snap")
  /\ UNCHANGED <<mem, handle, files, read, starts, ghosts>>

\* Mutant: the disk is read and nothing taken from it.
MergeNothing(p) ==
  /\ pc[p] = "merge_log" /\ mem' = mem
  /\ read' = [read EXCEPT ![p] = {}] /\ Goto(p, "write")
  /\ UNCHANGED <<handle, files, lock, job, starts, ghosts>>

\* _merge_from_disk: the records of the disk that this process does not know.
MergeLog(p) ==
  /\ pc[p] = "merge_log" /\ mem' = [mem EXCEPT ![p] = @ \cup ReadAll(read[p])]
  /\ read' = [read EXCEPT ![p] = {}] /\ Goto(p, "write")
  /\ UNCHANGED <<handle, files, lock, job, starts, ghosts>>

\* checkpoint and close save what is in memory, without the file lock.
FlushAll(p) ==
  /\ pc[p] = "idle" /\ handle[p] # "none" /\ Goto(p, "write")
  /\ \E j \in {"checkpoint", "close"} : job' = [job EXCEPT ![p] = j]
  /\ UNCHANGED <<mem, handle, files, lock, read, starts, ghosts>>

Crossing(p) == crossed \/ (job[p] # "one" /\ p \notin alone)

WriteTmp(p) ==
  /\ pc[p] = "write" /\ tmp' = mem[p] /\ Goto(p, "replace") /\ crossed' = Crossing(p)
  /\ UNCHANGED <<mem, handle, snap, hasSnap, log, lock, job, read, starts,
                 used, saved, deleted, alone>>

\* What a process does after a save: it lets the lock go, or ends.
AfterSave(p) ==
  /\ IF job[p] = "one" /\ lock = p THEN lock' = None ELSE UNCHANGED lock
  /\ Goto(p, IF job[p] = "close" THEN "down" ELSE "idle")
  /\ IF job[p] = "close" THEN mem' = [mem EXCEPT ![p] = {}] ELSE UNCHANGED mem

Replace(p) ==
  /\ pc[p] = "replace" /\ tmp # None /\ Goto(p, "remove")
  /\ snap' = tmp /\ hasSnap' = TRUE /\ tmp' = None
  /\ saved' = saved \cup tmp /\ crossed' = Crossing(p)
  /\ UNCHANGED <<mem, handle, log, lock, job, read, starts, used, deleted, alone>>

\* Another process has renamed the temporary file: save returns False.
ReplaceFails(p) ==
  /\ pc[p] = "replace" /\ tmp = None /\ AfterSave(p)
  /\ handle' = [handle EXCEPT ![p] = IF job[p] = "close" THEN "none" ELSE @]
  /\ UNCHANGED <<files, job, read, starts, ghosts>>

\* The log goes, also from under the processes that have it open.
RotateRemove(p) ==
  /\ pc[p] = "remove" /\ log' = <<>> /\ Goto(p, "open")
  /\ handle' = [q \in Proc |-> IF handle[q] = "log" /\ q # p THEN "gone" ELSE handle[q]]
  /\ UNCHANGED <<mem, snap, hasSnap, tmp, lock, job, read, starts, ghosts>>

RotateOpen(p) ==
  /\ pc[p] = "open" /\ AfterSave(p)
  /\ handle' = [handle EXCEPT ![p] = IF job[p] = "close" THEN "none" ELSE "log"]
  /\ UNCHANGED <<files, job, read, starts, ghosts>>

\* A process dies; the kernel frees its lock.
Die(p) ==
  /\ pc[p] # "down" /\ Goto(p, "down")
  /\ mem' = [mem EXCEPT ![p] = {}] /\ handle' = [handle EXCEPT ![p] = "none"]
  /\ read' = [read EXCEPT ![p] = {}] /\ lock' = IF lock = p THEN None ELSE lock
  /\ UNCHANGED <<files, job, starts, ghosts>>

Step(p) == \/ Start(p) \/ LoadLock(p) \/ LoadGivesUp(p) \/ ReadSnap(p) \/ LoadLog(p)
           \/ \E k \in Key : Insert(p, k) \/ Update(p, k) \/ Delete(p, k)
           \/ FlushSkips(p) \/ FlushLocks(p) \/ MergeLog(p) \/ FlushAll(p)
           \/ WriteTmp(p) \/ Replace(p) \/ ReplaceFails(p) \/ RotateRemove(p) \/ RotateOpen(p)
           \/ Die(p)
Next == \E p \in Proc : Step(p)
Spec == Init /\ [][Next]_vars

-----------------------------------------------------------------------------
\* A record that some snapshot has held and nobody has deleted is in the snapshot, whatever
\* processes start, give up loading, die or save under the lock: only a checkpoint or close
\* of a process that shares the directory can take it away (_flush_one and _merge_from_disk
\* against _flush_all).
SavedStays == ~crossed => saved \ deleted \subseteq snap
=============================================================================
