------------------------ MODULE SharedDirectoryProofs ------------------------
(***************************************************************************)
(* Several processes in one data directory keep what a snapshot has held,  *)
(* for any processes, ids, threshold and bounds, as long as no process     *)
(* that shares the directory saves without the file lock.                  *)
(*                                                                         *)
(* SavedStays is not inductive: a snapshot is made of what a process has   *)
(* in memory, read or written to the temporary file some steps before.     *)
(* The strengthening follows the ids that have to last through these       *)
(* steps: under the file lock nobody else moves them (LockInv), and a      *)
(* process that is alone has them in memory since it loaded (AloneInv).    *)
(***************************************************************************)
EXTENDS SharedDirectory, SequenceTheorems, TLAPS

\* What must be in the snapshot.
Lasting == saved \ deleted

Locked(p) == \/ pc[p] \in {"load_snap", "load_log", "merge_snap", "merge_log"}
             \/ pc[p] \in {"write", "replace", "remove", "open"} /\ job[p] = "one"

LockInv == \A p \in Proc : /\ Locked(p) <=> lock = p
                           /\ pc[p] \in {"merge_snap", "merge_log"} => job[p] = "one"
AloneInv == \A p \in alone : pc[p] # "down" => \A q \in Proc : q # p => pc[q] = "down"
LogInv == \A i \in DOMAIN log : log[i].op = "delete" => log[i].key \in deleted
FilesInv == /\ ~hasSnap => saved = {}
            /\ ~crossed => Lasting \subseteq snap /\ (tmp # None => Lasting \subseteq tmp)

Loading == {"down", "wait", "load_snap", "load_log"}
ProcInv(p) ==
  ~crossed =>
    /\ pc[p] \in {"load_log", "merge_log"} => Lasting \subseteq read[p]
    /\ pc[p] = "write" /\ job[p] = "one" => Lasting \subseteq mem[p]
    /\ p \in alone /\ pc[p] \notin Loading => Lasting \subseteq mem[p]
    /\ p \in alone /\ pc[p] = "replace" => tmp = mem[p]

DirInv == TypeOK /\ LockInv /\ AloneInv /\ LogInv /\ FilesInv /\ \A p \in Proc : ProcInv(p)

-----------------------------------------------------------------------------
LEMMA DirInvInit == ASSUME None \notin Proc, Init PROVE DirInv
<1>1. TypeOK
  <2>1. log \in Seq(Entry)
    BY EmptySeq DEF Init
  <2>2. /\ mem \in [Proc -> SUBSET Key] /\ read \in [Proc -> SUBSET Key]
        /\ handle \in [Proc -> {"none", "unopened", "log", "gone"}]
        /\ pc \in [Proc -> Pcs] /\ job \in [Proc -> {"one", "checkpoint", "close"}]
    BY DEF Init, Pcs
  <2>3. hasSnap \in BOOLEAN /\ crossed \in BOOLEAN
    BY DEF Init
  <2>4. /\ snap = {} /\ tmp = None /\ lock = None
        /\ used = {} /\ saved = {} /\ deleted = {} /\ alone = {}
    BY DEF Init
  <2> QED BY <2>1, <2>2, <2>3, <2>4 DEF TypeOK
<1>2. LogInv
  BY EmptySeq DEF Init, LogInv
<1>3. LockInv /\ AloneInv
  BY DEF Init, LockInv, Locked, AloneInv
<1>4. FilesInv /\ \A p \in Proc : ProcInv(p)
  BY DEF Init, FilesInv, ProcInv, Lasting, Loading
<1> QED BY <1>1, <1>2, <1>3, <1>4 DEF DirInv

LEMMA NamedAreKeys == ASSUME TypeOK PROVE Named \subseteq Key
<1> SUFFICES ASSUME NEW i \in DOMAIN log PROVE log[i].key \in Key
  BY DEF Named
<1>1. log[i] \in Entry
  BY ElementOfSeq, LenProperties DEF TypeOK
<1> QED BY <1>1 DEF Entry

\* What the loop of _apply_wal does to ids that are in the snapshot and were never deleted.
LEMMA ReadKeeps ==
  ASSUME DirInv, NEW ids \in SUBSET Key, Lasting \subseteq ids
  PROVE  ReadAll(ids) \in SUBSET Key /\ Lasting \subseteq ReadAll(ids)
<1>1. Named \subseteq Key
  BY NamedAreKeys DEF DirInv
<1>2. DeletedLast \subseteq deleted
  BY DEF DirInv, LogInv, DeletedLast
<1> QED BY <1>1, <1>2 DEF ReadAll, Lasting

LEMMA StartStep ==
  ASSUME None \notin Proc, DirInv, NEW p \in Proc, Start(p) PROVE DirInv'
<1> USE DEF DirInv, Start, Goto, files, ghosts
<1>1. TypeOK'
  BY DEF TypeOK, Pcs
<1>2. LockInv'
  BY DEF LockInv, Locked, TypeOK
<1>3. AloneInv'
  BY DEF AloneInv, Up, TypeOK
<1>4. LogInv' /\ FilesInv'
  BY DEF LogInv, FilesInv, Lasting
<1>5. \A q \in Proc : ProcInv(q)'
  BY DEF ProcInv, FilesInv, Lasting, Loading, Up, TypeOK
<1> QED BY <1>1, <1>2, <1>3, <1>4, <1>5

LEMMA LoadLockStep ==
  ASSUME None \notin Proc, DirInv, NEW p \in Proc, LoadLock(p) PROVE DirInv'
<1> USE DEF DirInv, LoadLock, Goto, files, ghosts
<1>1. TypeOK'
  BY DEF TypeOK, Pcs
<1>2. LockInv'
  BY DEF LockInv, Locked, TypeOK
<1>3. AloneInv'
  BY DEF AloneInv, TypeOK
<1>4. LogInv' /\ FilesInv'
  BY DEF LogInv, FilesInv, Lasting
<1>5. \A q \in Proc : ProcInv(q)'
  BY DEF ProcInv, Lasting, Loading, TypeOK
<1> QED BY <1>1, <1>2, <1>3, <1>4, <1>5

\* A process that is alone finds the lock free.
LEMMA LoadGivesUpStep ==
  ASSUME None \notin Proc, DirInv, NEW p \in Proc, LoadGivesUp(p) PROVE DirInv'
<1> USE DEF DirInv, LoadGivesUp, Goto, files, ghosts
<1>1. TypeOK'
  BY DEF TypeOK, Pcs
<1>2. LockInv'
  BY DEF LockInv, Locked, TypeOK
<1>3. AloneInv'
  BY DEF AloneInv, TypeOK
<1>4. LogInv' /\ FilesInv'
  BY DEF LogInv, FilesInv, Lasting
<1>5. p \notin alone
  BY DEF AloneInv, LockInv, Locked, TypeOK
<1>6. \A q \in Proc : ProcInv(q)'
  BY <1>5 DEF ProcInv, Lasting, Loading, TypeOK
<1> QED BY <1>1, <1>2, <1>3, <1>4, <1>6

LEMMA ReadSnapStep ==
  ASSUME None \notin Proc, DirInv, NEW p \in Proc, ReadSnap(p) PROVE DirInv'
<1> USE DEF DirInv, ReadSnap, Goto, files, ghosts
<1>1. TypeOK'
  BY DEF TypeOK, Pcs
<1>2. LockInv'
  BY DEF LockInv, Locked, TypeOK
<1>3. AloneInv'
  BY DEF AloneInv, TypeOK
<1>4. LogInv' /\ FilesInv'
  BY DEF LogInv, FilesInv, Lasting
<1>5. \A q \in Proc : ProcInv(q)'
  BY DEF ProcInv, FilesInv, Lasting, Loading, TypeOK
<1> QED BY <1>1, <1>2, <1>3, <1>4, <1>5

LEMMA LoadLogStep ==
  ASSUME None \notin Proc, DirInv, NEW p \in Proc, LoadLog(p) PROVE DirInv'
<1> USE DEF DirInv, LoadLog, Goto, files, ghosts
<1>1. ReadAll(read[p]) \in SUBSET Key
  BY NamedAreKeys DEF TypeOK, ReadAll
<1>2. TypeOK'
  BY <1>1 DEF TypeOK, Pcs
<1>3. LockInv'
  BY DEF LockInv, Locked, TypeOK
<1>4. AloneInv'
  BY DEF AloneInv, TypeOK
<1>5. LogInv' /\ FilesInv'
  BY DEF LogInv, FilesInv, Lasting
<1>6. ~crossed => Lasting \subseteq ReadAll(read[p])
  BY ReadKeeps DEF ProcInv, TypeOK
<1>7. \A q \in Proc : ProcInv(q)'
  BY <1>6 DEF ProcInv, Lasting, Loading, TypeOK
<1> QED BY <1>2, <1>3, <1>4, <1>5, <1>7

LEMMA FlushSkipsStep ==
  ASSUME None \notin Proc, DirInv, NEW p \in Proc, FlushSkips(p) PROVE DirInv'
<1> USE DEF DirInv, FlushSkips, Goto, files, ghosts
<1>1. TypeOK'
  BY DEF TypeOK, Pcs
<1>2. LockInv'
  BY DEF LockInv, Locked, TypeOK
<1>3. AloneInv'
  BY DEF AloneInv, TypeOK
<1>4. LogInv'
  BY DEF LogInv
<1>5. FilesInv'
  BY DEF FilesInv, Lasting
<1>6. \A q \in Proc : ProcInv(q)'
  BY DEF ProcInv, Lasting, Loading, TypeOK
<1> QED BY <1>1, <1>2, <1>3, <1>4, <1>5, <1>6

LEMMA FlushLocksStep ==
  ASSUME None \notin Proc, DirInv, NEW p \in Proc, FlushLocks(p) PROVE DirInv'
<1> USE DEF DirInv, FlushLocks, Goto, files, ghosts
<1>1. TypeOK'
  BY DEF TypeOK, Pcs
<1>2. LockInv'
  BY DEF LockInv, Locked, TypeOK
<1>3. AloneInv'
  BY DEF AloneInv, TypeOK
<1>4. LogInv'
  BY DEF LogInv
<1>5. FilesInv'
  BY DEF FilesInv, Lasting
<1>6. \A q \in Proc : ProcInv(q)'
  BY DEF ProcInv, Lasting, Loading, TypeOK
<1> QED BY <1>1, <1>2, <1>3, <1>4, <1>5, <1>6

\* A merge brings everything that has to last into memory.
LEMMA MergeLogStep ==
  ASSUME None \notin Proc, DirInv, NEW p \in Proc, MergeLog(p) PROVE DirInv'
<1> USE DEF DirInv, MergeLog, Goto, files, ghosts
<1>1. ReadAll(read[p]) \in SUBSET Key
  BY NamedAreKeys DEF TypeOK, ReadAll
<1>2. ~crossed => Lasting \subseteq ReadAll(read[p])
  BY ReadKeeps DEF ProcInv, TypeOK
<1>3. TypeOK'
  BY <1>1 DEF TypeOK, Pcs
<1>4. LockInv'
  BY DEF LockInv, Locked, TypeOK
<1>5. AloneInv'
  BY DEF AloneInv, TypeOK
<1>6. LogInv'
  BY DEF LogInv
<1>7. FilesInv'
  BY DEF FilesInv, Lasting
<1>8. \A q \in Proc : ProcInv(q)'
  BY <1>2 DEF ProcInv, Lasting, Loading, TypeOK
<1> QED BY <1>3, <1>4, <1>5, <1>6, <1>7, <1>8

LEMMA FlushAllStep ==
  ASSUME None \notin Proc, DirInv, NEW p \in Proc, FlushAll(p) PROVE DirInv'
<1> USE DEF DirInv, FlushAll, Goto, files, ghosts
<1>1. TypeOK'
  BY DEF TypeOK, Pcs
<1>2. LockInv'
  BY DEF LockInv, Locked, TypeOK
<1>3. AloneInv'
  BY DEF AloneInv, TypeOK
<1>4. LogInv'
  BY DEF LogInv
<1>5. FilesInv'
  BY DEF FilesInv, Lasting
<1>6. \A q \in Proc : ProcInv(q)'
  BY DEF ProcInv, Lasting, Loading, TypeOK
<1> QED BY <1>1, <1>2, <1>3, <1>4, <1>5, <1>6

\* The temporary file is made of memory, which a merge or being alone has made complete.
LEMMA WriteTmpStep ==
  ASSUME None \notin Proc, DirInv, NEW p \in Proc, WriteTmp(p) PROVE DirInv'
<1> USE DEF DirInv, WriteTmp, Crossing, Goto, files, ghosts
<1>1. ~crossed' => ~crossed /\ Lasting \subseteq mem[p]
  BY DEF ProcInv, Loading, TypeOK
<1>2. TypeOK'
  BY DEF TypeOK, Pcs
<1>3. LockInv'
  BY DEF LockInv, Locked, TypeOK
<1>4. AloneInv'
  BY DEF AloneInv, TypeOK
<1>5. LogInv'
  BY DEF LogInv
<1>6. FilesInv'
  BY <1>1 DEF FilesInv, Lasting
<1>7. \A q \in Proc : ProcInv(q)'
  BY <1>1 DEF ProcInv, AloneInv, Lasting, Loading, TypeOK
<1> QED BY <1>2, <1>3, <1>4, <1>5, <1>6, <1>7

\* What becomes the snapshot is the temporary file: it has all that lasts, and a process that
\* is alone has it in memory.
LEMMA ReplaceStep ==
  ASSUME None \notin Proc, DirInv, NEW p \in Proc, Replace(p) PROVE DirInv'
<1> USE DEF DirInv, Replace, Crossing, Goto, files, ghosts
<1>1. ~crossed' => /\ ~crossed /\ Lasting \subseteq tmp
                   /\ job[p] = "one" \/ p \in alone
  BY DEF FilesInv
<1>2. TypeOK'
  BY DEF TypeOK, Pcs
<1>3. LockInv'
  BY DEF LockInv, Locked, TypeOK
<1>4. AloneInv'
  BY DEF AloneInv, TypeOK
<1>5. LogInv'
  BY DEF LogInv
<1>6. FilesInv'
  BY <1>1 DEF FilesInv, Lasting
<1>7. \A q \in Proc : ProcInv(q)'
  BY <1>1 DEF ProcInv, AloneInv, LockInv, Locked, Lasting, Loading, TypeOK
<1> QED BY <1>2, <1>3, <1>4, <1>5, <1>6, <1>7

LEMMA ReplaceFailsStep ==
  ASSUME None \notin Proc, DirInv, NEW p \in Proc, ReplaceFails(p) PROVE DirInv'
<1> USE DEF DirInv, ReplaceFails, AfterSave, Goto, files, ghosts
<1>1. TypeOK'
  BY DEF TypeOK, Pcs
<1>2. LockInv'
  BY DEF LockInv, Locked, TypeOK
<1>3. AloneInv'
  BY DEF AloneInv, TypeOK
<1>4. LogInv'
  BY DEF LogInv
<1>5. FilesInv'
  BY DEF FilesInv, Lasting
<1>6. \A q \in Proc : ProcInv(q)'
  BY DEF ProcInv, Lasting, Loading, TypeOK
<1> QED BY <1>1, <1>2, <1>3, <1>4, <1>5, <1>6

LEMMA RotateRemoveStep ==
  ASSUME None \notin Proc, DirInv, NEW p \in Proc, RotateRemove(p) PROVE DirInv'
<1> USE DEF DirInv, RotateRemove, Goto, files, ghosts
<1>1. log' \in Seq(Entry) /\ DOMAIN log' = {}
  BY EmptySeq
<1>2. TypeOK'
  BY <1>1 DEF TypeOK, Pcs
<1>3. LockInv'
  BY DEF LockInv, Locked, TypeOK
<1>4. AloneInv'
  BY DEF AloneInv, TypeOK
<1>5. LogInv'
  BY <1>1 DEF LogInv
<1>6. FilesInv'
  BY DEF FilesInv, Lasting
<1>7. \A q \in Proc : ProcInv(q)'
  BY DEF ProcInv, Lasting, Loading, TypeOK
<1> QED BY <1>2, <1>3, <1>4, <1>5, <1>6, <1>7

LEMMA RotateOpenStep ==
  ASSUME None \notin Proc, DirInv, NEW p \in Proc, RotateOpen(p) PROVE DirInv'
<1> USE DEF DirInv, RotateOpen, AfterSave, Goto, files, ghosts
<1>1. TypeOK'
  BY DEF TypeOK, Pcs
<1>2. LockInv'
  BY DEF LockInv, Locked, TypeOK
<1>3. AloneInv'
  BY DEF AloneInv, TypeOK
<1>4. LogInv'
  BY DEF LogInv
<1>5. FilesInv'
  BY DEF FilesInv, Lasting
<1>6. \A q \in Proc : ProcInv(q)'
  BY DEF ProcInv, Lasting, Loading, TypeOK
<1> QED BY <1>1, <1>2, <1>3, <1>4, <1>5, <1>6

LEMMA DieStep ==
  ASSUME None \notin Proc, DirInv, NEW p \in Proc, Die(p) PROVE DirInv'
<1> USE DEF DirInv, Die, Goto, files, ghosts
<1>1. TypeOK'
  BY DEF TypeOK, Pcs
<1>2. LockInv'
  BY DEF LockInv, Locked, TypeOK
<1>3. AloneInv'
  BY DEF AloneInv, TypeOK
<1>4. LogInv'
  BY DEF LogInv
<1>5. FilesInv'
  BY DEF FilesInv, Lasting
<1>6. \A q \in Proc : ProcInv(q)'
  BY DEF ProcInv, Lasting, Loading, TypeOK
<1> QED BY <1>1, <1>2, <1>3, <1>4, <1>5, <1>6

\* The change of memory and the log record of a write.
LEMMA AppendType ==
  ASSUME DirInv, NEW p, NEW op \in {"insert", "update", "delete"}, NEW k \in Key,
         AppendWal(p, op, k)
  PROVE  /\ log' \in Seq(Entry)
         /\ \A i \in DOMAIN log' : log'[i] = [op |-> op, key |-> k] \/ (i \in DOMAIN log /\ log'[i] = log[i])
<1>1. [op |-> op, key |-> k] \in Entry /\ log \in Seq(Entry)
  BY DEF Entry, DirInv, TypeOK
<1>2. CASE handle[p] = "gone"
  BY <1>1, <1>2 DEF AppendWal
<1>3. CASE handle[p] # "gone"
  <2>1. log' = Append(log, [op |-> op, key |-> k])
    BY <1>3 DEF AppendWal
  <2> QED BY <1>1, <2>1, AppendProperties, LenProperties
<1> QED BY <1>2, <1>3

LEMMA WriteStep ==
  ASSUME None \notin Proc, DirInv, NEW p \in Proc, NEW op \in {"insert", "update", "delete"},
         NEW k \in Key, pc[p] = "idle", AppendWal(p, op, k), UNCHANGED <<saved, alone, crossed>>,
         used' \subseteq Key,
         \/ op # "delete" /\ deleted' = deleted /\ mem' = [mem EXCEPT ![p] = @ \cup {k}]
         \/ op # "delete" /\ deleted' = deleted /\ mem' = mem
         \/ op = "delete" /\ deleted' = deleted \cup {k} /\ mem' = [mem EXCEPT ![p] = @ \ {k}]
  PROVE  DirInv'
<1> USE DEF DirInv
<1>1. /\ pc' = [pc EXCEPT ![p] = "flush"]
      /\ handle' = [handle EXCEPT ![p] = IF @ = "gone" THEN "gone" ELSE "log"]
      /\ UNCHANGED <<snap, hasSnap, tmp, lock, job, read>>
  BY DEF AppendWal, Goto
<1>2. /\ log' \in Seq(Entry)
      /\ \A i \in DOMAIN log' : log'[i] = [op |-> op, key |-> k] \/ (i \in DOMAIN log /\ log'[i] = log[i])
  BY AppendType
<1>3. TypeOK'
  BY <1>1, <1>2 DEF TypeOK, Pcs
<1>4. LockInv'
  BY <1>1 DEF LockInv, Locked, TypeOK
<1>5. AloneInv'
  BY <1>1 DEF AloneInv, TypeOK
<1>6. LogInv'
  BY <1>2 DEF LogInv
<1>7. FilesInv'
  BY <1>1 DEF FilesInv, Lasting
<1>8. \A q \in Proc : ProcInv(q)'
  BY <1>1 DEF ProcInv, Lasting, Loading, TypeOK
<1> QED BY <1>3, <1>4, <1>5, <1>6, <1>7, <1>8

LEMMA KeyStep ==
  ASSUME None \notin Proc, DirInv, NEW p \in Proc, NEW k \in Key,
         Insert(p, k) \/ Update(p, k) \/ Delete(p, k)
  PROVE  DirInv'
<1>1. used \subseteq Key
  BY DEF DirInv, TypeOK
<1>2. CASE Insert(p, k)
  BY <1>1, <1>2, WriteStep DEF Insert
<1>3. CASE Update(p, k)
  BY <1>1, <1>3, WriteStep DEF Update, ghosts
<1>4. CASE Delete(p, k)
  BY <1>1, <1>4, WriteStep DEF Delete
<1> QED BY <1>2, <1>3, <1>4

-----------------------------------------------------------------------------
LEMMA DirInvStutter == ASSUME DirInv, UNCHANGED vars PROVE DirInv'
<1> USE DEF DirInv, vars, files, ghosts
<1>1. TypeOK' /\ LockInv' /\ AloneInv'
  BY DEF TypeOK, LockInv, Locked, AloneInv
<1>2. LogInv' /\ FilesInv' /\ \A p \in Proc : ProcInv(p)'
  BY DEF LogInv, FilesInv, ProcInv, Lasting
<1> QED BY <1>1, <1>2

LEMMA DirInvNext == ASSUME None \notin Proc, DirInv, [Next]_vars PROVE DirInv'
<1>1. ASSUME NEW p \in Proc, Step(p) PROVE DirInv'
  BY <1>1, StartStep, LoadLockStep, LoadGivesUpStep, ReadSnapStep, LoadLogStep, KeyStep,
     FlushSkipsStep, FlushLocksStep, MergeLogStep, FlushAllStep, WriteTmpStep, ReplaceStep,
     ReplaceFailsStep, RotateRemoveStep, RotateOpenStep, DieStep DEF Step
<1> QED BY <1>1, DirInvStutter DEF Next

\* The inductive invariant, for any number of processes and ids.
THEOREM DirInvAlways == ASSUME None \notin Proc PROVE Spec => []DirInv
<1>1. Init => DirInv
  BY DirInvInit
<1>2. DirInv /\ [Next]_vars => DirInv'
  BY DirInvNext
<1> QED BY <1>1, <1>2, PTL DEF Spec

\* Files, memories and program counters keep their types.
THEOREM TypeCorrect == ASSUME None \notin Proc PROVE Spec => []TypeOK
<1>1. DirInv => TypeOK
  BY DEF DirInv
<1> QED BY <1>1, DirInvAlways, PTL

\* A record some snapshot has held and nobody has deleted is in the snapshot, whatever
\* starts, gives up loading, dies or saves under the file lock (_flush_one and
\* _merge_from_disk, engine.py:271-321).
THEOREM SnapshotsLast == ASSUME None \notin Proc PROVE Spec => []SavedStays
<1>1. DirInv => SavedStays
  BY DEF DirInv, FilesInv, Lasting, SavedStays
<1> QED BY <1>1, DirInvAlways, PTL
=============================================================================
