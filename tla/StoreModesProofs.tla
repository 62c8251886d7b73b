-------------------------- MODULE StoreModesProofs --------------------------
(***************************************************************************)
(* The theorems about the store and about the shared directory, for the    *)
(* behaviours of StoreModes, which follow one of them.  D and S are the    *)
(* proofs for the instances that StoreModes runs; their steps are the      *)
(* steps of the instances, definition by definition.                       *)
(***************************************************************************)
EXTENDS StoreModes, DurableStoreProofs

D == INSTANCE DurableStoreProofs WITH
  Ops <- DropOps, Faults <- {}, MaxFaults <- 0, MaxRestarts <- DropRestarts,
  InitSnap <- FALSE

S == INSTANCE SharedDirectoryProofs WITH
  Threshold <- DirThreshold, MaxLog <- DirMaxLog, MaxStarts <- DirMaxStarts,
  snap <- dirSnap, hasSnap <- dirHasSnap, lock <- fileLock, pc <- procPc, job <- why,
  used <- inserted

\* The instance of a store with drops gets constants that DurableStore accepts.
LEMMA DropParameters ==
  /\ DropOps \subseteq D!AllOps /\ {} \subseteq D!AllFaults
  /\ /\ MaxVer \in Nat /\ Threshold \in Nat /\ BufMax \in Nat \ {0}
     /\ 0 \in Nat /\ DropRestarts \in Nat /\ FALSE \in BOOLEAN
  /\ NoThread \notin Thread
  /\ NoRec \notin D!Rec /\ NoPromise \notin D!Rec \cup {NoRec}
BY DropAssumption, BoundAssumption, SentinelAssumption, NoRecAssumption
   DEF D!AllOps, AllOps, D!Rec, Rec

-----------------------------------------------------------------------------
(* The same steps.                                                         *)

LEMMA SameDropInit == Dropped!Init = D!Init
BY DEF Dropped!Init, D!Init, Dropped!Empty, D!Empty, Dropped!Idle, D!Idle

LEMMA SameClient == ASSUME NEW t PROVE Dropped!Client(t) = D!Client(t)
BY DEF Dropped!Client, D!Client, Dropped!Enter, D!Enter, Dropped!Write, D!Write,
       Dropped!Insert, D!Insert, Dropped!Update, D!Update, Dropped!Delete, D!Delete,
       Dropped!Log, D!Log, Dropped!MayFail, D!MayFail, Dropped!AppendToFile, D!AppendToFile,
       Dropped!FlushBuffer, D!FlushBuffer, Dropped!FlushOneSkips, D!FlushOneSkips,
       Dropped!Empty, D!Empty, Dropped!disk, D!disk

LEMMA SameSave == ASSUME NEW t PROVE Dropped!Save(t) = D!Save(t)
BY DEF Dropped!Save, D!Save, Dropped!FlushOneSaves, D!FlushOneSaves, Dropped!StoreFree,
       D!StoreFree, Dropped!SavePcs, D!SavePcs, Dropped!LoadAt, D!LoadAt, Dropped!ReadAll,
       D!ReadAll, Dropped!ApplyWal, D!ApplyWal, Dropped!Touches, D!Touches, Dropped!Existed,
       Dropped!Max, D!Max, D!Existed, Dropped!Checkpoint, D!Checkpoint, Dropped!Enter, D!Enter,
       Dropped!Snapshot, D!Snapshot, Dropped!Encode, D!Encode, Dropped!NothingToSave,
       D!NothingToSave, Dropped!Replace, D!Replace, Dropped!SaveFails, D!SaveFails,
       Dropped!RotateFlush, D!RotateFlush, Dropped!FlushBuffer, D!FlushBuffer,
       Dropped!RotateRemove, D!RotateRemove, Dropped!Return, D!Return, Dropped!Promised,
       D!Promised, Dropped!Idle, D!Idle, Dropped!Empty, D!Empty, Dropped!disk, D!disk

LEMMA SameMode == ASSUME NEW t PROVE Dropped!Mode(t) = D!Mode(t)
BY DEF Dropped!Mode, D!Mode, Dropped!BeginBatch, D!BeginBatch, Dropped!EndBatch, D!EndBatch,
       Dropped!EndBatchSync, D!EndBatchSync, Dropped!Drop, D!Drop, Dropped!DropSnap,
       D!DropSnap, Dropped!DropWal, D!DropWal, Dropped!CloseAll, D!CloseAll, Dropped!Restart,
       D!Restart, Dropped!ApplyWal, D!ApplyWal, Dropped!Touches, D!Touches, Dropped!Existed,
       Dropped!Max, D!Max, D!Existed, Dropped!Idle, D!Idle, Dropped!Empty, D!Empty,
       Dropped!disk, D!disk, Dropped!Enter, D!Enter, Dropped!StoreFree, D!StoreFree,
       Dropped!SavePcs, D!SavePcs

LEMMA SameCrash == Dropped!Crash = D!Crash
BY DEF Dropped!Crash, D!Crash, Dropped!BeingWritten, D!BeingWritten, Dropped!MayFail,
       D!MayFail, Dropped!Restart, D!Restart, Dropped!ApplyWal, D!ApplyWal, Dropped!Touches,
       D!Touches, Dropped!Existed, Dropped!Max, D!Max, D!Existed, Dropped!Idle, D!Idle,
       Dropped!Empty, D!Empty

LEMMA SameDropNext == Dropped!Next = D!Next
BY SameClient, SameSave, SameMode, SameCrash DEF Dropped!Next, D!Next

LEMMA SameDirInit == Shared!Init = S!Init
BY DEF Shared!Init, S!Init

LEMMA SameDirNext == Shared!Next = S!Next
BY DEF Shared!Next, S!Next, Shared!Step, S!Step, Shared!Named, S!Named, Shared!DeletedLast,
       S!DeletedLast, Shared!ReadAll, S!ReadAll, Shared!Up, S!Up, Shared!Goto, S!Goto,
       Shared!files, S!files, Shared!ghosts, S!ghosts, Shared!vars, S!vars, Shared!Start,
       S!Start, Shared!LoadLock, S!LoadLock, Shared!LoadGivesUp, S!LoadGivesUp,
       Shared!ReadSnap, S!ReadSnap, Shared!LoadLog, S!LoadLog, Shared!AppendWal, S!AppendWal,
       Shared!Insert, S!Insert, Shared!Update, S!Update, Shared!Delete, S!Delete,
       Shared!FlushSkips, S!FlushSkips, Shared!FlushLocks, S!FlushLocks, Shared!MergeLog,
       S!MergeLog, Shared!FlushAll, S!FlushAll, Shared!Crossing, S!Crossing, Shared!WriteTmp,
       S!WriteTmp, Shared!AfterSave, S!AfterSave, Shared!Replace, S!Replace,
       Shared!ReplaceFails, S!ReplaceFails, Shared!RotateRemove, S!RotateRemove,
       Shared!RotateOpen, S!RotateOpen, Shared!Die, S!Die

-----------------------------------------------------------------------------
\* A record that some snapshot of a shared directory has held and nobody has deleted is in
\* the snapshot, for any number of processes and ids (_flush_one and _merge_from_disk,
\* engine.py:271-321).
THEOREM SharedSnapshotsLast == StoreSpec => []SavedStays
<1>1. StoreInit => S!DirInv
  BY ProcAssumption, S!DirInvInit, SameDirInit DEF StoreInit
<1>2. S!DirInv /\ [StoreNext]_<<mode, vars, sharedVars>> => S!DirInv'
  <2>1. [StoreNext]_<<mode, vars, sharedVars>> => Shared!Next \/ UNCHANGED sharedVars
    BY DEF StoreNext
  <2>2. UNCHANGED sharedVars => UNCHANGED S!vars
    BY DEF sharedVars, S!vars, S!files, S!ghosts
  <2> QED BY <2>1, <2>2, ProcAssumption, S!DirInvNext, SameDirNext
<1>3. S!DirInv => SavedStays
  BY DEF S!DirInv, S!FilesInv, S!Lasting, SavedStays, Shared!SavedStays
<1> QED BY <1>1, <1>2, <1>3, PTL DEF StoreSpec

-----------------------------------------------------------------------------
\* The invariant of the store that a behaviour follows.
ModeInvariant == /\ mode # "drop" => StoreInv
                 /\ mode = "drop" => D!DropInv

LEMMA ModeInvariantInit == ASSUME Serial, D!Droppable, StoreInit PROVE ModeInvariant
BY StoreInvInit, D!DropInvInit, SameDropInit, DropParameters DEF StoreInit, ModeInvariant

LEMMA ModeInvariantNext ==
  ASSUME Serial, D!Droppable, ModeInvariant, [StoreNext]_<<mode, vars, sharedVars>>
  PROVE  ModeInvariant'
<1>1. mode' = mode
  BY DEF StoreNext
<1>2. CASE mode # "drop"
  <2>1. [Next]_vars
    BY <1>2 DEF StoreNext
  <2> QED BY <1>1, <1>2, <2>1, StoreInvNext DEF ModeInvariant
<1>3. CASE mode = "drop"
  <2>1. Dropped!Next \/ UNCHANGED vars
    BY <1>3 DEF StoreNext
  <2>2. UNCHANGED vars => UNCHANGED D!vars
    BY DEF vars, disk, D!vars, D!disk
  <2> QED BY <1>1, <1>3, <2>1, <2>2, D!DropInvNext, SameDropNext, DropParameters
         DEF ModeInvariant
<1> QED BY <1>2, <1>3

\* The promises of the two ways of using one collection: in batch mode with torn logs, and
\* with drops, closes and restarts.
THEOREM PromisesInAllModes ==
  ASSUME Serial, DropOps \subseteq SyncOps \cup {"drop"} PROVE StoreSpec => []ModePromises
<1>1. Serial /\ D!Droppable
  BY DEF D!Droppable, D!SyncOps, SyncOps
<1>2. Serial /\ D!Droppable => (StoreInit => ModeInvariant)
  BY ModeInvariantInit
<1>3. Serial /\ D!Droppable
        => (ModeInvariant /\ [StoreNext]_<<mode, vars, sharedVars>> => ModeInvariant')
  BY ModeInvariantNext
<1>4. ASSUME ModeInvariant PROVE ModePromises
  <2>1. mode = "alone" => PromisesKept
    BY <1>4, PromisesHere DEF ModeInvariant
  <2>2. mode = "drop" => D!NoResurrection
    BY <1>4, D!GoneIsNotFound, DropParameters DEF ModeInvariant
  <2>3. D!NoResurrection = Dropped!NoResurrection
    BY DEF D!NoResurrection, Dropped!NoResurrection, D!RecoveredAt, Dropped!RecoveredAt,
           D!LoadAt, Dropped!LoadAt, D!ReadAll, Dropped!ReadAll, D!ApplyWal, Dropped!ApplyWal,
           D!Touches, Dropped!Touches, D!Existed, Dropped!Existed, D!Max, Dropped!Max,
           D!Empty, Dropped!Empty
  <2> QED BY <2>1, <2>2, <2>3 DEF ModePromises
<1> QED BY <1>1, <1>2, <1>3, <1>4, PTL DEF StoreSpec

\* Where no behaviour drops, the collection is one that StoreInv describes.
NeverDrops == mode # "drop" /\ StoreInv

\* What holds of a collection alone holds where other behaviours share a directory.
THEOREM WholeInAllModes ==
  ASSUME Whole, "drop" \notin Modes
  PROVE  StoreSpec => [](TypeOK /\ NoLostWrite /\ NoResurrection /\ QuietDiskIsMemory)
<1>1. Whole /\ "drop" \notin Modes => (StoreInit => NeverDrops)
  BY StoreInvInit DEF StoreInit, Whole, NeverDrops
<1>2. Whole => (NeverDrops /\ [StoreNext]_<<mode, vars, sharedVars>> => NeverDrops')
  BY StoreInvNext DEF StoreNext, Whole, NeverDrops
<1>3. Whole => (NeverDrops => TypeOK /\ NoLostWrite /\ NoResurrection /\ QuietDiskIsMemory)
  BY WholeLog DEF StoreInv, NeverDrops
<1> QED BY <1>1, <1>2, <1>3, PTL DEF StoreSpec
=============================================================================
