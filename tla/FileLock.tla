------------------------------ MODULE FileLock ------------------------------
(***************************************************************************)
(* rayzorgendb/lock/manager.py: FileLock, the cross-process lock of a      *)
(* collection, with the two ways the repository uses it:                   *)
(*   - Flushers call it from RayzorgenCore._flush_one and close, holding   *)
(*     the core's RLock, and release in a "finally" that runs even when    *)
(*     acquire raised;                                                     *)
(*   - the other threads use the "with lock.acquire():" of the class's     *)
(*     docstring, which releases only what was acquired.                   *)
(* A Core is one FileLock object (one RayzorgenCore with a collection: two *)
(* cores have two objects, in one process or in two).  flock(2) locks the  *)
(* open file, so the kernel's lock of a lock file is held by at most one   *)
(* core.                                                                   *)
(***************************************************************************)
EXTENDS Naturals

CONSTANTS Thread, Core, File,
          Home,        \* Home[t]: the core whose FileLock object t uses
          LockFile,    \* LockFile[c]: the lock file of c, shared with other cores or not
          Flushers,    \* the threads that come through _flush_one
          MaxDepth,    \* MaxDepth[c]: bound on nested acquire() of a thread of c
          NoThread, NoCore

ASSUME HomeAssumption == Home \in [Thread -> Core]
ASSUME FileAssumption == LockFile \in [Core -> File]
ASSUME FlushersAssumption == Flushers \subseteq Thread
ASSUME DepthAssumption == MaxDepth \in [Core -> Nat \ {0}]
ASSUME NoThreadAssumption == NoThread \notin Thread
ASSUME NoCoreAssumption == NoCore \notin Core

VARIABLES
  coreLock,   \* coreLock[c]: holder of RayzorgenCore._lock
  owner,      \* owner[c]: owner of _local_lock (an RLock)
  count,      \* count[c]: how many times the owner holds it
  acquired,   \* acquired[c]: _acquired
  flock,      \* flock[f]: the core whose open file holds the kernel's lock
  pc,         \* pc[t]: where t is
  depth       \* depth[t]: acquire() calls of t that returned, not released

vars == <<coreLock, owner, count, acquired, flock, pc, depth>>

TypeOK ==
  /\ coreLock \in [Core -> Thread \cup {NoThread}]
  /\ owner \in [Core -> Thread \cup {NoThread}]
  /\ count \in [Core -> Nat]
  /\ acquired \in [Core -> BOOLEAN]
  /\ flock \in [File -> Core \cup {NoCore}]
  /\ pc \in [Thread -> {"idle", "local", "poll", "cs", "release", "unlock", "leave"}]
  /\ depth \in [Thread -> Nat] /\ \A t \in Thread : depth[t] <= MaxDepth[Home[t]]

Init ==
  /\ coreLock = [c \in Core |-> NoThread]
  /\ owner = [c \in Core |-> NoThread]
  /\ count = [c \in Core |-> 0]
  /\ acquired = [c \in Core |-> FALSE]
  /\ flock = [f \in File |-> NoCore]
  /\ pc = [t \in Thread |-> "idle"]
  /\ depth = [t \in Thread |-> 0]

InSection(t) == depth[t] > 0

\* The lock file of a thread, and the kernel's lock of it when c lets it go.
FileOf(t) == LockFile[Home[t]]
LetGo(c) == [flock EXCEPT ![LockFile[c]] = IF @ = c THEN NoCore ELSE @]

\* Where t continues when an acquire or release of its is over.
After(t, d) == IF d > 0 THEN "cs" ELSE IF t \in Flushers THEN "leave" ELSE "idle"

-----------------------------------------------------------------------------
(* The caller.                                                             *)

\* Mutant: _flush_one is called without the core's lock.
EnterCoreUnlocked(t) ==
  /\ t \in Flushers
  /\ pc[t] = "idle"
  /\ pc' = [pc EXCEPT ![t] = "local"]
  /\ UNCHANGED <<coreLock, owner, count, acquired, flock, depth>>

\* insert, update, ... : "with self._lock", then _flush_one calls acquire.
EnterCore(t) ==
  /\ t \in Flushers
  /\ pc[t] = "idle"
  /\ coreLock[Home[t]] = NoThread
  /\ coreLock' = [coreLock EXCEPT ![Home[t]] = t]
  /\ pc' = [pc EXCEPT ![t] = "local"]
  /\ UNCHANGED <<owner, count, acquired, flock, depth>>

\* close(): release_all() calls release() on locks the thread may not hold.
CloseCore(t) ==
  /\ t \in Flushers
  /\ pc[t] = "idle"
  /\ coreLock[Home[t]] = NoThread
  /\ coreLock' = [coreLock EXCEPT ![Home[t]] = t]
  /\ pc' = [pc EXCEPT ![t] = "release"]
  /\ UNCHANGED <<owner, count, acquired, flock, depth>>

LeaveCore(t) ==
  /\ pc[t] = "leave"
  /\ coreLock' = [coreLock EXCEPT ![Home[t]] = NoThread]
  /\ pc' = [pc EXCEPT ![t] = "idle"]
  /\ UNCHANGED <<owner, count, acquired, flock, depth>>

\* "with lock.acquire():", possibly inside another one.
UseLock(t) ==
  /\ t \notin Flushers
  /\ pc[t] \in {"idle", "cs"}
  /\ depth[t] < MaxDepth[Home[t]]
  /\ pc' = [pc EXCEPT ![t] = "local"]
  /\ UNCHANGED <<coreLock, owner, count, acquired, flock, depth>>

-----------------------------------------------------------------------------
(* acquire()                                                               *)

TakeLocal(t) ==
  /\ pc[t] = "local"
  /\ owner[Home[t]] \in {t, NoThread}
  /\ owner' = [owner EXCEPT ![Home[t]] = t]
  /\ count' = [count EXCEPT ![Home[t]] = @ + 1]

\* The object is already locked: acquire() returns at once.
AcquireAgain(t) ==
  /\ TakeLocal(t)
  /\ acquired[Home[t]]
  /\ depth' = [depth EXCEPT ![t] = @ + 1]
  /\ pc' = [pc EXCEPT ![t] = "cs"]
  /\ UNCHANGED <<coreLock, acquired, flock>>

\* The lock file is opened and the polling loop starts.
OpenFile(t) ==
  /\ TakeLocal(t)
  /\ ~acquired[Home[t]]
  /\ pc' = [pc EXCEPT ![t] = "poll"]
  /\ UNCHANGED <<coreLock, acquired, flock, depth>>

\* Mutant: a shared lock (LOCK_SH) is requested.
TryLockShared(t) ==
  /\ pc[t] = "poll"
  /\ flock' = [flock EXCEPT ![FileOf(t)] = Home[t]]
  /\ acquired' = [acquired EXCEPT ![Home[t]] = TRUE]
  /\ depth' = [depth EXCEPT ![t] = @ + 1]
  /\ pc' = [pc EXCEPT ![t] = "cs"]
  /\ UNCHANGED <<coreLock, owner, count>>

TryLock(t) ==
  /\ pc[t] = "poll"
  /\ flock[FileOf(t)] \in {NoCore, Home[t]}
  /\ flock' = [flock EXCEPT ![FileOf(t)] = Home[t]]
  /\ acquired' = [acquired EXCEPT ![Home[t]] = TRUE]
  /\ depth' = [depth EXCEPT ![t] = @ + 1]
  /\ pc' = [pc EXCEPT ![t] = "cs"]
  /\ UNCHANGED <<coreLock, owner, count>>

\* Mutant: the local lock does not count its owner's acquire() calls.
DropLocalWhole(t) ==
  /\ owner' = [owner EXCEPT ![Home[t]] = NoThread]
  /\ count' = [count EXCEPT ![Home[t]] = 0]

\* Mutant: the local lock counts down for whoever calls.
DropLocalUnchecked(t) ==
  /\ count' = [count EXCEPT ![Home[t]] = @ - 1]
  /\ owner' = [owner EXCEPT ![Home[t]] = IF count[Home[t]] = 1 THEN NoThread ELSE @]

\* RLock.release(): only its owner's call has an effect (the RuntimeError of
\* any other caller is swallowed).
DropLocal(t) ==
  IF owner[Home[t]] = t
    THEN /\ count' = [count EXCEPT ![Home[t]] = @ - 1]
         /\ owner' = [owner EXCEPT ![Home[t]] =
                        IF count[Home[t]] = 1 THEN NoThread ELSE t]
    ELSE UNCHANGED <<owner, count>>

\* Mutant: the polling loop has no deadline.
NoTimeOut(t) == FALSE /\ UNCHANGED vars

\* The deadline passes (or opening the file failed): the file is closed, the
\* local lock released and LockTimeout raised.  _flush_one then goes to its
\* "finally", a "with" does not.
TimeOut(t) ==
  /\ pc[t] = "poll"
  /\ DropLocal(t)
  /\ flock' = LetGo(Home[t])
  /\ pc' = [pc EXCEPT ![t] = IF t \in Flushers THEN "release" ELSE After(t, depth[t])]
  /\ UNCHANGED <<coreLock, acquired, depth>>

-----------------------------------------------------------------------------
(* release()                                                               *)

Releasing(t) ==
  /\ pc[t] \in {"cs", "release"}
  /\ depth' = [depth EXCEPT ![t] = IF @ = 0 THEN 0 ELSE @ - 1]

\* _acquired is False: only the local lock is released.
ReleaseLocal(t) ==
  /\ Releasing(t)
  /\ ~acquired[Home[t]]
  /\ DropLocal(t)
  /\ pc' = [pc EXCEPT ![t] = After(t, depth'[t])]
  /\ UNCHANGED <<coreLock, acquired, flock>>

\* Mutant: the file is neither unlocked nor closed.
KeepFile(t) ==
  /\ Releasing(t)
  /\ acquired[Home[t]]
  /\ pc' = [pc EXCEPT ![t] = "unlock"]
  /\ UNCHANGED <<coreLock, owner, count, acquired, flock>>

\* _acquired is True: the kernel's lock goes first, whoever took it ...
UnlockFile(t) ==
  /\ Releasing(t)
  /\ acquired[Home[t]]
  /\ flock' = LetGo(Home[t])
  /\ pc' = [pc EXCEPT ![t] = "unlock"]
  /\ UNCHANGED <<coreLock, owner, count, acquired>>

\* ... then the flag and the local lock.
Unlocked(t) ==
  /\ pc[t] = "unlock"
  /\ acquired' = [acquired EXCEPT ![Home[t]] = FALSE]
  /\ DropLocal(t)
  /\ pc' = [pc EXCEPT ![t] = After(t, depth[t])]
  /\ UNCHANGED <<coreLock, flock, depth>>

-----------------------------------------------------------------------------
\* The process dies: the kernel closes its files, a restarted one starts anew.
Die(c) ==
  /\ coreLock' = [coreLock EXCEPT ![c] = NoThread]
  /\ owner' = [owner EXCEPT ![c] = NoThread]
  /\ count' = [count EXCEPT ![c] = 0]
  /\ acquired' = [acquired EXCEPT ![c] = FALSE]
  /\ flock' = LetGo(c)
  /\ pc' = [t \in Thread |-> IF Home[t] = c THEN "idle" ELSE pc[t]]
  /\ depth' = [t \in Thread |-> IF Home[t] = c THEN 0 ELSE depth[t]]

Acquire(t) == AcquireAgain(t) \/ OpenFile(t) \/ TryLock(t) \/ TimeOut(t)
Release(t) == ReleaseLocal(t) \/ UnlockFile(t) \/ Unlocked(t)
Call(t) == EnterCore(t) \/ CloseCore(t) \/ LeaveCore(t) \/ UseLock(t)

Next == \/ \E t \in Thread : Call(t) \/ Acquire(t) \/ Release(t)
        \/ \E c \in Core : Die(c)

Spec == Init /\ [][Next]_vars

\* A polling thread is scheduled and its deadline passes.  Nothing else is
\* assumed: callers may stay in the section for ever.
FairSpec == Spec /\ \A t \in Thread : WF_vars(TryLock(t) \/ TimeOut(t))

-----------------------------------------------------------------------------
(* Properties                                                              *)

\* No two threads, of one process or of two, are in the section of a lock file at once
\* (manager.py:3, "cross-process file locking for safe concurrent access").
MutualExclusion ==
  \A s, t \in Thread : s # t /\ FileOf(s) = FileOf(t) => ~(InSection(s) /\ InSection(t))

\* A core whose threads do not nest acquire() and all come through _flush_one, or all use
\* "with".  Without it the next two properties are false: release() unlocks the file for
\* whoever calls it (line 131), an inner "with" or the "finally" of another thread.
OneStyle(c) ==
  /\ MaxDepth[c] = 1
  /\ \A s, t \in Thread : Home[s] = c /\ Home[t] = c => (s \in Flushers <=> t \in Flushers)

\* The kernel's lock is never left behind: while a core holds it, one of the
\* core's threads owns the local lock and is in acquire, the section or release.
NoOrphanLock ==
  \A c \in Core : OneStyle(c) /\ flock[LockFile[c]] = c => owner[c] # NoThread

\* No call of any thread drops the kernel's lock of a section that goes on.
LockKeptInSection ==
  [][\A t \in Thread : OneStyle(Home[t]) /\ InSection(t) /\ InSection(t)'
                          => flock'[FileOf(t)] = flock[FileOf(t)]]_vars

\* The polling loop of acquire() ends, with the lock or with LockTimeout.
PollEnds == \A t \in Thread : pc[t] = "poll" ~> pc[t] # "poll"

\* The lock files implement the abstract mutexes, a dying process included.
Inside(t, f) == FileOf(t) = f /\ InSection(t)
Holder(f) == IF \E t \in Thread : Inside(t, f)
               THEN CHOOSE t \in Thread : Inside(t, f)
               ELSE NoThread
AbstractMutex == INSTANCE Mutex WITH holder <- [f \in File |-> Holder(f)]
ImplementsMutex == AbstractMutex!Spec
=============================================================================
