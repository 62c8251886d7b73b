--------------------------- MODULE FileLockProofs ---------------------------
(***************************************************************************)
(* The file lock for any number of lock files, cores and threads.  The     *)
(* accounting of the local lock (CountInv) holds however the threads of a  *)
(* core use it, nested or not; it makes the threads of one core exclude    *)
(* each other.  Where they also keep to one style (OneStyle), _acquired    *)
(* and the kernel's lock follow the owner of the local lock (StyleInv),    *)
(* and cores exclude each other.                                           *)
(***************************************************************************)
EXTENDS FileLock, TLAPS

\* Cores that share a lock file keep to one style.  Two cores that share one and nest
\* acquire() do not exclude each other: the inner release() unlocks the file (line 131).
Orderly ==
  \A c, d \in Core : c # d /\ LockFile[c] = LockFile[d] => OneStyle(c) /\ OneStyle(d)

\* The owner's count: one for each acquire() that returned, one for a call under way.
Pending(t) == IF pc[t] \in {"poll", "unlock"} THEN 1 ELSE 0

CountInv ==
  /\ \A t \in Thread : depth[t] > 0 \/ pc[t] = "poll" => owner[Home[t]] = t
  /\ \A t \in Thread : owner[Home[t]] = t =>
        count[Home[t]] = depth[t] + Pending(t) /\ count[Home[t]] > 0
  /\ \A c \in Core : owner[c] # NoThread => Home[owner[c]] = c
  /\ \A c \in Core : owner[c] = NoThread => count[c] = 0
  /\ \A t \in Thread : pc[t] = "cs" => depth[t] > 0
  /\ \A t \in Thread : pc[t] \in {"idle", "release", "leave"} => depth[t] = 0
  /\ \A t \in Thread : pc[t] \in {"local", "poll"} => depth[t] < MaxDepth[Home[t]]
  /\ \A t \in Thread : t \in Flushers /\ pc[t] \in {"local", "poll"} => depth[t] = 0

\* In a core of one style: who is past the local lock owns it, the flag and the kernel's
\* lock go with the section, and a flusher that is not idle holds the core's lock.
StyleInv(c) ==
  /\ \A t \in Thread : Home[t] = c /\ pc[t] \in {"poll", "cs", "unlock"} => owner[c] = t
  /\ owner[c] # NoThread => pc[owner[c]] \in {"poll", "cs", "unlock"}
  /\ \A t \in Thread : Home[t] = c /\ pc[t] = "poll" => ~acquired[c]
  /\ \A t \in Thread : Home[t] = c /\ pc[t] \in {"cs", "unlock"} => acquired[c]
  /\ \A t \in Thread : Home[t] = c /\ pc[t] = "cs" => flock[LockFile[c]] = c
  /\ acquired[c] => owner[c] # NoThread
  /\ flock[LockFile[c]] = c => owner[c] # NoThread /\ pc[owner[c]] = "cs"
  /\ \A t \in Thread : Home[t] = c /\ t \in Flushers /\ pc[t] # "idle" => coreLock[c] = t
  /\ \A t \in Thread : Home[t] = c /\ t \notin Flushers => pc[t] \notin {"release", "leave"}
  /\ \A t \in Thread : Home[t] = c /\ depth[t] > 0 => pc[t] = "cs"

LockInv == TypeOK /\ CountInv /\ \A c \in Core : OneStyle(c) => StyleInv(c)

-----------------------------------------------------------------------------
(* The local lock.                                                         *)

LEMMA CountInit == Init => TypeOK /\ CountInv
BY HomeAssumption, NoThreadAssumption, DepthAssumption, FileAssumption
   DEF Init, TypeOK, CountInv, Pending

LEMMA CountStep == TypeOK /\ CountInv /\ [Next]_vars => TypeOK' /\ CountInv'
<1> SUFFICES ASSUME TypeOK, CountInv, [Next]_vars PROVE TypeOK' /\ CountInv'
  OBVIOUS
<1> USE HomeAssumption, NoThreadAssumption, FileAssumption, DepthAssumption
    DEF TypeOK, CountInv, Pending
<1>1. ASSUME NEW t \in Thread, EnterCore(t) PROVE TypeOK' /\ CountInv'
  BY <1>1 DEF EnterCore
<1>2. ASSUME NEW t \in Thread, CloseCore(t) PROVE TypeOK' /\ CountInv'
  BY <1>2 DEF CloseCore
<1>3. ASSUME NEW t \in Thread, LeaveCore(t) PROVE TypeOK' /\ CountInv'
  BY <1>3 DEF LeaveCore
<1>4. ASSUME NEW t \in Thread, UseLock(t) PROVE TypeOK' /\ CountInv'
  BY <1>4 DEF UseLock
<1>5. ASSUME NEW t \in Thread, AcquireAgain(t) PROVE TypeOK' /\ CountInv'
  BY <1>5 DEF AcquireAgain, TakeLocal
<1>6. ASSUME NEW t \in Thread, OpenFile(t) PROVE TypeOK' /\ CountInv'
  BY <1>6 DEF OpenFile, TakeLocal
<1>7. ASSUME NEW t \in Thread, TryLock(t) PROVE TypeOK' /\ CountInv'
  BY <1>7 DEF TryLock, FileOf
<1>8. ASSUME NEW t \in Thread, TimeOut(t) PROVE TypeOK' /\ CountInv'
  BY <1>8 DEF TimeOut, DropLocal, After, LetGo
<1>9. ASSUME NEW t \in Thread, ReleaseLocal(t) PROVE TypeOK' /\ CountInv'
  BY <1>9 DEF ReleaseLocal, Releasing, DropLocal, After
<1>10. ASSUME NEW t \in Thread, UnlockFile(t) PROVE TypeOK' /\ CountInv'
  BY <1>10 DEF UnlockFile, Releasing, LetGo
<1>11. ASSUME NEW t \in Thread, Unlocked(t) PROVE TypeOK' /\ CountInv'
  BY <1>11 DEF Unlocked, DropLocal, After
<1>12. ASSUME NEW c \in Core, Die(c) PROVE TypeOK' /\ CountInv'
  BY <1>12 DEF Die, LetGo
<1>13. CASE UNCHANGED vars
  BY <1>13 DEF vars
<1> QED
  BY <1>1, <1>2, <1>3, <1>4, <1>5, <1>6, <1>7, <1>8, <1>9, <1>10, <1>11, <1>12, <1>13
  DEF Next, Call, Acquire, Release

-----------------------------------------------------------------------------
(* The flag and the kernel's lock in a core of one style.                  *)

\* A thread about to run release() in a "finally" finds the lock free: nobody
\* else of its core can be in acquire, the section or release.
LEMMA ReleaseFindsFree ==
  ASSUME TypeOK, CountInv, NEW c \in Core, OneStyle(c), StyleInv(c),
         NEW t \in Thread, Home[t] = c, pc[t] = "release"
  PROVE  owner[c] = NoThread /\ ~acquired[c]
<1>1. t \in Flushers /\ coreLock[c] = t
  BY DEF StyleInv
<1>2. ASSUME owner[c] # NoThread PROVE FALSE
  <2> DEFINE s == owner[c]
  <2>1. s \in Thread /\ Home[s] = c /\ pc[s] \in {"poll", "cs", "unlock"}
    BY <1>2 DEF StyleInv, CountInv, TypeOK
  <2>2. s \in Flushers
    BY <1>1, <2>1 DEF OneStyle
  <2>3. coreLock[c] = s
    BY <2>1, <2>2 DEF StyleInv
  <2> QED BY <1>1, <2>1, <2>3
<1> QED BY <1>1, <1>2 DEF StyleInv

LEMMA StyleInit == ASSUME NEW c \in Core PROVE Init => StyleInv(c)
BY HomeAssumption, NoCoreAssumption, FileAssumption DEF Init, StyleInv

LEMMA StyleStep ==
  ASSUME NEW c \in Core, OneStyle(c)
  PROVE  TypeOK /\ CountInv /\ StyleInv(c) /\ [Next]_vars => StyleInv(c)'
<1> SUFFICES ASSUME TypeOK, CountInv, StyleInv(c), [Next]_vars PROVE StyleInv(c)'
  OBVIOUS
<1> USE HomeAssumption, NoThreadAssumption, NoCoreAssumption, FileAssumption,
        FlushersAssumption, DepthAssumption
    DEF TypeOK, CountInv, StyleInv, OneStyle
<1>1. ASSUME NEW t \in Thread, EnterCore(t) PROVE StyleInv(c)'
  BY <1>1 DEF EnterCore
<1>2. ASSUME NEW t \in Thread, CloseCore(t) PROVE StyleInv(c)'
  BY <1>2 DEF CloseCore
<1>3. ASSUME NEW t \in Thread, LeaveCore(t) PROVE StyleInv(c)'
  BY <1>3 DEF LeaveCore
<1>4. ASSUME NEW t \in Thread, UseLock(t) PROVE StyleInv(c)'
  BY <1>4 DEF UseLock
<1>5. ASSUME NEW t \in Thread, AcquireAgain(t) PROVE StyleInv(c)'
  BY <1>5 DEF AcquireAgain, TakeLocal
<1>6. ASSUME NEW t \in Thread, OpenFile(t) PROVE StyleInv(c)'
  BY <1>6 DEF OpenFile, TakeLocal
<1>7. ASSUME NEW t \in Thread, TryLock(t) PROVE StyleInv(c)'
  BY <1>7 DEF TryLock, FileOf
<1>8. ASSUME NEW t \in Thread, TimeOut(t) PROVE StyleInv(c)'
  BY <1>8 DEF TimeOut, DropLocal, After, LetGo, Pending
<1>9. ASSUME NEW t \in Thread, ReleaseLocal(t) PROVE StyleInv(c)'
  <2>1. CASE Home[t] = c
    <3>1. pc[t] = "release"
      BY <1>9, <2>1 DEF ReleaseLocal, Releasing
    <3>2. owner[c] = NoThread
      BY <2>1, <3>1, ReleaseFindsFree
    <3>3. UNCHANGED <<owner, count>>
      BY <1>9, <2>1, <3>2 DEF ReleaseLocal, DropLocal
    <3>4. t \in Flushers /\ depth[t] = 0
      BY <2>1, <3>1
    <3>5. depth' = [depth EXCEPT ![t] = 0]
      BY <1>9, <3>4 DEF ReleaseLocal, Releasing
    <3>6. pc' = [pc EXCEPT ![t] = "leave"]
      BY <1>9, <3>4, <3>5 DEF ReleaseLocal, After
    <3> QED BY <1>9, <2>1, <3>1, <3>2, <3>3, <3>4, <3>5, <3>6 DEF ReleaseLocal
  <2>2. CASE Home[t] # c
    BY <1>9, <2>2 DEF ReleaseLocal, Releasing, DropLocal, After
  <2> QED BY <2>1, <2>2
<1>10. ASSUME NEW t \in Thread, UnlockFile(t) PROVE StyleInv(c)'
  BY <1>10, ReleaseFindsFree DEF UnlockFile, Releasing, LetGo, Pending
<1>11. ASSUME NEW t \in Thread, Unlocked(t) PROVE StyleInv(c)'
  BY <1>11 DEF Unlocked, DropLocal, After, Pending
<1>12. ASSUME NEW d \in Core, Die(d) PROVE StyleInv(c)'
  BY <1>12 DEF Die, LetGo
<1>13. CASE UNCHANGED vars
  BY <1>13 DEF vars
<1> QED
  BY <1>1, <1>2, <1>3, <1>4, <1>5, <1>6, <1>7, <1>8, <1>9, <1>10, <1>11, <1>12, <1>13
  DEF Next, Call, Acquire, Release

LEMMA LockInvInit == Init => LockInv
BY CountInit, StyleInit DEF LockInv

LEMMA LockInvStep == LockInv /\ [Next]_vars => LockInv'
<1> SUFFICES ASSUME LockInv, [Next]_vars PROVE LockInv'
  OBVIOUS
<1>1. TypeOK' /\ CountInv'
  BY CountStep DEF LockInv
<1>2. \A c \in Core : OneStyle(c) => StyleInv(c)'
  BY StyleStep DEF LockInv
<1> QED BY <1>1, <1>2 DEF LockInv, OneStyle

THEOREM LockInvAlways == Spec => []LockInv
BY LockInvInit, LockInvStep, PTL DEF Spec

-----------------------------------------------------------------------------
(* The properties.                                                         *)

\* Two threads of one core cannot both own its local lock; two cores that share a lock
\* file cannot both hold the kernel's lock of it.
LEMMA LockInvExcludes == Orderly /\ LockInv => MutualExclusion
<1> SUFFICES ASSUME Orderly, LockInv, NEW s \in Thread, NEW t \in Thread, s # t,
                    FileOf(s) = FileOf(t), InSection(s), InSection(t)
             PROVE  FALSE
  BY DEF MutualExclusion
<1>1. Home[s] \in Core /\ Home[t] \in Core /\ owner[Home[s]] = s /\ owner[Home[t]] = t
  BY HomeAssumption DEF LockInv, CountInv, InSection
<1>2. CASE Home[s] = Home[t]
  BY <1>1, <1>2
<1>3. CASE Home[s] # Home[t]
  <2>1. StyleInv(Home[s]) /\ StyleInv(Home[t])
    BY <1>1, <1>3 DEF Orderly, FileOf, LockInv
  <2>2. flock[FileOf(s)] = Home[s] /\ flock[FileOf(t)] = Home[t]
    BY <2>1 DEF StyleInv, InSection, FileOf
  <2> QED BY <1>3, <2>2
<1> QED BY <1>2, <1>3

\* TypeOK of FileLock, for every set of lock files, cores and threads.
THEOREM TypeCorrect == Spec => []TypeOK
<1>1. LockInv => TypeOK  BY DEF LockInv
<1> QED BY <1>1, LockInvAlways, PTL

\* At most one thread of all the cores on a lock file is in its section.
THEOREM LockExcludes == ASSUME Orderly PROVE Spec => []MutualExclusion
BY LockInvAlways, LockInvExcludes, PTL

\* A core that holds the kernel's lock has a thread that will release it.
THEOREM LockNotOrphaned == Spec => []NoOrphanLock
<1>1. LockInv => NoOrphanLock  BY DEF LockInv, StyleInv, NoOrphanLock
<1> QED BY <1>1, LockInvAlways, PTL

\* Nobody's release() or death drops the kernel's lock under a running section.
THEOREM SectionKeepsLock == Spec => LockKeptInSection
<1>1. ASSUME LockInv, LockInv', NEW t \in Thread, OneStyle(Home[t]),
             InSection(t), InSection(t)'
      PROVE  flock'[FileOf(t)] = flock[FileOf(t)]
  <2>1. Home[t] \in Core
    BY HomeAssumption
  <2>2. StyleInv(Home[t]) /\ StyleInv(Home[t])'
    BY <1>1, <2>1 DEF LockInv, OneStyle
  <2> QED BY <1>1, <2>1, <2>2 DEF StyleInv, InSection, FileOf
<1>2. LockInv /\ LockInv' =>
        \A t \in Thread : OneStyle(Home[t]) /\ InSection(t) /\ InSection(t)'
                            => flock'[FileOf(t)] = flock[FileOf(t)]
  BY <1>1
<1> QED BY <1>2, LockInvAlways, PTL DEF LockKeptInSection

-----------------------------------------------------------------------------
(* The locks implement the mutexes.                                        *)

HolderFits ==
  \A f \in File :
    /\ \A t \in Thread : Inside(t, f) => Holder(f) = t
    /\ (\A t \in Thread : ~Inside(t, f)) => Holder(f) = NoThread

LEMMA HolderUnique == MutualExclusion => HolderFits
BY DEF MutualExclusion, Holder, HolderFits, Inside

LEMMA HolderInit == Init => \A f \in File : Holder(f) = NoThread
BY DEF Init, Holder, Inside, InSection

\* A step of the lock lets one thread in, lets one out, or changes no section.
LEMMA SectionStep ==
  Orderly /\ LockInv /\ LockInv' /\ [Next]_vars =>
    \/ \E t \in Thread : \A s \in Thread : InSection(s)' <=> (InSection(s) \/ s = t)
    \/ \E t \in Thread : \A s \in Thread : InSection(s)' <=> (InSection(s) /\ s # t)
    \/ \A s \in Thread : InSection(s)' <=> InSection(s)
<1> SUFFICES ASSUME Orderly, LockInv, LockInv', [Next]_vars
             PROVE  \/ \E t \in Thread : \A s \in Thread :
                          InSection(s)' <=> (InSection(s) \/ s = t)
                    \/ \E t \in Thread : \A s \in Thread :
                          InSection(s)' <=> (InSection(s) /\ s # t)
                    \/ \A s \in Thread : InSection(s)' <=> InSection(s)
  OBVIOUS
<1> USE HomeAssumption DEF InSection, LockInv, TypeOK
<1>1. ASSUME NEW t \in Thread, Call(t) PROVE UNCHANGED depth
  BY <1>1 DEF Call, EnterCore, CloseCore, LeaveCore, UseLock
<1>2. ASSUME NEW t \in Thread, Acquire(t) PROVE
        depth' = depth \/ depth' = [depth EXCEPT ![t] = @ + 1]
  BY <1>2 DEF Acquire, AcquireAgain, OpenFile, TryLock, TimeOut
<1>3. ASSUME NEW t \in Thread, Release(t) PROVE
        depth' = depth \/ depth' = [depth EXCEPT ![t] = IF @ = 0 THEN 0 ELSE @ - 1]
  BY <1>3 DEF Release, ReleaseLocal, UnlockFile, Unlocked, Releasing
<1>4. ASSUME NEW t \in Thread, depth' = [depth EXCEPT ![t] = @ + 1]
      PROVE  \A s \in Thread : InSection(s)' <=> (InSection(s) \/ s = t)
  BY <1>4
<1>5. ASSUME NEW t \in Thread, depth' = [depth EXCEPT ![t] = IF @ = 0 THEN 0 ELSE @ - 1]
      PROVE  \/ \A s \in Thread : InSection(s)' <=> (InSection(s) /\ s # t)
             \/ \A s \in Thread : InSection(s)' <=> InSection(s)
  <2>1. CASE depth[t] <= 1
    BY <1>5, <2>1
  <2>2. CASE depth[t] > 1
    BY <1>5, <2>2
  <2> QED BY <2>1, <2>2
<1>6. ASSUME NEW c \in Core, Die(c)
      PROVE  \/ \E t \in Thread : \A s \in Thread :
                   InSection(s)' <=> (InSection(s) /\ s # t)
             \/ \A s \in Thread : InSection(s)' <=> InSection(s)
  <2>1. \A s \in Thread : InSection(s)' <=> (InSection(s) /\ Home[s] # c)
    BY <1>6 DEF Die
  <2>2. CASE \E t \in Thread : InSection(t) /\ Home[t] = c
    <3>1. PICK t \in Thread : InSection(t) /\ Home[t] = c
      BY <2>2
    <3>2. \A s \in Thread : InSection(s) /\ Home[s] = c => s = t
      BY <3>1, LockInvExcludes DEF MutualExclusion, FileOf
    <3> QED BY <2>1, <3>1, <3>2
  <2>3. CASE ~\E t \in Thread : InSection(t) /\ Home[t] = c
    BY <2>1, <2>3
  <2> QED BY <2>2, <2>3
<1>7. CASE UNCHANGED depth
  BY <1>7
<1>8. CASE UNCHANGED vars
  BY <1>7, <1>8 DEF vars
<1>9. CASE \E t \in Thread : Call(t)
  BY <1>1, <1>7, <1>9
<1>10. CASE \E t \in Thread : Acquire(t)
  BY <1>2, <1>4, <1>7, <1>10
<1>11. CASE \E t \in Thread : Release(t)
  BY <1>3, <1>5, <1>7, <1>11
<1>12. CASE \E c \in Core : Die(c)
  BY <1>6, <1>12
<1> QED
  BY <1>8, <1>9, <1>10, <1>11, <1>12 DEF Next

\* Every step of the locks is a step of the abstract mutexes or a stutter.
THEOREM LocksAreMutexes == ASSUME Orderly PROVE Spec => ImplementsMutex
<1> DEFINE holders == [f \in File |-> Holder(f)]
<1>1. Init => AbstractMutex!Init
  BY HolderInit DEF AbstractMutex!Init
<1>2. MutualExclusion' => HolderFits'
  BY HolderUnique, PTL
<1>3. Orderly /\ LockInv' => MutualExclusion'
  <2>1. Orderly' <=> Orderly
    BY DEF Orderly, OneStyle
  <2>2. Orderly' /\ LockInv' => MutualExclusion'
    BY LockInvExcludes, PTL
  <2> QED BY <2>1, <2>2
<1>4. Orderly /\ LockInv /\ LockInv' /\ [Next]_vars => [AbstractMutex!Next]_holders
  <2> SUFFICES ASSUME Orderly, LockInv, LockInv', [Next]_vars
               PROVE  [AbstractMutex!Next]_holders
    OBVIOUS
  <2>1. \A f \in File : /\ \A t \in Thread : FileOf(t) = f /\ InSection(t) => Holder(f) = t
                        /\ (\A t \in Thread : ~(FileOf(t) = f /\ InSection(t)))
                              => Holder(f) = NoThread
    BY LockInvExcludes, HolderUnique DEF HolderFits, Inside
  <2>2. \A f \in File : /\ \A t \in Thread : FileOf(t) = f /\ InSection(t)' => Holder(f)' = t
                        /\ (\A t \in Thread : ~(FileOf(t) = f /\ InSection(t)'))
                              => Holder(f)' = NoThread
    BY <1>2, <1>3 DEF HolderFits, Inside, FileOf
  <2>3. \A t \in Thread : FileOf(t) \in File
    BY HomeAssumption, FileAssumption DEF FileOf
  <2>4. ASSUME \A s \in Thread : InSection(s)' <=> InSection(s)
        PROVE  holders' = holders
    BY <2>1, <2>2, <2>4
  <2>5. ASSUME NEW t \in Thread,
               \/ \A s \in Thread : InSection(s)' <=> (InSection(s) \/ s = t)
               \/ \A s \in Thread : InSection(s)' <=> (InSection(s) /\ s # t)
        PROVE  \A f \in File : f # FileOf(t) => Holder(f)' = Holder(f)
    BY <2>1, <2>2, <2>5
  <2> HIDE DEF Holder, InSection, FileOf
  <2>6. ASSUME NEW t \in Thread, ~InSection(t),
               \A s \in Thread : InSection(s)' <=> (InSection(s) \/ s = t)
        PROVE  AbstractMutex!Enter(t, FileOf(t))
    <3>1. InSection(t)'
      BY <2>6
    <3>2. Holder(FileOf(t))' = t
      BY <2>2, <2>3, <3>1
    <3>3. \A s \in Thread : FileOf(s) = FileOf(t) => ~InSection(s)
      BY <2>2, <2>3, <2>6, <3>1, <3>2
    <3>4. Holder(FileOf(t)) = NoThread
      BY <2>1, <2>3, <3>3
    <3>5. holders' = [holders EXCEPT ![FileOf(t)] = t]
      BY <2>5, <2>6, <3>2
    <3> QED BY <2>3, <3>4, <3>5 DEF AbstractMutex!Enter
  <2>7. ASSUME NEW t \in Thread, InSection(t),
               \A s \in Thread : InSection(s)' <=> (InSection(s) /\ s # t)
        PROVE  AbstractMutex!Leave(t, FileOf(t))
    <3>1. Holder(FileOf(t)) = t
      BY <2>1, <2>3, <2>7
    <3>2. \A s \in Thread : FileOf(s) = FileOf(t) => ~InSection(s)'
      BY <2>1, <2>3, <2>7, <3>1
    <3>3. Holder(FileOf(t))' = NoThread
      BY <2>2, <2>3, <3>2
    <3>4. holders' = [holders EXCEPT ![FileOf(t)] = NoThread]
      BY <2>5, <2>7, <3>3
    <3> QED BY <2>3, <3>1, <3>4 DEF AbstractMutex!Leave
  <2>8. ASSUME NEW t \in Thread,
               \A s \in Thread : InSection(s)' <=> (InSection(s) \/ s = t)
        PROVE  [AbstractMutex!Next]_holders
    <3>1. CASE InSection(t)
      BY <2>4, <2>8, <3>1
    <3>2. CASE ~InSection(t)
      BY <2>3, <2>6, <2>8, <3>2 DEF AbstractMutex!Next
    <3> QED BY <3>1, <3>2
  <2>9. ASSUME NEW t \in Thread,
               \A s \in Thread : InSection(s)' <=> (InSection(s) /\ s # t)
        PROVE  [AbstractMutex!Next]_holders
    <3>1. CASE ~InSection(t)
      BY <2>4, <2>9, <3>1
    <3>2. CASE InSection(t)
      BY <2>3, <2>7, <2>9, <3>2 DEF AbstractMutex!Next
    <3> QED BY <3>1, <3>2
  <2> QED BY <2>4, <2>8, <2>9, SectionStep
<1> QED BY <1>1, <1>4, LockInvAlways, PTL DEF Spec, ImplementsMutex, AbstractMutex!Spec
=============================================================================
