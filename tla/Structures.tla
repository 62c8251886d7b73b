---------------------------- MODULE Structures ----------------------------
(***************************************************************************)
(* The parts of one process that keep state of their own: caches and       *)
(* pages, versions of records, and buffered operations.  They share no     *)
(* state but the clock, so a behaviour runs one of them, the part it has   *)
(* drawn at the start.                                                     *)
(***************************************************************************)
EXTENDS Entries

CONSTANTS Val, NoVal,                      \* contents, and the absence of one
          Name, MaxSize, Ttl, MaxSteps,    \* lru
          Zero, MaxPages, Pages,           \* pages
          Key, Label, MaxOps, MaxPoints,   \* savepoint
          Doc, MaxVersions, MaxWrites,     \* mvcc
          Record, MaxHistory, MaxChanges,  \* travel
          MaxTime                          \* bound: the clock

ASSUME ValAssumption == NoVal \notin Val \cup {Zero} /\ MaxTime \in Nat
ASSUME CacheAssumption == MaxSize \in Nat /\ Ttl \subseteq Nat /\ MaxSteps \in Nat
ASSUME PagesAssumption == MaxPages \in Nat /\ Pages \in Nat
ASSUME KeyAssumption == /\ IsFiniteSet(Key) /\ Key \subseteq Int
                        /\ NoVal \notin [Key -> Val \cup {NoVal}]
                        /\ MaxOps \in Nat /\ MaxPoints \in Nat
ASSUME VersionsAssumption == /\ MaxVersions \in Nat /\ MaxVersions >= 2
                             /\ MaxHistory \in Nat /\ MaxHistory >= 2
                             /\ MaxWrites \in Nat /\ MaxChanges \in Nat /\ IsFiniteSet(Record)

VARIABLES part,
          store, version, latest, useAt, uses,                            \* lru
          disk, header, nextPage, free, cache, owned, stored, pending,    \* pages
          data, active, ops, savepoints, initial, pos, agreed, crossed,   \* savepoint
          chains, written, again,                                         \* mvcc
          history, log,                                                   \* travel
          now
lruVars == <<store, version, latest, useAt, uses>>
pageVars == <<disk, header, nextPage, free, cache, owned, stored, pending>>
savepointVars == <<data, active, ops, savepoints, initial, pos, agreed, crossed>>
mvccVars == <<chains, written, again>>
travelVars == <<history, log>>
vars == <<part, lruVars, pageVars, savepointVars, mvccVars, travelVars, now>>

Lru == INSTANCE RecencyCache WITH MaxTime <- MaxSteps
Paged == INSTANCE PagedStorage WITH None <- NoVal, written <- stored
Points == INSTANCE Savepoint WITH Id <- Key, Name <- Label, None <- NoVal
Mvcc == INSTANCE MultiVersion WITH Id <- Doc, None <- NoVal, log <- written
Travel == INSTANCE TimeTravel WITH Id <- Record, None <- NoVal, MaxVersions <- MaxHistory,
                                   MaxWrites <- MaxChanges

Initially == Lru!Init /\ Paged!Init /\ Points!Init /\ Mvcc!Init /\ Travel!Init
Init == part \in {"lru", "pages", "savepoint", "mvcc", "travel"} /\ Initially

Next ==
  /\ UNCHANGED part
  /\ \/ /\ part = "lru" /\ Lru!Next
        /\ UNCHANGED <<pageVars, savepointVars, mvccVars, travelVars>>
     \/ /\ part = "pages" /\ Paged!Next
        /\ UNCHANGED <<lruVars, savepointVars, mvccVars, travelVars, now>>
     \/ /\ part = "savepoint" /\ Points!Next
        /\ UNCHANGED <<lruVars, pageVars, mvccVars, travelVars, now>>
     \/ /\ part = "mvcc" /\ Mvcc!Next
        /\ UNCHANGED <<lruVars, pageVars, savepointVars, travelVars>>
     \/ /\ part = "travel" /\ Travel!Next
        /\ UNCHANGED <<lruVars, pageVars, savepointVars, mvccVars>>

Spec == Init /\ [][Next]_vars

-----------------------------------------------------------------------------
\* A read gives what was last written: a cached result until it expires or its collection
\* changes, a page after evictions and restarts; what falls out is the least recently
\* used, and a page in use is never handed out again.
ReadsAreLatest ==
  /\ Lru!AnswersAreLatest /\ Lru!OrderIsRecency /\ Lru!WithinLimit
  /\ Paged!ReadsWhatWasWritten /\ Paged!OwnedPagesSafe

\* What trimming, compaction and garbage collection leave of the versions answers as the
\* whole history would: the last write, a snapshot without later writes, the recent past
\* exactly, and the changes of a period once and in order.
VersionsAreHistory ==
  /\ Mvcc!LatestIsLastWrite /\ Mvcc!ChainOrdered /\ Mvcc!SnapshotNeverGains
  /\ Travel!SnapshotIsAt /\ Travel!RecentHistoryExact /\ Travel!ChangesComplete

\* Recorded operations replay as they were done: a savepoint stands for the operations it
\* was set after, and a commit applies all of its operations or none.
OperationsReplay == Points!SavepointsRemember /\ Points!CommitTellsTruth

\* No step takes away what it should keep: a snapshot of versions reads the same until
\* they are trimmed or collected, and a flush of pages saves every change that is still
\* cached.
StepsKeep == Mvcc!SnapshotStable /\ Paged!FlushSavesCached
=============================================================================
