---------------------------- MODULE MultiVersion ----------------------------
(***************************************************************************)
(* The multi-version store (mvcc_multi.py): a chain of versions for each   *)
(* record, every method under one lock.  A snapshot is a reading of the    *)
(* clock.  log keeps every version ever written, again the records that    *)
(* were inserted under an id that had a chain already, trimmed those that  *)
(* have lost versions; the properties use them.                            *)
(***************************************************************************)
EXTENDS Entries

CONSTANTS Id,
          Val, None,     \* data of a record, and no record
          MaxVersions,
          MaxTime, MaxWrites   \* bounds: the clock, the writes to a record

VARIABLES chains, now, log, again
vars == <<chains, now, log, again>>

Version(ver, val, dead) == [ver |-> ver, val |-> val, at |-> now, dead |-> dead]

\* get(): without a snapshot the last version, with one the version visible at ts.
Latest(r) == Shown(chains[r], Len(chains[r]), None)
\* Mutant: the snapshot is ignored.
GetAtLatest(r, ts) == Latest(r)

GetAt(r, ts) == Shown(chains[r], VisibleIndex(chains[r], ts), None)

Init == /\ chains = [r \in Id |-> <<>>] /\ log = chains /\ now = 0 /\ again = {}

Add(r, v) == /\ Len(log[r]) < MaxWrites
             /\ log' = [log EXCEPT ![r] = Append(@, v)]
             /\ UNCHANGED now

\* Version 1, behind what the id has already.
Insert(r, val) ==
  /\ Add(r, Version(1, val, FALSE))
  /\ chains' = [chains EXCEPT ![r] = Append(@, Version(1, val, FALSE))]
  /\ again' = IF chains[r] = <<>> THEN again ELSE again \cup {r}

\* Mutant: the new version is a copy of the last one, its time too.
UpdateBackdated(r, val) ==
  /\ chains[r] # <<>>
  /\ LET v == [Last(chains[r]) EXCEPT !.ver = @ + 1, !.val = val, !.dead = FALSE]
     IN /\ Add(r, v)
        /\ chains' = [chains EXCEPT ![r] = Trim(Append(@, v), MaxVersions)]
  /\ UNCHANGED again

\* Also of a record that is deleted.  Only here a chain that is too long is trimmed.
Update(r, val) ==
  /\ chains[r] # <<>>
  /\ LET v == Version(Last(chains[r]).ver + 1, val, FALSE)
     IN /\ Add(r, v)
        /\ chains' = [chains EXCEPT ![r] = Trim(Append(@, v), MaxVersions)]
  /\ UNCHANGED again

Delete(r) ==
  /\ chains[r] # <<>>
  /\ LET v == Version(Last(chains[r]).ver + 1, None, TRUE)
     IN Add(r, v) /\ chains' = [chains EXCEPT ![r] = Append(@, v)]
  /\ UNCHANGED again

\* What gc leaves of a chain: the last version, put first, and the others that are not
\* older than ts, sorted by number; equal numbers stay in that order.
Arrange(vs, keep) ==
  LET place(i) == IF i = Len(vs) THEN 0 ELSE i
  IN Arranged(vs, keep, LAMBDA i, j : \/ vs[i].ver < vs[j].ver
                                      \/ vs[i].ver = vs[j].ver /\ place(i) < place(j))

\* Mutant: gc keeps the first version instead of the last.
CollectedFirst(vs, ts) ==
  IF Len(vs) <= 2 THEN vs ELSE Arrange(vs, {i \in DOMAIN vs : i = 1 \/ vs[i].at >= ts})

\* Mutant: gc leaves the last version in front.
CollectedUnsorted(vs, ts) ==
  IF Len(vs) <= 2 THEN vs
  ELSE <<Last(vs)>> \o Kept(vs, {i \in DOMAIN Front(vs) : vs[i].at >= ts})

Collected(vs, ts) ==
  IF Len(vs) <= 2 THEN vs ELSE Arrange(vs, {i \in DOMAIN vs : i = Len(vs) \/ vs[i].at >= ts})

Gc(ts) == /\ chains' = [r \in Id |-> Collected(chains[r], ts)]
          /\ UNCHANGED <<now, log, again>>

\* Two writes may see the same time.
Tick == now < MaxTime /\ now' = now + 1 /\ UNCHANGED <<chains, log, again>>

Next == \/ \E r \in Id, val \in Val : Insert(r, val) \/ Update(r, val)
        \/ \E r \in Id : Delete(r)
        \/ \E ts \in 0..now : Gc(ts)
        \/ Tick

Spec == Init /\ [][Next]_vars

-----------------------------------------------------------------------------
\* What a read without a snapshot returns is the last write: neither trimming nor gc
\* ever takes it, unless the id was inserted again and gc has sorted by number
\* ("Keep latest version", mvcc_multi.py:227).
LatestIsLastWrite ==
  \A r \in Id \ again : Latest(r) = Shown(log[r], Len(log[r]), None)

\* Chains are in the order of time and hold nothing that was not written; that is what
\* the search for the visible version, which stops at the first younger one, needs.
ChainOrdered ==
  \A r \in Id \ again :
    /\ IsInjective([i \in DOMAIN chains[r] |-> chains[r][i].ver])
    /\ \A i \in DOMAIN chains[r] :
         /\ Contains(log[r], chains[r][i])
         /\ i > 1 => /\ chains[r][i - 1].at <= chains[r][i].at
                     /\ chains[r][i - 1].ver < chains[r][i].ver

\* A snapshot of an earlier time never sees a later write, whatever is written, trimmed
\* or collected since: it answers with a version of that time or before, or none
\* ("Snapshot isolation", mvcc_multi.py:40).
SnapshotNeverGains ==
  \A r \in Id, ts \in 0..now :
    GetAt(r, ts) # None =>
      \E i \in DOMAIN log[r] : log[r][i].at <= ts /\ log[r][i].val = GetAt(r, ts)

\* Writing without trimming changes no snapshot of an earlier time ("Writers don't
\* block readers", mvcc_multi.py:42), and a trim or gc takes from such a snapshot only
\* what it saw: it reads the same afterwards, an older version, or nothing.
SnapshotStable ==
  [][\A r \in Id \ again', ts \in 0..(now - 1) :
       LET was == VisibleIndex(chains[r], ts)
           is == VisibleIndex(chains'[r], ts)
       IN IF IsPrefix(chains[r], chains'[r]) THEN was = is
          ELSE is # 0 => was # 0 /\ chains'[r][is].ver <= chains[r][was].ver]_vars
=============================================================================
