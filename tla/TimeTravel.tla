----------------------------- MODULE TimeTravel -----------------------------
(***************************************************************************)
(* The history the core keeps of the records of one collection             *)
(* (timetravel/engine.py): every change appends a version, a history over  *)
(* its limit loses its middle.  log is the untrimmed history.              *)
(***************************************************************************)
EXTENDS Entries

CONSTANTS Id,
          Val, None,     \* the data of a version, and no answer
          MaxVersions,
          MaxTime, MaxWrites   \* bounds

VARIABLES history, now, log
vars == <<history, now, log>>

Init == history = [r \in Id |-> <<>>] /\ log = history /\ now = 0

\* Mutant: the first version is not kept.
MaybeCompactTail(vs) ==
  IF Len(vs) > MaxVersions THEN SubSeq(vs, Len(vs) - (MaxVersions \div 2) + 1, Len(vs)) ELSE vs

MaybeCompact(vs) == Trim(vs, MaxVersions)

\* The core calls with the version of the record it has just stored or deleted.
RecordVersion(r, val, dead) ==
  LET v == [ver |-> Len(log[r]) + 1, val |-> val, at |-> now, dead |-> dead]
  IN /\ Len(log[r]) < MaxWrites
     /\ history' = [history EXCEPT ![r] = MaybeCompact(Append(@, v))]
     /\ log' = [log EXCEPT ![r] = Append(@, v)]
     /\ UNCHANGED now

Tick == now < MaxTime /\ now' = now + 1 /\ UNCHANGED <<history, log>>

\* A record is deleted only when it is there.
Next == \/ \E r \in Id, val \in Val : RecordVersion(r, val, FALSE)
        \/ \E r \in Id : /\ log[r] # <<>> /\ ~Last(log[r]).dead
                         /\ RecordVersion(r, Last(log[r]).val, TRUE)
        \/ Tick

Spec == Init /\ [][Next]_vars

-----------------------------------------------------------------------------
(* Reading.                                                                *)

At(r, ts) == Shown(history[r], VisibleIndex(history[r], ts), None)

\* Mutant: a version of exactly that time is not found.
SearchIndexStrict(vs, ts) ==
  LET from[range \in (1..(Len(vs) + 1)) \X (0..Len(vs))] ==
        LET lo == range[1]
            hi == range[2]
            mid == (lo + hi) \div 2
        IN IF lo > hi THEN 0
           ELSE IF vs[mid].at < ts THEN Max({mid, from[<<mid + 1, hi>>]}) ELSE from[<<lo, mid - 1>>]
  IN from[<<1, Len(vs)>>]

\* snapshot_at(): the binary search for the last version not after ts.
SearchIndex(vs, ts) ==
  LET from[range \in (1..(Len(vs) + 1)) \X (0..Len(vs))] ==
        LET lo == range[1]
            hi == range[2]
            mid == (lo + hi) \div 2
        IN IF lo > hi THEN 0
           ELSE IF vs[mid].at <= ts THEN Max({mid, from[<<mid + 1, hi>>]}) ELSE from[<<lo, mid - 1>>]
  IN from[<<1, Len(vs)>>]
SnapshotAt(ts) ==
  {<<r, Shown(history[r], SearchIndex(history[r], ts), None)>> :
     r \in {q \in Id : Shown(history[q], SearchIndex(history[q], ts), None) # None}}

\* Versions, as records and indices in their history, by their time.
ByTime(found) ==
  CHOOSE s \in [1..Cardinality(found) -> found] :
    /\ IsInjective(s)
    /\ \A i, j \in DOMAIN s : i < j => history[s[i][1]][s[i][2]].at <= history[s[j][1]][s[j][2]].at

\* Mutant: the end of the period is left out.
ChangesBefore(lo, hi) ==
  ByTime({c \in Id \X (1..MaxWrites) : /\ c[2] \in DOMAIN history[c[1]]
                                       /\ lo <= history[c[1]][c[2]].at
                                       /\ history[c[1]][c[2]].at < hi})

\* changes_between(): by time, those of one time record by record.
ChangesBetween(lo, hi) ==
  ByTime({c \in Id \X (1..MaxWrites) : /\ c[2] \in DOMAIN history[c[1]]
                                       /\ lo <= history[c[1]][c[2]].at
                                       /\ history[c[1]][c[2]].at <= hi})

\* diff(): nothing when a version is not kept any more.
Diff(r, a, b) ==
  LET of(n) == {v \in ToSet(history[r]) : v.ver = n}
  IN IF of(a) = {} \/ of(b) = {} THEN {}
     ELSE LET x == CHOOSE v \in of(a) : TRUE
              y == CHOOSE v \in of(b) : TRUE
          IN IF x.val = y.val THEN {} ELSE {<<x.val, y.val>>}

-----------------------------------------------------------------------------
\* The linear search of at() and the binary search of snapshot_at() give the same
\* answer for every record and time (timetravel/engine.py:99, "binary search for speed").
SnapshotIsAt == \A ts \in 0..now : SnapshotAt(ts) = {<<r, At(r, ts)>> : r \in {q \in Id : At(q, ts) # None}}

\* From the oldest of the versions that trimming keeps at the end on, the history answers
\* as if nothing had been trimmed; before that with the first version or not at all
\* ("Keep first + last N/2", as in timetravel/engine.py:60-63).
RecentHistoryExact ==
  \A r \in Id, ts \in 0..now :
    LET truth == Shown(log[r], VisibleIndex(log[r], ts), None)
        trimmed == {i \in DOMAIN log[r] : ~Contains(history[r], log[r][i])}
    IN IF \E i \in trimmed : VisibleIndex(log[r], ts) = i
       THEN At(r, ts) = Shown(log[r], 1, None)
       ELSE At(r, ts) = truth

\* The changes of a period are those kept of it, each once and in the order of time, and
\* those of the last MaxVersions \div 2 writes of a record are never missing; two
\* neighbouring versions of these differ as the log says (timetravel/engine.py:129-184).
ChangesComplete ==
  /\ \A lo, hi \in 0..now :
       LET cs == ChangesBetween(lo, hi)
           kept(r) == {i \in DOMAIN log[r] : i > Len(log[r]) - (MaxVersions \div 2)}
       IN /\ IsInjective(cs)
          /\ \A i, j \in DOMAIN cs : i < j => history[cs[i][1]][cs[i][2]].at <= history[cs[j][1]][cs[j][2]].at
          /\ \A r \in Id : \A i \in kept(r) :
               log[r][i].at \in lo..hi => \E c \in ToSet(cs) : c[1] = r /\ history[r][c[2]].ver = i
  /\ \A r \in Id : \A i \in DOMAIN log[r] :
       i > 1 /\ i > Len(log[r]) - (MaxVersions \div 2) + 1 =>
         Diff(r, i - 1, i) = IF log[r][i - 1].val = log[r][i].val THEN {}
                             ELSE {<<log[r][i - 1].val, log[r][i].val>>}
=============================================================================
