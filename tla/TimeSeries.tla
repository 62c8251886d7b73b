----------------------------- MODULE TimeSeries -----------------------------
(***************************************************************************)
(* One metric of the time series (timeseries.py): a bounded deque of       *)
(* points, appended to in the order of the calls, whatever their time.     *)
(* log keeps all points ever written, for the properties.                  *)
(***************************************************************************)
EXTENDS Integers, SequencesExt

CONSTANTS Value,      \* integers
          MaxPoints, Retention, Bucket,
          MaxTime, MaxWrites   \* bounds

VARIABLES points, now, log
vars == <<points, now, log>>

Point == [ts : 0..MaxTime, val : Value]

\* What a deque with a maximal length keeps of s.
Bounded(s) == IF Len(s) > MaxPoints THEN SubSeq(s, Len(s) - MaxPoints + 1, Len(s)) ELSE s

\* query(): the points of a period; a limit other than none and 0 keeps the last ones.
Query(lo, hi, limit) ==
  LET found == SelectSeq(points, LAMBDA p : lo <= p.ts /\ p.ts <= hi)
  IN IF limit = 0 \/ limit >= Len(found) THEN found
     ELSE SubSeq(found, Len(found) - limit + 1, Len(found))

Values(s) == [i \in DOMAIN s |-> s[i].val]

Aggregate(op, vs) ==
  CASE op = "sum" -> FoldLeft(+, 0, vs)
    [] op = "min" -> Min(ToSet(vs))
    [] op = "max" -> Max(ToSet(vs))
    [] op = "count" -> Len(vs)

\* Mutant: a point replaces the bucket it falls in.
DownsampleLast(op) ==
  LET all == Query(0, now, 0)
      in(b) == <<Last(SelectSeq(all, LAMBDA p : p.ts \div Bucket = b))>>
      ids == SetToSortSeq({p.ts \div Bucket : p \in ToSet(all)}, <)
  IN [i \in DOMAIN ids |-> <<ids[i] * Bucket, Aggregate(op, Values(in(ids[i])))>>]

\* downsample(): the points up to now, by bucket of time.
Downsample(op) ==
  LET all == Query(0, now, 0)
      in(b) == SelectSeq(all, LAMBDA p : p.ts \div Bucket = b)
      ids == SetToSortSeq({p.ts \div Bucket : p \in ToSet(all)}, <)
  IN [i \in DOMAIN ids |-> <<ids[i] * Bucket, Aggregate(op, Values(in(ids[i])))>>]

Init == points = <<>> /\ now = 0 /\ log = <<>>

\* write() with or without a time of its own, write_many() with several points.
Write(ps) == /\ Len(log) + Len(ps) <= MaxWrites
             /\ points' = Bounded(points \o ps)
             /\ log' = log \o ps
             /\ UNCHANGED now

\* Mutant: a point exactly at the cut-off goes.
ApplyRetentionStrict == /\ points' = SelectSeq(points, LAMBDA p : p.ts > now - Retention)
                        /\ UNCHANGED <<now, log>>

ApplyRetention == /\ points' = SelectSeq(points, LAMBDA p : p.ts >= now - Retention)
                  /\ UNCHANGED <<now, log>>

Tick == now < MaxTime /\ now' = now + 1 /\ UNCHANGED <<points, log>>

Next == \/ \E p \in Point : Write(<<p>>)
        \/ \E p, q \in Point : Write(<<p, q>>)
        \/ ApplyRetention \/ Tick

Spec == Init /\ [][Next]_vars

-----------------------------------------------------------------------------
Recent == Bounded(log)

InTime(s) == SelectSeq(s, LAMBDA p : p.ts >= now - Retention)

\* Retention and the limit of the deque lose only what they may: the points among the
\* last MaxPoints written that are not too old are all answered, last and in the order
\* written, and nothing is answered that was not written (timeseries.py:198-211).
RecentPointsStay ==
  /\ IsSuffix(InTime(Recent), InTime(points))
  /\ \E kept \in SUBSET DOMAIN log :
       /\ Cardinality(kept) = Len(points) /\ Len(points) <= MaxPoints
       /\ \A i \in DOMAIN points : points[i] = log[SetToSortSeq(kept, <)[i]]

\* Downsampling counts each point of the period once, in one bucket that starts at or
\* before it, and bucket extremes are extremes of the points (timeseries.py:162-192).
DownsampleCounts ==
  LET all == Query(0, now, 0)
      counts == Downsample("count")
      sums == Downsample("sum")
  IN /\ FoldLeft(+, 0, [i \in DOMAIN counts |-> counts[i][2]]) = Len(all)
     /\ FoldLeft(+, 0, [i \in DOMAIN sums |-> sums[i][2]]) = Aggregate("sum", Values(all))
     /\ all # <<>> => /\ Min({d[2] : d \in ToSet(Downsample("min"))}) = Aggregate("min", Values(all))
                      /\ Max({d[2] : d \in ToSet(Downsample("max"))}) = Aggregate("max", Values(all))
     /\ \A i \in DOMAIN counts : i > 1 => counts[i - 1][1] + Bucket <= counts[i][1]
=============================================================================
