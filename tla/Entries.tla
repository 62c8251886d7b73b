------------------------------- MODULE Entries -------------------------------
(***************************************************************************)
(* What the parts of one process do with sequences of entries: filter and  *)
(* sort them, and, with the versions of one record in the multi-version    *)
(* store (mvcc_multi.py) and the time travel engine                        *)
(* (timetravel/engine.py), trim and search them.  A version is             *)
(* [ver, val, at, dead]; versions are in the order of the writes.          *)
(***************************************************************************)
EXTENDS Integers, SequencesExt

\* The entries of s at the indices I, as Before orders the indices; Kept is SelectSeq in a
\* form that proofs can use.
Arranged(s, I, Before(_, _)) ==
  [k \in 1..Cardinality(I) |->
     s[CHOOSE i \in I : Cardinality({j \in I : Before(j, i)}) = k - 1]]
Kept(s, I) == Arranged(s, I, <)

\* vs[-n:], which for n = 0 is all of vs.
LastOf(vs, n) == IF n = 0 THEN vs ELSE SubSeq(vs, Len(vs) - n + 1, Len(vs))

\* Over the limit, the first version and the last max \div 2 stay.
Trim(vs, max) ==
  IF Len(vs) > max THEN SubSeq(vs, 1, 1) \o LastOf(vs, max \div 2) ELSE vs

\* The last version before the first one that is younger than ts: its index, 0 if none.
VisibleIndex(vs, ts) == Cardinality({i \in DOMAIN vs : \A j \in 1..i : vs[j].at <= ts})

Shown(vs, i, none) == IF i = 0 \/ vs[i].dead THEN none ELSE vs[i].val
=============================================================================
