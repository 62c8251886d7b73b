---------------------------- MODULE IndexSearch ----------------------------
(***************************************************************************)
(* The searches of core/engine.py that take their ids from an index        *)
(* without the core's lock, beside the threads of CoreState that write.    *)
(* find_by_index_raw (raw) and range_raw (range) read the records without  *)
(* the lock too, one after the other; find_by_index (locked) reads them    *)
(* under it; find_prefix (prefix) loops over the live index, and over the  *)
(* live records when the index had nothing.                                *)
(***************************************************************************)
EXTENDS CoreState

VARIABLE search   \* the search under way, or the one that has just returned
searchVars == <<vars, search>>

NoSearch == [phase |-> "done", how |-> "none", want |-> {}, ids |-> {}, seen |-> {},
             size |-> 0, key |-> NoKey, found |-> Empty,
             \* For the properties: the records when their ids were taken from the index, and
             \* the ids nobody has been writing since the search began.
             at |-> Empty, calm |-> {}]

SearchInit == Init /\ search = NoSearch

InIndex(e, want) == {k \in Key : \E v \in want : <<v, k>> \in e}
Written == {job[t].key : t \in {u \in Thread : pc[u] \in WritePcs}}
Taken(ids) == [k \in Key |-> IF k \in ids THEN data[k] ELSE search.at[k]]
Begun(how, want) == [NoSearch EXCEPT !.how = how, !.want = want, !.calm = Key \ Written]

\* One value of the hash index, or some range of the tree: the ids, all at once.
Lookup(how, want) ==
  /\ search.phase = "done"
  /\ how \in {"raw", "locked"} => Cardinality(want) = 1
  /\ LET ids == InIndex(IF how = "range" THEN tree ELSE hash, want)
     IN  search' = [Begun(how, want) EXCEPT
                      !.phase = IF how = "locked" THEN "get_many" ELSE "check",
                      !.ids = ids, !.at = [k \in Key |-> IF k \in ids THEN data[k] ELSE NoRec]]
  /\ UNCHANGED vars

\* "if i in coll" ...
Check(k) ==
  /\ search.phase = "check" /\ k \in search.ids
  /\ search' = IF data[k] = NoRec THEN [search EXCEPT !.ids = @ \ {k}]
               ELSE [search EXCEPT !.ids = @ \ {k}, !.key = k, !.phase = "fetch"]
  /\ UNCHANGED vars

\* ... and "coll[i]", a KeyError when the record has gone in between.
Fetch ==
  /\ search.phase = "fetch"
  /\ search' = IF data[search.key] = NoRec THEN [NoSearch EXCEPT !.how = "failed"]
               ELSE [search EXCEPT !.found[search.key] = data[search.key], !.key = NoKey,
                                   !.phase = "check"]
  /\ UNCHANGED vars

FetchedAll ==
  /\ search.phase = "check" /\ search.ids = {} /\ search' = [search EXCEPT !.phase = "done"]
  /\ UNCHANGED vars

GetMany ==
  /\ search.phase = "get_many" /\ lock = NoThread
  /\ search' = [search EXCEPT !.found = [k \in Key |-> IF k \in search.ids THEN data[k]
                                                       ELSE NoRec],
                              !.ids = {}, !.phase = "done"]
  /\ UNCHANGED vars

-----------------------------------------------------------------------------
\* find_prefix: the prefix stands for the values that begin with it.
Values == {e[1] : e \in hash}
SearchPrefix(want) ==
  /\ search.phase = "done"
  /\ search' = [Begun("prefix", want) EXCEPT !.phase = "buckets", !.size = Cardinality(Values)]
  /\ UNCHANGED vars

\* A bucket of the index; the loop fails when a value has come or gone.
Bucket(v) ==
  /\ search.phase = "buckets" /\ v \in Values \ search.seen
  /\ search' = IF Cardinality(Values) # search.size THEN [NoSearch EXCEPT !.how = "failed"]
               ELSE IF v \notin search.want THEN [search EXCEPT !.seen = @ \cup {v}]
               ELSE [search EXCEPT !.seen = @ \cup {v}, !.ids = @ \cup InIndex(hash, {v}),
                                   !.at = Taken(InIndex(hash, {v}))]
  /\ UNCHANGED vars

\* Without ids from the index all records are looked at.
BucketsDone ==
  /\ search.phase = "buckets" /\ Values \subseteq search.seen
  /\ search' = IF Cardinality(Values) # search.size THEN [NoSearch EXCEPT !.how = "failed"]
               ELSE IF search.ids # {} THEN [search EXCEPT !.phase = "get_many"]
               ELSE [search EXCEPT !.phase = "scan", !.seen = {},
                                   !.size = Cardinality(Present(data))]
  /\ UNCHANGED vars

ScanRecord(k) ==
  /\ search.phase = "scan" /\ k \in Present(data) \ search.seen
  /\ search' = IF Cardinality(Present(data)) # search.size THEN [NoSearch EXCEPT !.how = "failed"]
               ELSE IF data[k].val \notin search.want THEN [search EXCEPT !.seen = @ \cup {k}]
               ELSE [search EXCEPT !.seen = @ \cup {k}, !.found[k] = data[k]]
  /\ UNCHANGED vars

ScannedAll ==
  /\ search.phase = "scan" /\ Present(data) \subseteq search.seen
  /\ search' = IF Cardinality(Present(data)) # search.size THEN [NoSearch EXCEPT !.how = "failed"]
               ELSE [search EXCEPT !.phase = "done"]
  /\ UNCHANGED vars

\* A step of the other threads; what a search has returned is looked at before it.
CoreStep == /\ Next
            /\ search' = IF search.phase = "done" THEN NoSearch
                         ELSE [search EXCEPT !.calm = @ \ Written']

Search == \/ \E want \in SUBSET Val \ {{}} :
               \/ SearchPrefix(want) \/ \E how \in {"raw", "locked", "range"} : Lookup(how, want)
          \/ \E k \in Key : Check(k) \/ ScanRecord(k)
          \/ Fetch \/ FetchedAll \/ GetMany \/ BucketsDone \/ ScannedAll
          \/ \E v \in Val : Bucket(v)

SearchSpec == SearchInit /\ [][CoreStep \/ Search]_searchVars

-----------------------------------------------------------------------------
\* A record that does not have a value that was asked for is in the answer only when it was
\* updated after its id had been taken from the index (engine.py:449-463, 631-644).
AnswerFits ==
  \A k \in Present(search.found) :
    \/ search.found[k].val \in search.want
    \/ search.at[k] # NoRec /\ search.found[k].ver > search.at[k].ver

\* A record that has a value asked for, and that nobody was writing while the search went
\* on, is in the answer, whatever happened to the others.
AnswerComplete ==
  search.phase = "done" =>
    \A k \in search.calm \cap Present(data) : data[k].val \in search.want => search.found[k] # NoRec
=============================================================================
