---------------------------- MODULE RecencyCache ----------------------------
(***************************************************************************)
(* The LRU cache with time to live (cache/lru.py) and the query cache      *)
(* above it, whose keys carry the version of their collection.  store is   *)
(* the OrderedDict: a sequence of entries, least recently used first.      *)
(* latest and useAt record what callers did, for the properties.           *)
(***************************************************************************)
EXTENDS Entries

CONSTANTS Name,       \* query parameters
          Val, NoVal, \* cached results, and the absence of one
          MaxSize, Ttl,
          MaxTime     \* bound: the clock, the version and the number of uses

VARIABLES store, now, version, latest, useAt, uses
vars == <<store, now, version, latest, useAt, uses>>

\* Mutant: the version of the collection is left out of the key.
KeyOfName(n) == <<n, 0>>

KeyOf(n) == <<n, version>>
Position(k) == SelectInSeq(store, LAMBDA e : e.key = k)
Without(k) == IF Position(k) = 0 THEN store ELSE RemoveAt(store, Position(k))
Expired(e) == now > e.expires
Fresh(k) == Position(k) # 0 /\ ~Expired(store[Position(k)])

\* What a get of k returns.
Lookup(k) == IF Fresh(k) THEN store[Position(k)].val ELSE NoVal

Init == /\ store = <<>> /\ now = 0 /\ version = 0 /\ uses = 0
        /\ latest = [n \in Name |-> NoVal] /\ useAt = [n \in Name |-> 0]

Use(n) == /\ uses < MaxTime /\ uses' = uses + 1 /\ useAt' = [useAt EXCEPT ![n] = uses + 1]

\* Mutant: a hit stays where it is.
GetInPlace(n) ==
  LET k == KeyOf(n)
  IN /\ Position(k) # 0
     /\ \/ Fresh(k) /\ store' = store /\ Use(n)
        \/ ~Fresh(k) /\ store' = Without(k) /\ UNCHANGED <<useAt, uses>>
     /\ UNCHANGED <<now, version, latest>>

\* A hit goes to the end; an expired entry is deleted.
Get(n) ==
  LET k == KeyOf(n)
  IN /\ Position(k) # 0
     /\ \/ Fresh(k) /\ store' = Append(Without(k), store[Position(k)]) /\ Use(n)
        \/ ~Fresh(k) /\ store' = Without(k) /\ UNCHANGED <<useAt, uses>>
     /\ UNCHANGED <<now, version, latest>>

\* Mutant: one entry too many stays.
EvictLate(s) == SubSeq(s, 1 + (IF Len(s) > MaxSize + 1 THEN Len(s) - MaxSize ELSE 0), Len(s))

\* The least recently used entries go until the cache fits.
Evict(s) == SubSeq(s, 1 + (IF Len(s) > MaxSize THEN Len(s) - MaxSize ELSE 0), Len(s))

Set(n, v, ttl) ==
  /\ store' = Evict(Append(Without(KeyOf(n)),
                           [key |-> KeyOf(n), val |-> v, expires |-> now + ttl]))
  /\ latest' = [latest EXCEPT ![n] = v]
  /\ Use(n)
  /\ UNCHANGED <<now, version>>

Invalidate(n) ==
  /\ store' = Without(KeyOf(n)) /\ latest' = [latest EXCEPT ![n] = NoVal]
  /\ UNCHANGED <<now, version, useAt, uses>>

\* The collection changes: entries of the old version stay but are not found again.
InvalidateCollection ==
  /\ version < MaxTime /\ version' = version + 1
  /\ latest' = [n \in Name |-> NoVal]
  /\ UNCHANGED <<store, now, useAt, uses>>

CleanupExpired ==
  /\ store' = Kept(store, {i \in DOMAIN store : ~Expired(store[i])})
  /\ UNCHANGED <<now, version, latest, useAt, uses>>

Clear == /\ store' = <<>> /\ UNCHANGED <<now, version, latest, useAt, uses>>

Tick == now < MaxTime /\ now' = now + 1 /\ UNCHANGED <<store, version, latest, useAt, uses>>

Next == \/ \E n \in Name : Get(n) \/ Invalidate(n)
        \/ \E n \in Name, v \in Val, ttl \in Ttl : Set(n, v, ttl)
        \/ InvalidateCollection \/ CleanupExpired \/ Clear \/ Tick

Spec == Init /\ [][Next]_vars

-----------------------------------------------------------------------------
\* A get answers with the last result set since the collection changed, or not at all
\* (cache/lru.py:154, "so we invalidate on writes").
AnswersAreLatest == \A n \in Name : Lookup(KeyOf(n)) \in {latest[n], NoVal}

\* The order of the entries is the order of their last use, among the entries of the
\* current version: what is evicted is the least recently used ("Move to end", lru.py:54).
OrderIsRecency ==
  \A i, j \in DOMAIN store :
    i < j /\ store[i].key[2] = version /\ store[j].key[2] = version
      => useAt[store[i].key[1]] < useAt[store[j].key[1]]

\* The cache is never above its limit and holds a key at most once (lru.py:74).
WithinLimit == /\ Len(store) <= MaxSize
               /\ \A i, j \in DOMAIN store : store[i].key = store[j].key => i = j
=============================================================================
