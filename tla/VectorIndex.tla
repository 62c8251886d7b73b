----------------------------- MODULE VectorIndex -----------------------------
(***************************************************************************)
(* The graph of near neighbours for vector search (hnsw/index.py): layers  *)
(* of links, a search that goes down greedily, the pruning of full lists,  *)
(* and deletions, which an insert of a known id begins with.  A vector is  *)
(* a point on a line; all that the code does with vectors is to compare    *)
(* distances.  The random level of a node is any.  index.order is the      *)
(* order of the dict; links[id][layer + 1] is a list; churned says that a  *)
(* node has been deleted or inserted again.                                *)
(***************************************************************************)
EXTENDS Integers, SequencesExt

CONSTANTS Places,          \* of each id, the points and levels <<v, l>> it is inserted with
          NoId,
          M, EfConstruction, EfSearch,
          MaxChurn         \* bound: deletions and repeated inserts

VARIABLES index, churned
vars == <<index, churned>>

Id == DOMAIN Places
Place == UNION {Places[i] : i \in Id}
Empty == [order |-> <<>>, vec |-> [i \in Id |-> 0], level |-> [i \in Id |-> 0],
          links |-> [i \in Id |-> <<>>], entry |-> NoId, top |-> -1]
Stored(x) == Range(x.order)

Dist(p, q) == IF p < q THEN q - p ELSE p - q
Dis(x, q, n) == Dist(q, x.vec[n])
Closer(x, q, a, b) == Dis(x, q, a) < Dis(x, q, b) \/ (Dis(x, q, a) = Dis(x, q, b) /\ a < b)
Ranked(x, q, S) ==
  [i \in 1..Cardinality(S) |-> CHOOSE n \in S : Cardinality({o \in S : Closer(x, q, o, n)}) = i - 1]
First(n, s) == SubSeq(s, 1, IF n < Len(s) THEN n ELSE Len(s))
Larger(m, n) == IF m < n THEN n ELSE m
\* range(high, low, -1)
Down(high, low) == [i \in 1..Larger(high - low, 0) |-> high + 1 - i]

Bound(layer) == IF layer = 0 THEN 2 * M ELSE M
ListAt(x, n, layer) == IF layer < Len(x.links[n]) THEN x.links[n][layer + 1] ELSE <<>>
\* Links to deleted nodes stay in lists; every loop skips them.
Neighbors(x, n, layer) == SelectSeq(ListAt(x, n, layer), LAMBDA b : b \in Stored(x))

-----------------------------------------------------------------------------
(* Search.                                                                 *)

\* One round over a list, then on from the closest node while that is a new one.
Descend(x, q, start, layer) ==
  LET Round(c) == FoldLeft(LAMBDA best, n : IF Dis(x, q, n) < Dis(x, q, best) THEN n ELSE best,
                           c, Neighbors(x, c, layer))
      f[c \in Stored(x)] == IF Round(c) = c THEN c ELSE f[Round(c)]
  IN f[start]

\* From the entry point through the layers above low.
DescendTo(x, q, low) ==
  FoldLeft(LAMBDA c, layer : Descend(x, q, c, layer), x.entry, Down(x.top, low))

Worst(x, q, S) == CHOOSE a \in S : \A b \in S : \/ Dis(x, q, a) > Dis(x, q, b)
                                                \/ (Dis(x, q, a) = Dis(x, q, b) /\ a <= b)
Best(x, q, S) == CHOOSE a \in S : \A b \in S \ {a} : Closer(x, q, a, b)

\* A neighbour that is seen for the first time.
See(x, q, ef, s, n) ==
  LET results == s.results \cup {n}
      far == Worst(x, q, s.results)
  IN IF n \in s.visited THEN s
     ELSE IF Cardinality(s.results) < ef \/ Dis(x, q, n) < Dis(x, q, far)
     THEN [visited |-> s.visited \cup {n}, candidates |-> s.candidates \cup {n},
           results |-> IF Cardinality(results) > ef THEN results \ {Worst(x, q, results)} ELSE results]
     ELSE [s EXCEPT !.visited = @ \cup {n}]

\* Mutant: the search ends when the next candidate is no better than the worst result.
RECURSIVE ExploreLess(_, _, _, _, _)
ExploreLess(x, q, ef, layer, s) ==
  LET c == Best(x, q, s.candidates)
  IN IF s.candidates = {} \/ Dis(x, q, Worst(x, q, s.results)) <= Dis(x, q, c) THEN s.results
     ELSE ExploreLess(x, q, ef, layer,
                      FoldLeft(LAMBDA t, n : See(x, q, ef, t, n), [s EXCEPT !.candidates = @ \ {c}],
                               Neighbors(x, c, layer)))

RECURSIVE Explore(_, _, _, _, _)
Explore(x, q, ef, layer, s) ==
  LET c == Best(x, q, s.candidates)
  IN IF s.candidates = {} \/ Dis(x, q, Worst(x, q, s.results)) < Dis(x, q, c) THEN s.results
     ELSE Explore(x, q, ef, layer,
                  FoldLeft(LAMBDA t, n : See(x, q, ef, t, n), [s EXCEPT !.candidates = @ \ {c}],
                           Neighbors(x, c, layer)))

SearchLayer(x, q, start, ef, layer) ==
  Ranked(x, q, Explore(x, q, ef, layer,
                       [visited |-> {start}, candidates |-> {start}, results |-> {start}]))

Search(x, q, k) ==
  IF x.entry = NoId THEN <<>>
  ELSE First(k, SearchLayer(x, q, DescendTo(x, q, 0), Larger(EfSearch, k), 0))

-----------------------------------------------------------------------------
(* Links.                                                                  *)

Padded(lists, layer) == [l \in 1..Larger(layer + 1, Len(lists)) |-> IF l \in DOMAIN lists THEN lists[l] ELSE <<>>]
WithLink(lists, b, layer) ==
  LET p == Padded(lists, layer)
  IN IF Contains(p[layer + 1], b) THEN p ELSE [p EXCEPT ![layer + 1] = Append(@, b)]

\* Mutant: every layer allows as many neighbours as layer 0.
PruneWide(x, n, layer) ==
  LET list == x.links[n][layer + 1]
  IN IF Len(list) <= Bound(0) THEN x
     ELSE [x EXCEPT !.links[n][layer + 1] = First(Bound(0), Ranked(x, x.vec[n], Range(list) \cap Stored(x)))]

Prune(x, n, layer) ==
  LET list == x.links[n][layer + 1]
  IN IF Len(list) <= Bound(layer) THEN x
     ELSE [x EXCEPT !.links[n][layer + 1] = First(Bound(layer), Ranked(x, x.vec[n], Range(list) \cap Stored(x)))]

\* Mutant: the new node is linked to b, b not to the new node.
AddEdgeOneWay(x, a, b, layer) ==
  Prune([x EXCEPT !.links[a] = WithLink(@, b, layer), !.links[b] = Padded(@, layer)], b, layer)

AddEdge(x, a, b, layer) ==
  Prune([x EXCEPT !.links[a] = WithLink(@, b, layer), !.links[b] = WithLink(@, a, layer)], b, layer)

\* The insert of node id at one layer, searching from s.start.
Connect(s, id, layer) ==
  LET q == s.x.vec[id]
      near == First(Bound(layer), SearchLayer(s.x, q, s.start, EfConstruction, layer))
  IN [x |-> FoldLeft(LAMBDA x, b : AddEdge(x, id, b, layer), s.x, near), start |-> near[1]]

\* The nodes that _delete_node takes the node out of.  When it comes to the node itself
\* it shortens the list it is walking through, and so skips the next one.
Visits(x, id) ==
  LET lists == x.links[id]
      Own(l) == Contains(lists[l], id)
      Walked(l) == IF Own(l) /\ \A k \in 1..l - 1 : ~Own(k)
                   THEN {lists[l][i] : i \in {i \in DOMAIN lists[l] : i = 1 \/ lists[l][i - 1] # id}}
                   ELSE Range(lists[l])
  IN UNION {Walked(l) : l \in DOMAIN lists} \cap Stored(x)

\* Mutant: the highest level stays that of the deleted entry point.
RemovedKeepsTop(x, id) ==
  LET order == Remove(x.order, id)
      without == [n \in Id |-> IF n = id THEN <<>>
                               ELSE IF n \in Visits(x, id)
                               THEN [l \in DOMAIN x.links[n] |-> Remove(x.links[n][l], id)] ELSE x.links[n]]
  IN [x EXCEPT !.order = order, !.links = without,
               !.entry = IF @ # id THEN @ ELSE IF order = <<>> THEN NoId ELSE order[1]]

\* Without the entry point the oldest node becomes it, and its level the highest.
Removed(x, id) ==
  LET order == Remove(x.order, id)
      without == [n \in Id |-> IF n = id THEN <<>>
                               ELSE IF n \in Visits(x, id)
                               THEN [l \in DOMAIN x.links[n] |-> Remove(x.links[n][l], id)] ELSE x.links[n]]
      entry == IF x.entry # id THEN x.entry ELSE IF order = <<>> THEN NoId ELSE order[1]
  IN [x EXCEPT !.order = order, !.links = without, !.entry = entry,
               !.top = IF x.entry # id THEN @ ELSE IF entry = NoId THEN -1 ELSE x.level[entry]]

Inserted(x, id, v, l) ==
  LET new == [x EXCEPT !.order = Append(@, id), !.vec[id] = v, !.level[id] = l,
                       !.links[id] = [i \in 1..l + 1 |-> <<>>]]
      low == IF l < x.top THEN l ELSE x.top
      linked == FoldLeft(LAMBDA s, layer : Connect(s, id, layer),
                         [x |-> new, start |-> DescendTo(new, v, l)],
                         Down(low, -1)).x
  IN IF x.entry = NoId THEN [new EXCEPT !.entry = id, !.top = l]
     ELSE IF l > x.top THEN [linked EXCEPT !.entry = id, !.top = l] ELSE linked

-----------------------------------------------------------------------------
Init == index = Empty /\ churned = 0

Insert(id, v, l) ==
  IF id \in Stored(index)
  THEN churned < MaxChurn /\ churned' = churned + 1 /\ index' = Inserted(Removed(index, id), id, v, l)
  ELSE churned' = churned /\ index' = Inserted(index, id, v, l)

Delete(id) ==
  /\ id \in Stored(index) /\ churned < MaxChurn
  /\ churned' = churned + 1 /\ index' = Removed(index, id)

Clear ==
  /\ index.order # <<>> /\ churned < MaxChurn
  /\ churned' = churned + 1 /\ index' = Empty

\* Bound: ids are inserted for the first time in their order.
Next == \/ \E id \in Id : /\ \A i \in Id : i < id /\ churned = 0 => i \in Stored(index)
                          /\ \E p \in Places[id] : Insert(id, p[1], p[2])
        \/ \E id \in Id : Delete(id)
        \/ Clear

Spec == Init /\ [][Next]_vars

-----------------------------------------------------------------------------
Links == {<<a, b, l>> \in Id \X Id \X {p[2] : p \in Place} : Contains(ListAt(index, a, l), b)}

\* No node has more neighbours in a layer than m, twice m in layer 0, and none twice,
\* however often it is chosen by others (_prune; "Each node has M neighbors per layer",
\* hnsw/index.py:11).
ListsBounded ==
  \A n \in Id : \A l \in DOMAIN index.links[n] :
    Len(index.links[n][l]) <= Bound(l - 1) /\ IsInjective(index.links[n][l])

\* While nothing has been deleted or inserted again, links are both ways except where a
\* full list has dropped one, no node is its own neighbour and none is missing
\* (_add_edge: "Add bidirectional edge").  Later the links that deletions leave behind
\* break all three.
OneWayOnlyFromFullLists ==
  churned = 0 => \A e \in Links :
    /\ e[1] # e[2] /\ {e[1], e[2]} \subseteq Stored(index)
    /\ <<e[2], e[1], e[3]>> \in Links \/ Len(ListAt(index, e[2], e[3])) = Bound(e[3])

Reachable(start) ==
  LET Grow(S) == S \cup UNION {Range(Neighbors(index, n, 0)) : n \in S}
      f[i \in 0..Cardinality(Id)] == IF i = 0 THEN {start} ELSE Grow(f[i - 1])
  IN f[Cardinality(Id)]

\* A search that may keep as many results as there are nodes finds the k nearest of all
\* that links lead to from where the descent ends, whatever churn has left in the lists:
\* in order, none twice, no deleted one.
SearchFindsReachable ==
  \A q \in {p[1] : p \in Place}, k \in {2} :
    index.entry # NoId /\ Cardinality(Id) <= EfSearch =>
      Search(index, q, k) = First(k, Ranked(index, q, Reachable(DescendTo(index, q, 0))))

\* The search begins at a stored node whose level is the recorded one, and as long as
\* nothing was deleted that is the highest of all.
EntryIsTop ==
  IF index.order = <<>> THEN index.entry = NoId /\ index.top = -1
  ELSE /\ index.entry \in Stored(index) /\ index.top = index.level[index.entry]
       /\ churned = 0 => \A n \in Stored(index) : index.level[n] <= index.top
=============================================================================
