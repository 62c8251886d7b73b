------------------------------ MODULE BPlusTree ------------------------------
(***************************************************************************)
(* The B+ tree of a sorted index (btree/tree.py), node by node.  A tree is *)
(* a record of the nodes made so far and the number of the root; a leaf    *)
(* has for each key the set of its values and the number of the next leaf, *)
(* an inner node has separators and children.  entries is what the callers *)
(* have put in and not taken out.                                          *)
(***************************************************************************)
EXTENDS Integers, SequencesExt

CONSTANTS Key,        \* integers
          Val,        \* record ids
          Order,      \* at most Order - 1 keys in a node, at least 3
          MaxNodes, MaxEntries,   \* bounds: nodes made between two rebuilds, entries
          MaxLoad     \* bound: keys of a bulk load

VARIABLES tree, size, entries, loaded
vars == <<tree, size, entries, loaded>>

Leaf(ks, vs, nx) == [leaf |-> TRUE, keys |-> ks, vals |-> vs, kids |-> <<>>, next |-> nx]
Inner(ks, cs) == [leaf |-> FALSE, keys |-> ks, vals |-> <<>>, kids |-> cs, next |-> 0]
EmptyTree == [nodes |-> <<Leaf(<<>>, <<>>, 0)>>, root |-> 1]

\* How many keys of ks come before the first that is not Below.
Leading(ks, Below(_)) == Cardinality({i \in DOMAIN ks : \A j \in 1..i : Below(ks[j])})

-----------------------------------------------------------------------------
(* Descending and reading.                                                 *)

\* Mutant: a key equal to a separator goes to the left of it.
FindChildLeft(node, k) == node.kids[1 + Leading(node.keys, LAMBDA s : k > s)]

FindChild(node, k) == node.kids[1 + Leading(node.keys, LAMBDA s : k >= s)]

FindLeaf(t, k) ==
  LET down[n \in DOMAIN t.nodes] ==
        IF t.nodes[n].leaf THEN n ELSE down[FindChild(t.nodes[n], k)]
  IN down[t.root]

LeftmostLeaf(t) ==
  LET down[n \in DOMAIN t.nodes] == IF t.nodes[n].leaf THEN n ELSE down[t.nodes[n].kids[1]]
  IN down[t.root]

Search(t, k) ==
  LET leaf == t.nodes[FindLeaf(t, k)]
  IN IF Contains(leaf.keys, k) THEN leaf.vals[SelectInSeq(leaf.keys, LAMBDA x : x = k)] ELSE {}

\* range(): from a leaf along the links up to the first key above hi.
Scan(t, from, lo, hi) ==
  LET chain[n \in 0..Len(t.nodes)] ==
        IF n = 0 THEN <<>>
        ELSE [i \in DOMAIN t.nodes[n].keys |-> <<t.nodes[n].keys[i], t.nodes[n].vals[i]>>]
               \o chain[t.nodes[n].next]
      tail == SelectSeq(chain[from], LAMBDA e : e[1] >= lo)
  IN SubSeq(tail, 1, Leading(tail, LAMBDA e : e[1] <= hi))

RangeOf(t, lo, hi) == Scan(t, FindLeaf(t, lo), lo, hi)
RangeUpTo(t, hi) == Scan(t, LeftmostLeaf(t), Min(Key), hi)

-----------------------------------------------------------------------------
(* Inserting, with splits up to the root.                                  *)

InsertIntoLeaf(leaf, k, v) ==
  IF Contains(leaf.keys, k)
  THEN [leaf EXCEPT !.vals[SelectInSeq(leaf.keys, LAMBDA x : x = k)] = @ \cup {v}]
  ELSE LET i == 1 + Leading(leaf.keys, LAMBDA x : x < k)
       IN [leaf EXCEPT !.keys = InsertAt(@, i, k), !.vals = InsertAt(@, i, {v})]

RECURSIVE InsertIntoParent(_, _, _, _)

\* The full inner node n gives its upper half to a new node and its middle key up.
SplitInternal(t, n) ==
  LET node == t.nodes[n]
      mid == Len(node.keys) \div 2
      left == Inner(SubSeq(node.keys, 1, mid), SubSeq(node.kids, 1, mid + 1))
      right == Inner(SubSeq(node.keys, mid + 2, Len(node.keys)),
                     SubSeq(node.kids, mid + 2, Len(node.kids)))
  IN InsertIntoParent([t EXCEPT !.nodes = Append([@ EXCEPT ![n] = left], right)],
                      n, node.keys[mid + 1], Len(t.nodes) + 1)

InsertIntoParent(t, left, k, right) ==
  IF left = t.root
  THEN [nodes |-> Append(t.nodes, Inner(<<k>>, <<left, right>>)), root |-> Len(t.nodes) + 1]
  ELSE LET p == CHOOSE n \in DOMAIN t.nodes : Contains(t.nodes[n].kids, left)
           i == SelectInSeq(t.nodes[p].kids, LAMBDA c : c = left)
           grown == [t EXCEPT !.nodes[p].keys = InsertAt(@, i, k),
                              !.nodes[p].kids = InsertAt(@, i + 1, right)]
       IN IF Len(grown.nodes[p].keys) > Order - 1 THEN SplitInternal(grown, p) ELSE grown

\* Mutant: the new leaf is not linked to its right neighbour.
SplitLeafUnlinked(t, n) ==
  LET leaf == t.nodes[n]
      mid == Len(leaf.keys) \div 2
      new == Len(t.nodes) + 1
      right == Leaf(SubSeq(leaf.keys, mid + 1, Len(leaf.keys)),
                    SubSeq(leaf.vals, mid + 1, Len(leaf.vals)), 0)
      left == Leaf(SubSeq(leaf.keys, 1, mid), SubSeq(leaf.vals, 1, mid), new)
  IN InsertIntoParent([t EXCEPT !.nodes = Append([@ EXCEPT ![n] = left], right)],
                      n, right.keys[1], new)

SplitLeaf(t, n) ==
  LET leaf == t.nodes[n]
      mid == Len(leaf.keys) \div 2
      new == Len(t.nodes) + 1
      right == Leaf(SubSeq(leaf.keys, mid + 1, Len(leaf.keys)),
                    SubSeq(leaf.vals, mid + 1, Len(leaf.vals)), leaf.next)
      left == Leaf(SubSeq(leaf.keys, 1, mid), SubSeq(leaf.vals, 1, mid), new)
  IN InsertIntoParent([t EXCEPT !.nodes = Append([@ EXCEPT ![n] = left], right)],
                      n, right.keys[1], new)

\* Mutant: a leaf is split one key too late.
TreeInsertLate(t, k, v) ==
  LET n == FindLeaf(t, k)
      grown == [t EXCEPT !.nodes[n] = InsertIntoLeaf(@, k, v)]
  IN IF Len(grown.nodes[n].keys) > Order THEN SplitLeaf(grown, n) ELSE grown

TreeInsert(t, k, v) ==
  LET n == FindLeaf(t, k)
      grown == [t EXCEPT !.nodes[n] = InsertIntoLeaf(@, k, v)]
  IN IF Len(grown.nodes[n].keys) > Order - 1 THEN SplitLeaf(grown, n) ELSE grown

\* The value v of k, or all of them, goes; a leaf may stay behind empty.
TreeDelete(t, k, gone) ==
  LET n == FindLeaf(t, k)
      leaf == t.nodes[n]
      i == SelectInSeq(leaf.keys, LAMBDA x : x = k)
      rest == leaf.vals[i] \ gone
  IN IF i = 0 THEN t
     ELSE IF rest # {} THEN [t EXCEPT !.nodes[n].vals[i] = rest]
     ELSE [t EXCEPT !.nodes[n].keys = RemoveAt(@, i), !.nodes[n].vals = RemoveAt(@, i)]

-----------------------------------------------------------------------------
(* bulk_load(): leaves from the sorted keys, then level by level.          *)

\* s in runs of at most n.
Chunks(s, n) ==
  [c \in 1..((Len(s) + n - 1) \div n) |-> SubSeq(s, (c - 1) * n + 1, Min({c * n, Len(s)}))]

\* A parent of the nodes ns: a separator for each child but the first, if it has a key.
ParentOf(t, ns) ==
  LET keyed == SelectSeq(Tail(ns), LAMBDA c : t.nodes[c].keys # <<>>)
  IN Inner([i \in DOMAIN keyed |-> t.nodes[keyed[i]].keys[1]], ns)

RECURSIVE Stack(_, _)
Stack(t, level) ==
  IF Len(level) = 1 THEN [t EXCEPT !.root = level[1]]
  ELSE LET groups == Chunks(level, Order)
           up == [g \in DOMAIN groups |-> ParentOf(t, groups[g])]
       IN Stack([t EXCEPT !.nodes = @ \o up], [g \in DOMAIN groups |-> Len(t.nodes) + g])

TreeBulkLoad(items) ==
  LET ks == SetToSortSeq({e[1] : e \in items}, <)
      ofKey(k) == {e[2] : e \in {x \in items : x[1] = k}}
      runs == Chunks(ks, Order - 1)
      leaves == [r \in DOMAIN runs |->
                   Leaf(runs[r], [i \in DOMAIN runs[r] |-> ofKey(runs[r][i])],
                        IF r < Len(runs) THEN r + 1 ELSE 0)]
  IN IF items = {} THEN EmptyTree
     ELSE Stack([nodes |-> leaves, root |-> 1], [r \in DOMAIN leaves |-> r])

-----------------------------------------------------------------------------
Init == tree = EmptyTree /\ size = 0 /\ entries = {} /\ loaded = FALSE

Insert(k, v) ==
  /\ Len(tree.nodes) < MaxNodes /\ Cardinality(entries) < MaxEntries
  /\ tree' = TreeInsert(tree, k, v)
  /\ size' = IF v \in Search(tree, k) THEN size ELSE size + 1
  /\ entries' = entries \cup {<<k, v>>}
  /\ UNCHANGED loaded

DeleteValue(k, v) ==
  /\ tree' = TreeDelete(tree, k, {v})
  /\ size' = IF v \in Search(tree, k) THEN size - 1 ELSE size
  /\ entries' = entries \ {<<k, v>>}
  /\ UNCHANGED loaded

\* Mutant: a key counts as one entry.
DeleteKeyOne(k) ==
  /\ tree' = TreeDelete(tree, k, Val)
  /\ size' = IF Search(tree, k) = {} THEN size ELSE size - 1
  /\ entries' = {e \in entries : e[1] # k}
  /\ UNCHANGED loaded

DeleteKey(k) ==
  /\ tree' = TreeDelete(tree, k, Val)
  /\ size' = size - Cardinality(Search(tree, k))
  /\ entries' = {e \in entries : e[1] # k}
  /\ UNCHANGED loaded

\* A rebuild of the index: bulk_load resets the size only when there is nothing to load.
BulkLoad(items) ==
  /\ Cardinality({e[1] : e \in items}) <= MaxLoad
  /\ size <= Cardinality(Key \X Val)      \* bound: the size drifts with every load
  /\ tree' = TreeBulkLoad(items)
  /\ size' = IF items = {} THEN 0 ELSE size + Cardinality(items)
  /\ entries' = items
  /\ loaded' = (items # {} /\ (loaded \/ size > 0))

Next == \/ \E k \in Key, v \in Val : Insert(k, v) \/ DeleteValue(k, v)
        \/ \E k \in Key : DeleteKey(k)
        \/ \E n \in 0..MaxLoad : BulkLoad({k \in Key : k <= n} \X {CHOOSE v \in Val : TRUE})

Spec == Init /\ [][Next]_vars

-----------------------------------------------------------------------------
ValuesOf(k) == {v \in Val : <<k, v>> \in entries}
Sorted(lo, hi) == LET ks == SetToSortSeq({k \in lo..hi : ValuesOf(k) # {}}, <)
                  IN [i \in DOMAIN ks |-> <<ks[i], ValuesOf(ks[i])>>]

\* A search finds what was put in, whatever splits, deletes and empty leaves lie between
\* (btree/tree.py:35, "tree.search(10)  # ["a"]").
SearchFindsEntries == \A k \in Key : Search(tree, k) = ValuesOf(k)

\* A range scan lists exactly the entries between its ends, in order, each once: the
\* links of the leaves and the separators agree (btree/tree.py:177-201).
RangeIsEntries == /\ \A lo, hi \in Key : lo <= hi => RangeOf(tree, lo, hi) = Sorted(lo, hi)
                  /\ \A hi \in Key : RangeUpTo(tree, hi) = Sorted(Min(Key), hi)

\* All leaves are equally deep, an inner node has one child more than keys, and no
\* node is over its limit ("Self-balancing tree", btree/tree.py:4).
Balanced ==
  LET depth[n \in DOMAIN tree.nodes] ==
        IF tree.nodes[n].leaf THEN {0}
        ELSE {d + 1 : d \in UNION {depth[c] : c \in ToSet(tree.nodes[n].kids)}}
  IN /\ Cardinality(depth[tree.root]) = 1
     /\ \A n \in DOMAIN tree.nodes :
          /\ Len(tree.nodes[n].keys) <= Order - 1
          /\ ~tree.nodes[n].leaf => Len(tree.nodes[n].kids) = Len(tree.nodes[n].keys) + 1

\* The size is the number of entries until a bulk load into a tree that was not empty,
\* and never less (btree/tree.py:252 adds without a reset).
SizeCounts == /\ size >= Cardinality(entries)
              /\ ~loaded => size = Cardinality(entries)
=============================================================================
