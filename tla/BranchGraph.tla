----------------------------- MODULE BranchGraph -----------------------------
(***************************************************************************)
(* The graph of writes that several writers share (smart.py, _Graph): a    *)
(* node has its parents, a branch has its tips.  Nodes are numbered in the *)
(* order they are made.  wrote records who wrote each node.                *)
(***************************************************************************)
EXTENDS Integers, SequencesExt

CONSTANTS Branch,
          MaxNodes   \* bound

VARIABLES nodes, tips, wrote
vars == <<nodes, tips, wrote>>

Node == DOMAIN nodes

Init == nodes = <<>> /\ tips = <<>> /\ wrote = [b \in Branch |-> {}]

Open(b) == /\ b \notin DOMAIN tips
           /\ tips' = tips @@ (b :> <<>>)
           /\ UNCHANGED <<nodes, wrote>>

\* Mutant: the new node has no parents.
WriteUnlinked(b) ==
  /\ Len(nodes) < MaxNodes
  /\ nodes' = Append(nodes, [op |-> "write", parents |-> <<>>])
  /\ tips' = (b :> <<Len(nodes) + 1>>) @@ tips
  /\ wrote' = [wrote EXCEPT ![b] = @ \cup {Len(nodes) + 1}]

\* The new node's parents are the tips of its branch, and it is the only tip.
Write(b) ==
  /\ Len(nodes) < MaxNodes
  /\ LET parents == IF b \in DOMAIN tips THEN tips[b] ELSE <<>>
     IN nodes' = Append(nodes, [op |-> "write", parents |-> parents])
  /\ tips' = (b :> <<Len(nodes) + 1>>) @@ tips
  /\ wrote' = [wrote EXCEPT ![b] = @ \cup {Len(nodes) + 1}]

\* Mutant: only the first of the merged nodes becomes a parent.
MergeFirst(ids) ==
  /\ Len(nodes) < MaxNodes /\ Len(ids) >= 2
  /\ nodes' = Append(nodes, [op |-> "merge", parents |-> <<ids[1]>>])
  /\ tips' = [b \in DOMAIN tips |-> IF ToSet(tips[b]) \cap ToSet(ids) # {}
                                   THEN <<Len(nodes) + 1>> ELSE tips[b]]
  /\ UNCHANGED wrote

\* Every branch with one of the merged nodes as a tip goes on from the merge.
Merge(ids) ==
  /\ Len(nodes) < MaxNodes /\ Len(ids) >= 2
  /\ nodes' = Append(nodes, [op |-> "merge", parents |-> ids])
  /\ tips' = [b \in DOMAIN tips |-> IF ToSet(tips[b]) \cap ToSet(ids) # {}
                                   THEN <<Len(nodes) + 1>> ELSE tips[b]]
  /\ UNCHANGED wrote

Next == \/ \E b \in Branch : Open(b) \/ Write(b)
        \/ \E a, b \in Node : Merge(<<a, b>>)

Spec == Init /\ [][Next]_vars

\* ancestors(): depth first, a node after its parents; seen so far in the order of done.
RECURSIVE Visit(_, _)
Visit(done, n) ==
  IF Contains(done, n) THEN done
  ELSE Append(FoldLeft(Visit, done, nodes[n].parents), n)
Ancestors(n) == Visit(<<>>, n)

\* What replay() applies.
Replay(n) == SelectSeq(Ancestors(n), LAMBDA i : nodes[i].op # "merge")
Tip(b) == Last(tips[b])

-----------------------------------------------------------------------------
\* Replaying the tip of a branch applies every write of that branch, also those it had
\* before it was merged, with others or with itself (smart.py:153-214).
BranchKeepsItsWrites ==
  \A b \in DOMAIN tips : wrote[b] # {} => wrote[b] \subseteq ToSet(Replay(Tip(b)))

\* A replay applies a write once, after everything it was written on top of, and what
\* one branch wrote in the order it wrote it (smart.py:176-191).
ReplayInOrder ==
  \A n \in Node :
    LET order == Ancestors(n)
        at(i) == SelectInSeq(order, LAMBDA x : x = i)
    IN /\ Cardinality(ToSet(order)) = Len(order)
       /\ \A i \in ToSet(order) : \A p \in ToSet(nodes[i].parents) : at(p) # 0 /\ at(p) < at(i)
       /\ \A b \in Branch : \A i, j \in wrote[b] : i < j /\ at(j) # 0 => at(i) # 0 /\ at(i) < at(j)

\* Merging a set of nodes gives a tip from which no write of theirs is missing, and
\* never takes a write away from a branch that is not merged (smart.py:193-210).
MergeLosesNothing ==
  [][\A n \in Node : ToSet(Replay(n)) \subseteq ToSet(Replay(n))'
       /\ \A b \in DOMAIN tips : tips[b] # <<>> => ToSet(Replay(Tip(b))) \subseteq ToSet(Replay(Tip(b)))']_vars
=============================================================================
