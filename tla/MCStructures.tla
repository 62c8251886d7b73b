---------------------------- MODULE MCStructures ----------------------------
(***************************************************************************)
(* The parts of one process on small instances, with those that the        *)
(* proofs leave out: the B+ tree, the time series and the branch graph.    *)
(***************************************************************************)
EXTENDS Structures

CONSTANTS a, b, r1, r2

VARIABLES tree, size, entries, loaded,  \* tree
          points, pointLog,             \* series
          nodes, tips, wrote            \* graph
treeVars == <<tree, size, entries, loaded>>
seriesVars == <<points, pointLog>>
graphVars == <<nodes, tips, wrote>>
partVars == <<lruVars, pageVars, savepointVars, mvccVars, travelVars>>

Tree == INSTANCE BPlusTree WITH Key <- 1..5, Order <- 3, MaxNodes <- 5, MaxEntries <- 5,
                          MaxLoad <- 5
Series == INSTANCE TimeSeries WITH Value <- {1, 2}, MaxPoints <- 2, Retention <- 1, Bucket <- 2,
                                   MaxTime <- 3, MaxWrites <- 3, log <- pointLog
Graph == INSTANCE BranchGraph WITH Branch <- {"x", "y", "z"}, MaxNodes <- 4

MCInit == /\ \/ Init
             \/ part \in {"tree", "series", "graph"} /\ Initially
          /\ Tree!Init /\ Series!Init /\ Graph!Init

MCNext ==
  \/ Next /\ UNCHANGED <<treeVars, seriesVars, graphVars>>
  \/ /\ UNCHANGED <<part, partVars>>
     /\ \/ part = "tree" /\ Tree!Next /\ UNCHANGED <<seriesVars, graphVars, now>>
        \/ part = "series" /\ Series!Next /\ UNCHANGED <<treeVars, graphVars>>
        \/ part = "graph" /\ Graph!Next /\ UNCHANGED <<treeVars, seriesVars, now>>

MCSpec == MCInit /\ [][MCNext]_<<vars, treeVars, seriesVars, graphVars>>

-----------------------------------------------------------------------------
\* The B+ tree is balanced, counts its entries, and searches and range scans find exactly
\* them; a series keeps the points of its retention, and downsampling counts each once.
EntriesAreFound ==
  /\ Tree!SearchFindsEntries /\ Tree!RangeIsEntries /\ Tree!Balanced /\ Tree!SizeCounts
  /\ Series!RecentPointsStay /\ Series!DownsampleCounts

\* The tip of a branch replays all writes of the branch, each once and after what it was
\* written on top of, and a merge of branches loses no write.
BranchesKeepWrites ==
  /\ [](Graph!BranchKeepsItsWrites /\ Graph!ReplayInOrder)
  /\ Graph!MergeLosesNothing
=============================================================================
