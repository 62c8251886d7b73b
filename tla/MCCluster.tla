----------------------------- MODULE MCCluster -----------------------------
(***************************************************************************)
(* A small instance of Cluster: two writers, two threads of the pool, two  *)
(* replicas, and two shards with a key for each.                           *)
(***************************************************************************)
EXTENDS Cluster

KeyIsShard == [k \in Key |-> k]
=============================================================================
