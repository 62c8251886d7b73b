------------------------------ MODULE Cluster ------------------------------
(***************************************************************************)
(* The parts in which several threads or databases work together: the      *)
(* writers of MultiWriter, extended here with the pool of writers, the     *)
(* replication and the sharding.  They share no state, so a behaviour runs *)
(* one of them, the part it has drawn at the start.                        *)
(***************************************************************************)
EXTENDS MultiWriter, Integers, Sequences

CONSTANTS Workers, MaxItems,                               \* the pool
          Replica, EventVal, None, BufMax, SockMax,        \* the replication
          MaxEvents, MaxConnects,
          Shards, Key, Val, NoRec, RouteOf, MaxId          \* the shards

VARIABLES part,
          items, started, at, results, errors, submitted, joined,
          data, log, buffer, running, clients, targets, link, queue, copy, base, from,
          silent, connects,
          shards, nextId, client, step, bucket, rekeyed, made, broken
poolVars == <<items, started, at, results, errors, submitted, joined>>
replVars == <<data, log, buffer, running, clients, targets, link, queue, copy, base, from,
              silent, connects>>
shardVars == <<shards, nextId, client, step, bucket, rekeyed, made, broken>>
clusterVars == <<part, vars, poolVars, replVars, shardVars>>

Pool == INSTANCE WriterPool
Repl == INSTANCE Replication WITH Val <- EventVal
Sh == INSTANCE Sharding

\* What the constants are: at least one attempt, one worker and one shard, a shard for
\* every key, and names for "nobody" and "no record" that are none of those.
WriterParameters == /\ MaxRetries \in Nat \ {0} /\ MaxExpected \in Nat
                    /\ NoWriter \notin Writer
PoolParameters == Workers \in Nat \ {0} /\ MaxItems \in Nat
ReplParameters == BufMax \in Nat /\ MaxEvents \in Nat
ShardParameters == /\ Shards \in Nat \ {0} /\ MaxId \in Nat
                   /\ RouteOf \in [Key -> 0..(Shards - 1)]
                   /\ NoRec \notin Sh!Rec \cup Sh!Fields

ASSUME ClusterAssumption ==
  WriterParameters /\ PoolParameters /\ ReplParameters /\ ShardParameters

ClusterInit == /\ part \in {"writers", "pool", "replication", "shards"}
               /\ Init /\ Pool!Init /\ Repl!Init /\ Sh!Init
               /\ part # "pool" => items = 0

ClusterNext ==
  /\ UNCHANGED part
  /\ \/ part = "writers" /\ Next /\ UNCHANGED <<poolVars, replVars, shardVars>>
     \/ part = "pool" /\ Pool!Next /\ UNCHANGED <<vars, replVars, shardVars>>
     \/ part = "replication" /\ Repl!Next /\ UNCHANGED <<vars, poolVars, shardVars>>
     \/ part = "shards" /\ Sh!Next /\ UNCHANGED <<vars, poolVars, replVars>>

\* Each part with the fairness of its own.
ClusterSpec == ClusterInit /\ [][ClusterNext]_clusterVars /\ Fairness /\ Repl!Fairness

-----------------------------------------------------------------------------
\* Every call of a writer and every write of a primary returns: the retries end and give
\* the record's lock back, and no replica holds up the core for ever
\* (multi_writer.py:66-118, replication.py:108-112).
CallsReturn == CallsEnd /\ Repl!WritesReturn

\* The event stream says what the primary has done, its ring buffer has the latest events,
\* and a replica stores the inserts in their order, none twice, all of them while it is
\* connected (cdc.py:52-126, replication.py:217).
ReplicaFollows ==
  Repl!StreamIsHistory /\ Repl!BufferIsRecent /\ Repl!ReplicaInOrder /\ Repl!ReplicaFollows

\* Nothing gets lost where it is spread: the pool inserts or counts every item, in as
\* many threads as promised, and the shards hold every record once, where its key leads,
\* with the exceptions the parts name (multi_writer.py:164-197, sharding.py:90-102, 218).
NothingLost ==
  /\ Pool!PoolAccounts /\ Pool!PoolThreads
  /\ Sh!OneShardPerId /\ Sh!FoundByKey /\ Sh!NothingLost
=============================================================================
