------------------------------ MODULE CoreModes ------------------------------
(***************************************************************************)
(* CoreState under the workloads that do not keep to the core's lock, one  *)
(* for each behaviour: a single thread that calls everything, a            *)
(* transaction beside other threads' calls, drops beside them, and indexes *)
(* filled beside them, by create_index and after a batch.  Each workload   *)
(* is an instance over the same variables.                                 *)
(***************************************************************************)
EXTENDS Naturals, FiniteSets

CONSTANTS Key, Val, Thread, NoRec, NoKey, NoThread,
          Solo,                 \* the thread that is alone, or uses transactions
          TxKey,                \* the ids where there is a transaction beside others
          MaxVer, MaxTx,        \* bounds, see CoreState
          CacheMax, SoloCacheMax

ASSUME SoloAssumption == Solo \in Thread /\ NoThread \notin Thread
ASSUME KeyAssumption == TxKey \subseteq Key /\ NoKey \notin Key
ASSUME NoRecAssumption == NoRec \notin [val : Val, ver : Nat] \cup Val
ASSUME BoundAssumption == /\ MaxVer \in Nat /\ MaxTx \in Nat
                          /\ CacheMax \in Nat \ {0} /\ SoloCacheMax \in Nat \ {0}

VARIABLES workload,
          data, logged, cache, indexed, hash, tree, hist, batch, lock, pc, job, answer, used
coreVars == <<data, logged, cache, indexed, hash, tree, hist, batch, lock, pc, job, answer, used>>

Alone == INSTANCE CoreState WITH
  Thread <- {Solo}, Txs <- {Solo}, CacheMax <- SoloCacheMax,
  Ops <- {"insert", "update", "delete", "get", "tx", "batch", "create_index", "rebuild"}
TxBeside == INSTANCE CoreState WITH
  Key <- TxKey, Txs <- {Solo},
  Ops <- {"insert", "update", "delete", "get", "tx", "badtx"}
DropBeside == INSTANCE CoreState WITH
  Txs <- {}, MaxTx <- 0, Ops <- {"insert", "update", "delete", "get", "drop"}
BuildBeside == INSTANCE CoreState WITH
  Txs <- {}, MaxTx <- 0, Ops <- {"insert", "update", "create_index"}
BatchBeside == INSTANCE CoreState WITH
  Txs <- {}, MaxTx <- 0, Ops <- {"insert", "update", "batch"}

Init == \/ workload = "alone" /\ Alone!Init
        \/ workload = "tx" /\ TxBeside!Init
        \/ workload = "drop" /\ DropBeside!Init
        \/ workload = "build" /\ BuildBeside!Init
        \/ workload = "batch" /\ BatchBeside!Init

Next == /\ UNCHANGED workload
        /\ \/ workload = "alone" /\ Alone!Next
           \/ workload = "tx" /\ TxBeside!Next
           \/ workload = "drop" /\ DropBeside!Next
           \/ workload = "build" /\ BuildBeside!Next
           \/ workload = "batch" /\ BatchBeside!Next

Spec == Init /\ [][Next]_<<workload, coreVars>>

-----------------------------------------------------------------------------
\* Also with transactions, batches and index builds cache, indexes, log and snapshots agree
\* with memory, as long as one thread makes all the calls; log and snapshots also beside
\* a drop; and beside a transaction or a drop a read answers only with what was stored once.
MemoryAgrees ==
  /\ workload = "alone" => Alone!CacheIsData /\ Alone!IndexIsData /\ Alone!RestartFindsMemory
  /\ workload = "drop" => DropBeside!RestartFindsMemory /\ DropBeside!AnswersWereStored
  /\ workload = "tx" => TxBeside!AnswersWereStored

\* Beside writers the loop that fills an index ends with an entry for every record.
IndexCoversData ==
  [][\A t \in Thread :
         workload \in {"build", "batch"}
           /\ pc[t] = "scan" /\ pc'[t] \in {"flush", "load"} /\ BuildBeside!SameSize(t)
           /\ BuildBeside!Quiet /\ indexed
           /\ (\A u \in Thread \ {t} : pc[u] \notin BuildBeside!RebuildPcs)
           => BuildBeside!Entries(data) \subseteq hash]_<<workload, coreVars>>
=============================================================================
