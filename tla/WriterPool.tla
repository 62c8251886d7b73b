----------------------------- MODULE WriterPool -----------------------------
(***************************************************************************)
(* parallel_insert() of the pool of writers (multi_writer.py): the items   *)
(* are cut into chunks, a thread inserts each chunk, an item that fails is *)
(* counted and skipped, and the caller waits for all threads.              *)
(***************************************************************************)
EXTENDS Integers, SequencesExt

CONSTANTS Workers,    \* n_workers
          MaxItems    \* bound

VARIABLES items, started, at, results, errors, submitted, joined
vars == <<items, started, at, results, errors, submitted, joined>>

\* Mutant: the rest of the division makes every chunk one item larger.
ChunkSizeUp == (items \div Workers) + 1

\* At least one item in a chunk; the rest of the division makes chunks of its own.
ChunkSize == Max({1, items \div Workers})
Chunks == (items + ChunkSize - 1) \div ChunkSize

\* Chunk c has Length(c) of the items behind the first Start(c).
Start(c) == (c - 1) * ChunkSize

\* Mutant: a chunk reaches one item into the next.
LengthOverlapping(c) == Min({ChunkSize + 1, items - Start(c)})

Length(c) == Min({ChunkSize, items - Start(c)})

Init == /\ items \in 0..MaxItems
        /\ started = 0 /\ at = [c \in 1..MaxItems |-> 0]
        /\ results = <<>> /\ errors = 0 /\ submitted = 0 /\ joined = FALSE

StartThread ==
  /\ started < Chunks
  /\ started' = started + 1
  /\ submitted' = submitted + Length(started + 1)
  /\ UNCHANGED <<items, at, results, errors, joined>>

\* The next item of chunk c: its id goes to the results, or it is an error.
Work(c) ==
  /\ c <= started /\ at[c] < Length(c)
  /\ at' = [at EXCEPT ![c] = @ + 1]
  /\ \/ results' = Append(results, Start(c) + at[c] + 1) /\ UNCHANGED errors
     \/ errors' = errors + 1 /\ UNCHANGED results
  /\ UNCHANGED <<items, started, submitted, joined>>

Join == /\ started = Chunks /\ \A c \in 1..started : at[c] = Length(c)
        /\ joined' = TRUE
        /\ UNCHANGED <<items, started, at, results, errors, submitted>>

Next == StartThread \/ Join \/ \E c \in 1..MaxItems : Work(c)
Spec == Init /\ [][Next]_vars

-----------------------------------------------------------------------------
\* The caller gets the id of every item that was inserted, each once, and all the items
\* it has handed over are accounted for, wherever the chunks end (multi_writer.py:164-197).
PoolAccounts ==
  /\ IsInjective(results) /\ ToSet(results) \subseteq 1..items
  /\ joined => Len(results) + errors = items /\ submitted = items

\* Fewer threads than twice the workers, and with at least as many items as workers
\* none of the workers is idle: "Pool of workers" (multi_writer.py:149).
PoolThreads == /\ Chunks <= 2 * Workers - 1
               /\ items >= Workers => Chunks >= Workers
=============================================================================
