------------------------------ MODULE Sharding ------------------------------
(***************************************************************************)
(* One collection spread over several databases (sharding.py).  A record   *)
(* has a key and a value; RouteOf is the hash of its shard key.  no, the   *)
(* id it was first stored under, tells it from its equals: no code looks   *)
(* at it.  Nothing locks the shards together: an update or delete looks    *)
(* for the shard first and uses it then, and a rebalance reads everything, *)
(* drops everything and writes it again, a shard or record at a time       *)
(* (step).  made is what the callers have made; it is no longer compared   *)
(* once broken.                                                            *)
(***************************************************************************)
EXTENDS Integers, FiniteSetsExt

CONSTANTS Shards,      \* number of shards
          Key, Val, NoRec,
          RouteOf,     \* [Key -> 0..Shards-1]
          MaxId        \* bound: records ever stored

VARIABLES shards, nextId, client, step, bucket, rekeyed, made, broken
vars == <<shards, nextId, client, step, bucket, rekeyed, made, broken>>

Shard == 0..(Shards - 1)
Id == 1..MaxId
Fields == [key : Key, val : Val]
Rec == [no : Id, key : Key, val : Val]
Stored(n, f) == [no |-> n, key |-> f.key, val |-> f.val]

Route(k) == RouteOf[k]
RouteRecord(rec) == Route(rec.key)
Holds(s, i) == shards[s][i] # NoRec

NoCall == [id |-> 0]
Init == /\ shards = [s \in Shard |-> [i \in Id |-> NoRec]] /\ nextId = 1
        /\ client = NoCall /\ step = 0 /\ bucket = {}
        /\ rekeyed = {} /\ made = {} /\ broken = FALSE

\* A change in the middle of a rebalance may be lost or doubled.
Crosses == broken' = (broken \/ step # 0)

\* Mutant: records go to the shards in turn.
PlaceInTurn(rec) == shards' = [shards EXCEPT ![nextId % Shards][nextId] = rec]

Place(rec) == shards' = [shards EXCEPT ![RouteRecord(rec)][nextId] = rec]

Insert(f) ==
  /\ nextId <= MaxId /\ nextId' = nextId + 1
  /\ Place(Stored(nextId, f)) /\ made' = made \cup {Stored(nextId, f)}
  /\ Crosses
  /\ UNCHANGED <<client, step, bucket, rekeyed>>

\* The shard a search for the id ends at.
First(i) == Min({s \in Shard : Holds(s, i)})

\* get(): in the shard of the key, or in all of them.
Get(i, k) == shards[Route(k)][i]
GetAnywhere(i) == IF \E s \in Shard : Holds(s, i) THEN shards[First(i)][i] ELSE NoRec

\* update() and delete() have found the shard by exists(); new is NoRec in a delete.
Locate(i, new) ==
  /\ client = NoCall
  /\ \E s \in Shard : Holds(s, i)
  /\ client' = [id |-> i, new |-> new, shard |-> First(i)]
  /\ UNCHANGED <<shards, nextId, step, bucket, rekeyed, made, broken>>

\* What the call makes of the record it has found.
Used(old) == IF client.new = NoRec THEN NoRec ELSE Stored(old.no, client.new)

\* Mutant: an updated record is written to the shard of its new key, and stays in the old.
UseMoves ==
  /\ client # NoCall /\ client' = NoCall
  /\ LET s == client.shard
         i == client.id
         old == shards[s][i]
         new == Used(old)
     IN IF old = NoRec THEN UNCHANGED <<shards, rekeyed, made, broken>>
        ELSE /\ shards' = IF new = NoRec THEN [shards EXCEPT ![s][i] = NoRec]
                          ELSE [shards EXCEPT ![RouteRecord(new)][i] = new]
             /\ made' = (made \ {old}) \cup ({new} \ {NoRec})
             /\ Crosses /\ UNCHANGED rekeyed
  /\ UNCHANGED <<nextId, step, bucket>>

\* The record stays in its shard, also with another key.
Use ==
  /\ client # NoCall /\ client' = NoCall
  /\ LET s == client.shard
         i == client.id
         old == shards[s][i]
         new == Used(old)
     IN IF old = NoRec THEN UNCHANGED <<shards, rekeyed, made, broken>>
        ELSE /\ shards' = [shards EXCEPT ![s][i] = new]
             /\ rekeyed' = IF new # NoRec /\ RouteRecord(new) # s THEN rekeyed \cup {i} ELSE rekeyed \ {i}
             /\ made' = (made \ {old}) \cup ({new} \ {NoRec})
             /\ Crosses
  /\ UNCHANGED <<nextId, step, bucket>>

-----------------------------------------------------------------------------
(* rebalance().  bucket has the records it has read, each with the place   *)
(* it was read at.                                                         *)

At(s, i) == [shard |-> s, id |-> i, rec |-> shards[s][i]]
RecordsOf(s) == {At(s, i) : i \in {j \in Id : Holds(s, j)}}
ReadBefore(x, y) == x.shard < y.shard \/ (x.shard = y.shard /\ x.id < y.id)

Idle == step = 0
Reading == step \in 1..Shards                   \* shard step - 1 is next
Dropping == step \in (Shards + 1)..(2 * Shards)
Writing == step = 2 * Shards + 1

\* Mutant: the first shard is not read.
RebalanceSkipsFirst == /\ Idle /\ step' = 2
                       /\ UNCHANGED <<shards, nextId, client, bucket, rekeyed, made, broken>>

RebalanceStarts == /\ Idle /\ step' = 1
                   /\ UNCHANGED <<shards, nextId, client, bucket, rekeyed, made, broken>>

ReadShard == /\ Reading /\ step' = step + 1
             /\ bucket' = bucket \cup RecordsOf(step - 1)
             /\ UNCHANGED <<shards, nextId, client, rekeyed, made, broken>>

DropShard ==
  /\ Dropping /\ step' = step + 1
  /\ LET s == step - Shards - 1
     IN /\ shards' = [shards EXCEPT ![s] = [i \in Id |-> NoRec]]
        /\ rekeyed' = {i \in rekeyed : ~Holds(s, i)}
  /\ UNCHANGED <<nextId, client, bucket, made, broken>>

\* Every record is inserted as a new one, in the order they were read.
WriteBack ==
  /\ Writing /\ nextId <= MaxId
  /\ \E x \in bucket : /\ \A y \in bucket : ~ReadBefore(y, x)
                       /\ nextId' = nextId + 1 /\ Place(x.rec) /\ bucket' = bucket \ {x}
  /\ UNCHANGED <<client, step, rekeyed, made, broken>>

RebalanceEnds == /\ Writing /\ bucket = {} /\ step' = 0
                 /\ UNCHANGED <<shards, nextId, client, bucket, rekeyed, made, broken>>

\* The process ends: what was read and is not written back is lost.
Crash == /\ ~Idle \/ client # NoCall
         /\ broken' = (broken \/ ~Idle)
         /\ step' = 0 /\ bucket' = {} /\ client' = NoCall
         /\ UNCHANGED <<shards, nextId, rekeyed, made>>

Next == \/ \E f \in Fields : Insert(f)
        \/ \E i \in Id, new \in Fields \cup {NoRec} : Locate(i, new)
        \/ RebalanceStarts \/ ReadShard \/ DropShard
        \/ Use \/ WriteBack \/ RebalanceEnds \/ Crash

Spec == Init /\ [][Next]_vars

-----------------------------------------------------------------------------
Held == {x \in Shard \X Id : Holds(x[1], x[2])}
RecAt(x) == shards[x[1]][x[2]]

\* An id is in one shard only, through updates and rebalances (sharding.py:90-102 stop at
\* the first shard that has it).
OneShardPerId == \A x, y \in Held : x[2] = y[2] => x = y

\* A record is found through its shard key, unless an update has changed the key: such
\* records stay where they were until a rebalance ("Requires shard_key", sharding.py:61).
FoundByKey ==
  \A i \in Id : GetAnywhere(i) # NoRec /\ i \notin rekeyed => Get(i, GetAnywhere(i).key) = GetAnywhere(i)

\* Sharding loses and doubles nothing: between rebalances the shards hold exactly the
\* records that were inserted, as last updated, each once, unless a rebalance crashed or
\* somebody wrote while it ran ("redistribute records", sharding.py:218).
NothingLost ==
  Idle /\ ~broken => /\ {RecAt(x) : x \in Held} = made
                     /\ \A x, y \in Held : RecAt(x).no = RecAt(y).no => x = y
=============================================================================
