------------------------------ MODULE Savepoint ------------------------------
(***************************************************************************)
(* A transaction with savepoints (savepoint.py): operations are buffered,  *)
(* a savepoint remembers how many there were, and commit applies them one  *)
(* by one through the raw operations of the core.  rollback() takes no     *)
(* lock, so another thread may call it while a commit is under way.        *)
(* agreed is what the callers have been told the data is; mark, in a       *)
(* savepoint, the operations buffered when it was set.                     *)
(***************************************************************************)
EXTENDS Integers, SequencesExt

CONSTANTS Id,          \* integers: ids of records, given out from the least
          Val, None,   \* contents, and no record
          Name,        \* names of savepoints
          MaxOps, MaxPoints   \* bounds

VARIABLES data, active, ops, savepoints, initial, pos, agreed, crossed
vars == <<data, active, ops, savepoints, initial, pos, agreed, crossed>>

Op == [op : {"insert"}, val : Val] \cup [op : {"update"}, id : Id, val : Val]
        \cup [op : {"delete"}, id : Id] \cup [op : {"bad"}]
Map == [Id -> Val \cup {None}]

\* What the raw operation o does to the records m; one on a missing record does nothing.
Apply(m, o) ==
  CASE o.op = "insert" -> [m EXCEPT ![Min({i \in Id : m[i] = None})] = o.val]
    [] o.op = "update" /\ m[o.id] # None -> [m EXCEPT ![o.id] = o.val]
    [] o.op = "delete" -> [m EXCEPT ![o.id] = None]
    [] OTHER -> m

\* The operations os done one after the other.
Applied(m, os) == LET after[n \in 0..Len(os)] == IF n = 0 THEN m ELSE Apply(after[n - 1], os[n])
                  IN after[Len(os)]

\* Bound: there is an id for every buffered insert.
HasRoom(o) == o.op = "insert" => Cardinality({i \in Id : data[i] # None})
                + Cardinality({i \in DOMAIN ops : ops[i].op = "insert"}) < Cardinality(Id)
Committing == pos > 0

Init == /\ data = [i \in Id |-> None] /\ agreed = data /\ initial = None
        /\ active = FALSE /\ ops = <<>> /\ savepoints = <<>> /\ pos = 0 /\ crossed = FALSE

\* begin() drops what was buffered before.
Begin == /\ ~Committing
         /\ initial' = data /\ active' = TRUE /\ ops' = <<>> /\ savepoints' = <<>>
         /\ crossed' = FALSE /\ agreed' = IF crossed THEN data ELSE agreed
         /\ UNCHANGED <<data, pos>>

Buffer(o) == /\ active /\ ~Committing /\ Len(ops) < MaxOps /\ HasRoom(o)
             /\ ops' = Append(ops, o)
             /\ UNCHANGED <<data, active, savepoints, initial, pos, agreed, crossed>>

SetSavepoint(n) ==
  /\ active /\ ~Committing /\ Len(savepoints) < MaxPoints
  /\ savepoints' = Append(savepoints, [name |-> n, count |-> Len(ops), mark |-> ops])
  /\ UNCHANGED <<data, active, ops, initial, pos, agreed, crossed>>

First(n) == SelectInSeq(savepoints, LAMBDA s : s.name = n)

\* Mutant: the savepoints set after the one rolled back to stay.
RollbackToKeeping(n) ==
  /\ active /\ ~Committing /\ First(n) # 0
  /\ ops' = SubSeq(ops, 1, savepoints[First(n)].count)
  /\ savepoints' = RemoveAt(savepoints, First(n))
  /\ UNCHANGED <<data, active, initial, pos, agreed, crossed>>

\* The first savepoint of that name: it and all later ones go, with their operations.
RollbackTo(n) ==
  /\ active /\ ~Committing /\ First(n) # 0
  /\ ops' = SubSeq(ops, 1, savepoints[First(n)].count)
  /\ savepoints' = SubSeq(savepoints, 1, First(n) - 1)
  /\ UNCHANGED <<data, active, initial, pos, agreed, crossed>>

ReleaseSavepoint(n) ==
  /\ ~Committing /\ First(n) # 0
  /\ savepoints' = RemoveAt(savepoints, First(n))
  /\ UNCHANGED <<data, active, ops, initial, pos, agreed, crossed>>

\* rollback(): the data of begin() comes back; _cleanup.
Restored == IF initial = None THEN data ELSE initial
Cleanup == /\ active' = FALSE /\ ops' = <<>> /\ savepoints' = <<>> /\ initial' = None

CommitStart == /\ active /\ ~Committing /\ pos' = 1
               /\ UNCHANGED <<data, active, ops, savepoints, initial, agreed, crossed>>

CommitApply == /\ Committing /\ pos <= Len(ops) /\ ops[pos].op # "bad"
               /\ data' = Apply(data, ops[pos]) /\ pos' = pos + 1
               /\ UNCHANGED <<active, ops, savepoints, initial, agreed, crossed>>

\* The loop over the buffered operations has come to the end of the list: TRUE.
CommitReturn == /\ Committing /\ pos > Len(ops)
                /\ Cleanup /\ pos' = 0
                /\ agreed' = Applied(agreed, ops)
                /\ UNCHANGED <<data, crossed>>

\* Mutant: a failed commit cleans up without restoring.
CommitFailKeeps == /\ Committing /\ pos <= Len(ops) /\ ops[pos].op = "bad"
                   /\ Cleanup /\ pos' = 0
                   /\ UNCHANGED <<data, agreed, crossed>>

\* An operation raises: roll back, raise.
CommitFail == /\ Committing /\ pos <= Len(ops) /\ ops[pos].op = "bad"
              /\ data' = Restored /\ Cleanup /\ pos' = 0
              /\ UNCHANGED <<agreed, crossed>>

\* By the thread of the transaction, or by another one in the middle of a commit, whose
\* loop then ends since the list is empty, and who is told that all was applied.
Rollback == /\ initial # None
            /\ data' = Restored /\ Cleanup
            /\ crossed' = (crossed \/ Committing)
            /\ agreed' = IF Committing THEN Applied(agreed, ops) ELSE agreed
            /\ UNCHANGED pos

Next == \/ Begin \/ CommitStart \/ CommitApply \/ CommitReturn \/ CommitFail \/ Rollback
        \/ \E o \in Op : Buffer(o)
        \/ \E n \in Name : SetSavepoint(n) \/ RollbackTo(n) \/ ReleaseSavepoint(n)

Spec == Init /\ [][Next]_vars

-----------------------------------------------------------------------------
\* Every savepoint still stands for the operations it was set after: rolling back to
\* it keeps exactly those, whatever was rolled back or released in between
\* (savepoint.py:97, "Keep ops before savepoint").
SavepointsRemember ==
  \A i \in DOMAIN savepoints :
    /\ savepoints[i].count <= Len(ops)
    /\ SubSeq(ops, 1, savepoints[i].count) = savepoints[i].mark
    /\ \A j \in 1..i : savepoints[j].count <= savepoints[i].count

\* A commit that returned has applied all its operations to what was there, one that
\* failed and a rollback none of them, unless another thread rolled back in the middle
\* of a commit: that commit returns as if it had succeeded (savepoint.py:133-161).
CommitTellsTruth == ~Committing /\ ~crossed => data = agreed
=============================================================================
