----------------------------- MODULE RecordMap -----------------------------
(***************************************************************************)
(* What a collection promises the threads that share it: a map from ids to *)
(* records in which an id is inserted once, with version 1, every update   *)
(* counts the version up by one, and a read answers with the record that   *)
(* is there.                                                               *)
(***************************************************************************)
EXTENDS Naturals

CONSTANTS Key, Val, Thread, NoRec

VARIABLES map,     \* the records
          answer   \* answer[t]: what t's last read returned

Init == /\ map = [k \in Key |-> NoRec]
        /\ answer = [t \in Thread |-> NoRec]

Insert(k, v) == /\ map[k] = NoRec
                /\ map' = [map EXCEPT ![k] = [val |-> v, ver |-> 1]]
                /\ UNCHANGED answer

Update(k, v) == /\ map[k] # NoRec
                /\ map' = [map EXCEPT ![k] = [val |-> v, ver |-> map[k].ver + 1]]
                /\ UNCHANGED answer

Delete(k) == /\ map[k] # NoRec
             /\ map' = [map EXCEPT ![k] = NoRec]
             /\ UNCHANGED answer

Read(t, k) == /\ answer' = [answer EXCEPT ![t] = map[k]]
              /\ UNCHANGED map

Next == \E k \in Key : \/ \E v \in Val : Insert(k, v) \/ Update(k, v)
                       \/ Delete(k)
                       \/ \E t \in Thread : Read(t, k)

Spec == Init /\ [][Next]_<<map, answer>>
=============================================================================
