------------------------------- MODULE Mutex -------------------------------
(***************************************************************************)
(* What the file locks promise their users: of all the threads of all the  *)
(* processes that share a lock file, at most one is inside the section it  *)
(* protects.  A process that dies leaves the section.                      *)
(***************************************************************************)
CONSTANTS Thread, File, NoThread

VARIABLE holder   \* holder[f]: the thread inside the section of f, or NoThread

Init == holder = [f \in File |-> NoThread]

Enter(t, f) == /\ holder[f] = NoThread
               /\ holder' = [holder EXCEPT ![f] = t]

Leave(t, f) == /\ holder[f] = t
               /\ holder' = [holder EXCEPT ![f] = NoThread]

Next == \E t \in Thread, f \in File : Enter(t, f) \/ Leave(t, f)

Spec == Init /\ [][Next]_holder
=============================================================================
