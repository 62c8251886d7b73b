---------------------------- MODULE MCCoreSearch ----------------------------
(***************************************************************************)
(* IndexSearch, and the CoreState it extends, for TLC: two threads that    *)
(* call everything that is locked, and two threads that write beside       *)
(* searches (without gets, which only read).                               *)
(***************************************************************************)
EXTENDS IndexSearch, TLC

VARIABLE mode

NoGet == UNCHANGED answer /\ \A t \in Thread : pc'[t] # "fill"

MCInit == SearchInit /\ mode \in {"locked", "search"}
MCNext == /\ UNCHANGED mode
          /\ \/ mode = "locked" /\ Next /\ UNCHANGED search
             \/ mode = "search" /\ (Search \/ (CoreStep /\ NoGet))
MCSpec == MCInit /\ [][MCNext]_<<searchVars, mode>>

Symmetry == Permutations(Key) \cup Permutations(Val) \cup Permutations(Thread)
=============================================================================
