--------------------------- MODULE MCDurableStore ---------------------------
(***************************************************************************)
(* Small instances of the store and its modes for TLC.                     *)
(***************************************************************************)
EXTENDS StoreModes, TLC

Symmetry == Permutations(Key) \cup Permutations(Val) \cup Permutations(Thread)
              \cup Permutations(Proc)
=============================================================================
