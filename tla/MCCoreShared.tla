---------------------------- MODULE MCCoreShared ----------------------------
(***************************************************************************)
(* A small instance of CoreModes for TLC.                                  *)
(***************************************************************************)
EXTENDS CoreModes, TLC

DataSymmetry == Permutations(Key) \cup Permutations(Val)
=============================================================================
