----------------------------- MODULE MCFileLock -----------------------------
(***************************************************************************)
(* A small instance of FileLock for TLC: two cores on one lock file with   *)
(* two threads each, those of one through _flush_one, those of the other   *)
(* with "with"; and a third core, alone on its lock file, whose two        *)
(* threads mix the styles and nest acquire().                              *)
(***************************************************************************)
EXTENDS FileLock

CONSTANTS c1, c2, c3, t1, t2, t3, t4, t5, t6, shared, private

MCHome == [t \in Thread |-> IF t \in {t1, t2} THEN c1 ELSE IF t \in {t3, t4} THEN c2 ELSE c3]
MCLockFile == [c \in Core |-> IF c = c3 THEN private ELSE shared]
MCMaxDepth == [c \in Core |-> IF c = c3 THEN 2 ELSE 1]
=============================================================================
