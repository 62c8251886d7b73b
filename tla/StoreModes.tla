----------------------------- MODULE StoreModes -----------------------------
(***************************************************************************)
(* Three ways of using the store, of which a behaviour follows the one it  *)
(* has drawn at the start: a collection that was snapshotted before        *)
(* (DurableStore with the constants as they are), a collection that is     *)
(* dropped, made anew and closed (DurableStore over the same variables),   *)
(* and several processes in one directory (SharedDirectory, with files and *)
(* program counters of its own).                                           *)
(***************************************************************************)
EXTENDS DurableStore

CONSTANTS Modes,              \* of "alone", "drop", "shared"
          DropOps, DropRestarts,
          Proc, None, DirThreshold, DirMaxLog, DirMaxStarts

AllModes == {"alone", "drop", "shared"}

ASSUME ModesAssumption == Modes \subseteq AllModes
ASSUME DropAssumption == DropOps \subseteq AllOps /\ DropRestarts \in Nat
ASSUME ProcAssumption == None \notin Proc

VARIABLES mode,
          mem, handle, dirSnap, dirHasSnap, tmp, log, fileLock, procPc, why, read, starts,
          inserted, saved, deleted, alone, crossed
sharedVars == <<mem, handle, dirSnap, dirHasSnap, tmp, log, fileLock, procPc, why, read, starts,
                inserted, saved, deleted, alone, crossed>>

Dropped == INSTANCE DurableStore WITH
  Ops <- DropOps, Faults <- {}, MaxFaults <- 0, MaxRestarts <- DropRestarts,
  InitSnap <- FALSE

Shared == INSTANCE SharedDirectory WITH
  Threshold <- DirThreshold, MaxLog <- DirMaxLog, MaxStarts <- DirMaxStarts,
  snap <- dirSnap, hasSnap <- dirHasSnap, lock <- fileLock, pc <- procPc, job <- why,
  used <- inserted

\* The bound on starts is reached and all processes are gone.
AllStarted == starts = DirMaxStarts /\ \A p \in Proc : procPc[p] = "down"

StoreInit == /\ mode \in Modes
             /\ IF mode = "drop" THEN Dropped!Init ELSE Init
             /\ Shared!Init
             /\ mode # "shared" => dirHasSnap = FALSE
StoreNext == /\ UNCHANGED mode
             /\ \/ mode = "alone" /\ Next /\ UNCHANGED sharedVars
                \/ mode = "drop" /\ Dropped!Next /\ UNCHANGED sharedVars
                \/ mode = "shared" /\ Shared!Next /\ UNCHANGED vars
                \/ mode = "shared" /\ AllStarted /\ UNCHANGED <<vars, sharedVars>>
StoreSpec == StoreInit /\ [][StoreNext]_<<mode, vars, sharedVars>>

-----------------------------------------------------------------------------
\* What a snapshot of the shared directory has held stays there.
SavedStays == Shared!SavedStays

\* In batch mode, too, a promised write is lost only where an incomplete record stays
\* behind in the log, and without one deletes and files keep their promises; a dropped
\* collection and a deleted record stay gone, over closes and restarts.
ModePromises ==
  /\ mode = "alone" => PromisesKept
  /\ mode = "drop" => Dropped!NoResurrection
=============================================================================
