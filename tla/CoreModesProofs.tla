-------------------------- MODULE CoreModesProofs --------------------------
(***************************************************************************)
(* The theorems about the core that do not need the lock, for the          *)
(* behaviours of CoreModes, each of which follows one instance of          *)
(* CoreState.  A, T, D, B and C are the proofs for these instances.  For   *)
(* each: it gets constants that CoreState accepts, its steps are the steps *)
(* of the instance in CoreModes, definition by definition, and its         *)
(* invariant is kept.  Nobody searches there: search, the variable of      *)
(* IndexSearch, is a constant, and no theorem about it is used.            *)
(***************************************************************************)
EXTENDS CoreModes, FiniteSetTheorems, TLAPS

LEMMA AtMostOne ==
  ASSUME NEW S, NEW x, S \subseteq {x} PROVE Cardinality(S) \in Nat /\ Cardinality(S) <= 1
<1>1. IsFiniteSet({x}) /\ Cardinality({x}) = 1
  BY FS_Singleton
<1> QED BY <1>1, FS_Subset, FS_CardinalityType

LEMMA AtMostTwo ==
  ASSUME NEW S, NEW x, NEW y, S \subseteq {x, y}
  PROVE  Cardinality(S) \in Nat /\ Cardinality(S) <= 2
<1>1. IsFiniteSet({x}) /\ Cardinality({x}) = 1
  BY FS_Singleton
<1>2. IsFiniteSet({x} \cup {y}) /\ Cardinality({x} \cup {y}) <= 2
  BY <1>1, FS_AddElement
<1>3. Cardinality(S) <= Cardinality({x} \cup {y}) /\ IsFiniteSet(S)
  BY <1>2, FS_Subset
<1>4. Cardinality(S) \in Nat /\ Cardinality({x} \cup {y}) \in Nat
  BY <1>2, <1>3, FS_CardinalityType
<1> QED BY <1>2, <1>3, <1>4

\* What replaces the dict of the records, and what loops over it.
Kinds(ops) ==
  {o \in {{"drop"}, {"tx", "badtx"}, {"batch", "create_index", "rebuild"}} : o \cap ops # {}}

-----------------------------------------------------------------------------
(* One thread that calls everything.                                       *)

A == INSTANCE CoreStateProofs WITH
  search <- {}, Thread <- {Solo}, Txs <- {Solo}, CacheMax <- SoloCacheMax,
  Ops <- {"insert", "update", "delete", "get", "tx", "batch", "create_index", "rebuild"}

LEMMA AloneCardinality == ASSUME NEW X PROVE A!Cardinality(X) = Cardinality(X)
BY DEF A!Cardinality, Cardinality

LEMMA AloneParameters ==
  /\ {"insert", "update", "delete", "get", "tx", "batch", "create_index", "rebuild"}
       \subseteq A!AllOps
  /\ {Solo} \subseteq {Solo} /\ A!Cardinality({Solo}) <= 1
  /\ A!Cardinality(
       {o \in {{"drop"}, {"tx", "badtx"}, {"batch", "create_index", "rebuild"}} :
          o \cap {"insert", "update", "delete", "get", "tx",
                        "batch", "create_index", "rebuild"} # {}})
       <= (IF A!Cardinality({Solo}) = 1 THEN 2 ELSE 1)
  /\ MaxVer \in Nat /\ MaxTx \in Nat /\ SoloCacheMax \in Nat \ {0}
  /\ NoThread \notin {Solo} /\ NoKey \notin Key /\ NoRec \notin A!Rec \cup Val
<1> DEFINE S == Kinds({"insert", "update", "delete", "get", "tx", "batch", "create_index", "rebuild"})
<1>1. Cardinality(S) \in Nat /\ Cardinality(S) <= 2
  BY AtMostTwo, S \subseteq {{"tx", "badtx"}, {"batch", "create_index", "rebuild"}} DEF Kinds
<1>2. Cardinality({Solo}) = 1
  BY FS_Singleton
<1> HIDE DEF S
<1>3. Cardinality(S) <= (IF Cardinality({Solo}) = 1 THEN 2 ELSE 1)
  BY <1>1, <1>2
<1> QED BY <1>2, <1>3, AloneCardinality, SoloAssumption, KeyAssumption, NoRecAssumption,
           BoundAssumption DEF S, Kinds, A!AllOps, A!Rec

LEMMA SameAloneInit == Alone!Init = A!Init
BY DEF Alone!Init, A!Init, Alone!Empty, A!Empty, Alone!NoJob, A!NoJob

LEMMA SameAloneRawWrite == ASSUME NEW t PROVE Alone!RawWrite(t) = A!RawWrite(t)
BY DEF Alone!RawWrite, A!RawWrite, Alone!Unindex, A!Unindex, Alone!Store, A!Store,
       Alone!DeleteGone, A!DeleteGone, Alone!Index, A!Index, Alone!Uncache, A!Uncache,
       Alone!UnindexRecord, A!UnindexRecord, Alone!UnindexRecordSorted, A!UnindexRecordSorted,
       Alone!Goto, A!Goto, Alone!NewRec, A!NewRec, Alone!NewVersion, A!NewVersion,
       Alone!IndexRecord, A!IndexRecord, Alone!IndexRecordSorted, A!IndexRecordSorted,
       Alone!CacheSet, A!CacheSet, Alone!Cardinality, A!Cardinality, Alone!Present, A!Present

LEMMA SameAloneLocked == ASSUME NEW t PROVE Alone!Locked(t) = A!Locked(t)
BY DEF Alone!Locked, A!Locked, Alone!Crud, A!Crud, Alone!Return, A!Return, Alone!GetFill,
       A!GetFill, Alone!Drop, A!Drop, Alone!GetHit, A!GetHit, Alone!GetMiss, A!GetMiss,
       Alone!Enter, A!Enter, Alone!Target, A!Target, Alone!Begin, A!Begin, Alone!NoJob,
       A!NoJob, Alone!Goto, A!Goto, Alone!CacheSet, A!CacheSet, Alone!Empty, A!Empty,
       Alone!SpareId, A!SpareId, Alone!Present, A!Present, Alone!Cardinality, A!Cardinality

LEMMA SameAloneTx == ASSUME NEW t PROVE Alone!Tx(t) = A!Tx(t)
BY DEF Alone!Tx, A!Tx, Alone!TxBegin, A!TxBegin, Alone!TxBuffer, A!TxBuffer, Alone!TxCommit,
       A!TxCommit, Alone!TxApply, A!TxApply, Alone!TxNext, A!TxNext, Alone!TxFlush, A!TxFlush,
       Alone!TxAbort, A!TxAbort, Alone!TxRestore, A!TxRestore, Alone!NoJob, A!NoJob,
       Alone!Goto, A!Goto, Alone!TxOp, A!TxOp, Alone!SpareId, A!SpareId, Alone!Begin, A!Begin,
       Alone!Empty, A!Empty, Alone!Cardinality, A!Cardinality

LEMMA SameAloneBuild == ASSUME NEW t PROVE Alone!Build(t) = A!Build(t)
BY DEF Alone!Build, A!Build, Alone!BeginBatch, A!BeginBatch, Alone!Rebuild, A!Rebuild,
       Alone!ClearHash, A!ClearHash, Alone!CreateIndex, A!CreateIndex, Alone!Scan, A!Scan,
       Alone!AddEntry, A!AddEntry, Alone!ScanDone, A!ScanDone, Alone!ScanFails, A!ScanFails,
       Alone!LoadTree, A!LoadTree, Alone!RebuildDone, A!RebuildDone, Alone!NewJob, A!NewJob,
       Alone!Goto, A!Goto, Alone!Iterate, A!Iterate, Alone!NoJob, A!NoJob, Alone!SameSize,
       A!SameSize, Alone!Present, A!Present, Alone!IndexRecord, A!IndexRecord, Alone!Entries,
       A!Entries, Alone!Cardinality, A!Cardinality, Alone!Empty, A!Empty

LEMMA SameAloneNext == Alone!Next = A!Next
BY SameAloneRawWrite, SameAloneLocked, SameAloneTx, SameAloneBuild
   DEF Alone!Next, A!Next

LEMMA AloneStep ==
  ASSUME A!TypeInv, A!FiniteInv, A!SoloInv(Solo), Alone!Next \/ UNCHANGED coreVars
  PROVE  (A!TypeInv /\ A!FiniteInv /\ A!SoloInv(Solo))'
<1>1. A!Next \/ UNCHANGED A!vars
  BY SameAloneNext DEF coreVars, A!vars
<1>2. A!Solo(Solo)
  BY DEF A!Solo
<1>3. (A!TypeInv /\ A!FiniteInv)'
  BY <1>1, AloneParameters, A!TypesNext
<1>4. A!SoloInv(Solo)'
  BY <1>1, <1>2, AloneParameters, A!SoloNext
<1> QED BY <1>3, <1>4

LEMMA AloneMeans ==
  ASSUME A!TypeInv, A!SoloInv(Solo)
  PROVE  Alone!CacheIsData /\ Alone!IndexIsData /\ Alone!RestartFindsMemory
<1>1. A!CacheIsData /\ A!IndexIsData /\ A!RestartFindsMemory
  BY AloneParameters, A!SoloMeans DEF A!Solo
<1>2. Alone!CacheIsData = A!CacheIsData
  BY DEF Alone!CacheIsData, A!CacheIsData, Alone!Writing, A!Writing, Alone!WritePcs, A!WritePcs
<1>3. Alone!IndexIsData = A!IndexIsData
  BY DEF Alone!IndexIsData, A!IndexIsData, Alone!Quiet, A!Quiet, Alone!Writing, A!Writing,
         Alone!WritePcs, A!WritePcs, Alone!RebuildPcs, A!RebuildPcs, Alone!Entries, A!Entries,
         Alone!Present, A!Present
<1>4. Alone!RestartFindsMemory = A!RestartFindsMemory
  BY DEF Alone!RestartFindsMemory, A!RestartFindsMemory, Alone!Quiet, A!Quiet,
         Alone!Writing, A!Writing, Alone!WritePcs, A!WritePcs
<1> QED BY <1>1, <1>2, <1>3, <1>4

-----------------------------------------------------------------------------
(* A transaction beside other calls.                                       *)

T == INSTANCE CoreStateProofs WITH
  search <- {}, Key <- TxKey, Txs <- {Solo},
  Ops <- {"insert", "update", "delete", "get", "tx", "badtx"}

LEMMA TxBesideCardinality == ASSUME NEW X PROVE T!Cardinality(X) = Cardinality(X)
BY DEF T!Cardinality, Cardinality

LEMMA TxBesideParameters ==
  /\ {"insert", "update", "delete", "get", "tx", "badtx"} \subseteq T!AllOps
  /\ {Solo} \subseteq Thread /\ T!Cardinality({Solo}) <= 1
  /\ T!Cardinality(
       {o \in {{"drop"}, {"tx", "badtx"}, {"batch", "create_index", "rebuild"}} :
          o \cap {"insert", "update", "delete", "get", "tx", "badtx"} # {}})
       <= (IF T!Cardinality(Thread) = 1 THEN 2 ELSE 1)
  /\ MaxVer \in Nat /\ MaxTx \in Nat /\ CacheMax \in Nat \ {0}
  /\ NoThread \notin Thread /\ NoKey \notin TxKey /\ NoRec \notin T!Rec \cup Val
<1> DEFINE S == Kinds({"insert", "update", "delete", "get", "tx", "badtx"})
<1>1. Cardinality(S) \in Nat /\ Cardinality(S) <= 1
  BY AtMostOne, S \subseteq {{"tx", "badtx"}} DEF Kinds
<1>2. Cardinality({Solo}) = 1
  BY FS_Singleton
<1> HIDE DEF S
<1>3. Cardinality(S) <= (IF Cardinality(Thread) = 1 THEN 2 ELSE 1)
  BY <1>1
<1> QED BY <1>2, <1>3, TxBesideCardinality, SoloAssumption, KeyAssumption, NoRecAssumption,
           BoundAssumption DEF S, Kinds, T!AllOps, T!Rec

LEMMA SameTxBesideInit == TxBeside!Init = T!Init
BY DEF TxBeside!Init, T!Init, TxBeside!Empty, T!Empty, TxBeside!NoJob, T!NoJob

LEMMA SameTxBesideRawWrite == ASSUME NEW t PROVE TxBeside!RawWrite(t) = T!RawWrite(t)
BY DEF TxBeside!RawWrite, T!RawWrite, TxBeside!Unindex, T!Unindex, TxBeside!Store, T!Store,
       TxBeside!DeleteGone, T!DeleteGone, TxBeside!Index, T!Index, TxBeside!Uncache,
       T!Uncache, TxBeside!UnindexRecord, T!UnindexRecord, TxBeside!UnindexRecordSorted,
       T!UnindexRecordSorted, TxBeside!Goto, T!Goto, TxBeside!NewRec, T!NewRec,
       TxBeside!NewVersion, T!NewVersion, TxBeside!IndexRecord, T!IndexRecord,
       TxBeside!IndexRecordSorted, T!IndexRecordSorted, TxBeside!CacheSet, T!CacheSet,
       TxBeside!Cardinality, T!Cardinality, TxBeside!Present, T!Present

LEMMA SameTxBesideLocked == ASSUME NEW t PROVE TxBeside!Locked(t) = T!Locked(t)
BY DEF TxBeside!Locked, T!Locked, TxBeside!Crud, T!Crud, TxBeside!Return, T!Return,
       TxBeside!GetFill, T!GetFill, TxBeside!Drop, T!Drop, TxBeside!GetHit, T!GetHit,
       TxBeside!GetMiss, T!GetMiss, TxBeside!Enter, T!Enter, TxBeside!Target, T!Target,
       TxBeside!Begin, T!Begin, TxBeside!NoJob, T!NoJob, TxBeside!Goto, T!Goto,
       TxBeside!CacheSet, T!CacheSet, TxBeside!Empty, T!Empty, TxBeside!SpareId, T!SpareId,
       TxBeside!Present, T!Present, TxBeside!Cardinality, T!Cardinality

LEMMA SameTxBesideTx == ASSUME NEW t PROVE TxBeside!Tx(t) = T!Tx(t)
BY DEF TxBeside!Tx, T!Tx, TxBeside!TxBegin, T!TxBegin, TxBeside!TxBuffer, T!TxBuffer,
       TxBeside!TxCommit, T!TxCommit, TxBeside!TxApply, T!TxApply, TxBeside!TxNext, T!TxNext,
       TxBeside!TxFlush, T!TxFlush, TxBeside!TxAbort, T!TxAbort, TxBeside!TxRestore,
       T!TxRestore, TxBeside!NoJob, T!NoJob, TxBeside!Goto, T!Goto, TxBeside!TxOp, T!TxOp,
       TxBeside!SpareId, T!SpareId, TxBeside!Begin, T!Begin, TxBeside!Empty, T!Empty,
       TxBeside!Cardinality, T!Cardinality

LEMMA SameTxBesideBuild == ASSUME NEW t PROVE TxBeside!Build(t) = T!Build(t)
BY DEF TxBeside!Build, T!Build, TxBeside!BeginBatch, T!BeginBatch, TxBeside!Rebuild, T!Rebuild,
       TxBeside!ClearHash, T!ClearHash, TxBeside!CreateIndex, T!CreateIndex, TxBeside!Scan,
       T!Scan, TxBeside!AddEntry, T!AddEntry, TxBeside!ScanDone, T!ScanDone,
       TxBeside!ScanFails, T!ScanFails, TxBeside!LoadTree, T!LoadTree, TxBeside!RebuildDone,
       T!RebuildDone, TxBeside!NewJob, T!NewJob, TxBeside!Goto, T!Goto, TxBeside!Iterate,
       T!Iterate, TxBeside!NoJob, T!NoJob, TxBeside!SameSize, T!SameSize, TxBeside!Present,
       T!Present, TxBeside!IndexRecord, T!IndexRecord, TxBeside!Entries, T!Entries,
       TxBeside!Cardinality, T!Cardinality, TxBeside!Empty, T!Empty

LEMMA SameTxBesideNext == TxBeside!Next = T!Next
BY SameTxBesideRawWrite, SameTxBesideLocked, SameTxBesideTx, SameTxBesideBuild
   DEF TxBeside!Next, T!Next

LEMMA TxStep ==
  ASSUME T!TypeInv, T!FiniteInv, T!KeptInv, TxBeside!Next \/ UNCHANGED coreVars
  PROVE  (T!TypeInv /\ T!FiniteInv /\ T!KeptInv)'
<1>1. T!Next \/ UNCHANGED T!vars
  BY SameTxBesideNext DEF coreVars, T!vars
<1>2. (T!TypeInv /\ T!FiniteInv)'
  BY <1>1, TxBesideParameters, T!TypesNext
<1>3. T!KeptInv'
  BY <1>1, TxBesideParameters, T!KeptNext
<1> QED BY <1>2, <1>3

LEMMA TxMeans == ASSUME T!KeptInv PROVE TxBeside!AnswersWereStored
<1>1. T!AnswersWereStored
  BY TxBesideParameters, T!KeptMeans
<1> QED BY <1>1 DEF TxBeside!AnswersWereStored, T!AnswersWereStored

-----------------------------------------------------------------------------
(* Drops beside other calls.                                               *)

D == INSTANCE CoreStateProofs WITH
  search <- {}, Txs <- {}, MaxTx <- 0, Ops <- {"insert", "update", "delete", "get", "drop"}

LEMMA DropBesideCardinality == ASSUME NEW X PROVE D!Cardinality(X) = Cardinality(X)
BY DEF D!Cardinality, Cardinality

LEMMA DropBesideParameters ==
  /\ {"insert", "update", "delete", "get", "drop"} \subseteq D!AllOps
  /\ {} \subseteq Thread /\ D!Cardinality({}) <= 1
  /\ D!Cardinality(
       {o \in {{"drop"}, {"tx", "badtx"}, {"batch", "create_index", "rebuild"}} :
          o \cap {"insert", "update", "delete", "get", "drop"} # {}})
       <= (IF D!Cardinality(Thread) = 1 THEN 2 ELSE 1)
  /\ MaxVer \in Nat /\ 0 \in Nat /\ CacheMax \in Nat \ {0}
  /\ NoThread \notin Thread /\ NoKey \notin Key /\ NoRec \notin D!Rec \cup Val
<1> DEFINE S == Kinds({"insert", "update", "delete", "get", "drop"})
<1>1. Cardinality(S) \in Nat /\ Cardinality(S) <= 1
  BY AtMostOne, S \subseteq {{"drop"}} DEF Kinds
<1>2. Cardinality({}) = 0
  BY FS_EmptySet
<1> HIDE DEF S
<1>3. Cardinality(S) <= (IF Cardinality(Thread) = 1 THEN 2 ELSE 1)
  BY <1>1
<1> QED BY <1>2, <1>3, DropBesideCardinality, SoloAssumption, KeyAssumption, NoRecAssumption,
           BoundAssumption DEF S, Kinds, D!AllOps, D!Rec

LEMMA SameDropBesideInit == DropBeside!Init = D!Init
BY DEF DropBeside!Init, D!Init, DropBeside!Empty, D!Empty, DropBeside!NoJob, D!NoJob

LEMMA SameDropBesideRawWrite == ASSUME NEW t PROVE DropBeside!RawWrite(t) = D!RawWrite(t)
BY DEF DropBeside!RawWrite, D!RawWrite, DropBeside!Unindex, D!Unindex, DropBeside!Store, D!Store,
       DropBeside!DeleteGone, D!DeleteGone, DropBeside!Index, D!Index, DropBeside!Uncache,
       D!Uncache, DropBeside!UnindexRecord, D!UnindexRecord, DropBeside!UnindexRecordSorted,
       D!UnindexRecordSorted, DropBeside!Goto, D!Goto, DropBeside!NewRec, D!NewRec,
       DropBeside!NewVersion, D!NewVersion, DropBeside!IndexRecord, D!IndexRecord,
       DropBeside!IndexRecordSorted, D!IndexRecordSorted, DropBeside!CacheSet, D!CacheSet,
       DropBeside!Cardinality, D!Cardinality, DropBeside!Present, D!Present

LEMMA SameDropBesideLocked == ASSUME NEW t PROVE DropBeside!Locked(t) = D!Locked(t)
BY DEF DropBeside!Locked, D!Locked, DropBeside!Crud, D!Crud, DropBeside!Return, D!Return,
       DropBeside!GetFill, D!GetFill, DropBeside!Drop, D!Drop, DropBeside!GetHit, D!GetHit,
       DropBeside!GetMiss, D!GetMiss, DropBeside!Enter, D!Enter, DropBeside!Target, D!Target,
       DropBeside!Begin, D!Begin, DropBeside!NoJob, D!NoJob, DropBeside!Goto, D!Goto,
       DropBeside!CacheSet, D!CacheSet, DropBeside!Empty, D!Empty, DropBeside!SpareId,
       D!SpareId, DropBeside!Present, D!Present, DropBeside!Cardinality, D!Cardinality

LEMMA SameDropBesideTx == ASSUME NEW t PROVE DropBeside!Tx(t) = D!Tx(t)
BY DEF DropBeside!Tx, D!Tx, DropBeside!TxBegin, D!TxBegin, DropBeside!TxBuffer, D!TxBuffer,
       DropBeside!TxCommit, D!TxCommit, DropBeside!TxApply, D!TxApply, DropBeside!TxNext,
       D!TxNext, DropBeside!TxFlush, D!TxFlush, DropBeside!TxAbort, D!TxAbort,
       DropBeside!TxRestore, D!TxRestore, DropBeside!NoJob, D!NoJob, DropBeside!Goto, D!Goto,
       DropBeside!TxOp, D!TxOp, DropBeside!SpareId, D!SpareId, DropBeside!Begin, D!Begin,
       DropBeside!Empty, D!Empty, DropBeside!Cardinality, D!Cardinality

LEMMA SameDropBesideBuild == ASSUME NEW t PROVE DropBeside!Build(t) = D!Build(t)
BY DEF DropBeside!Build, D!Build, DropBeside!BeginBatch, D!BeginBatch, DropBeside!Rebuild,
       D!Rebuild, DropBeside!ClearHash, D!ClearHash, DropBeside!CreateIndex, D!CreateIndex,
       DropBeside!Scan, D!Scan, DropBeside!AddEntry, D!AddEntry, DropBeside!ScanDone,
       D!ScanDone, DropBeside!ScanFails, D!ScanFails, DropBeside!LoadTree, D!LoadTree,
       DropBeside!RebuildDone, D!RebuildDone, DropBeside!NewJob, D!NewJob, DropBeside!Goto,
       D!Goto, DropBeside!Iterate, D!Iterate, DropBeside!NoJob, D!NoJob, DropBeside!SameSize,
       D!SameSize, DropBeside!Present, D!Present, DropBeside!IndexRecord, D!IndexRecord,
       DropBeside!Entries, D!Entries, DropBeside!Cardinality, D!Cardinality, DropBeside!Empty,
       D!Empty

LEMMA SameDropBesideNext == DropBeside!Next = D!Next
BY SameDropBesideRawWrite, SameDropBesideLocked, SameDropBesideTx, SameDropBesideBuild
   DEF DropBeside!Next, D!Next

LEMMA DropStep ==
  ASSUME D!TypeInv, D!FiniteInv, D!LoggedInv, D!KeptInv, DropBeside!Next \/ UNCHANGED coreVars
  PROVE  (D!TypeInv /\ D!FiniteInv /\ D!LoggedInv /\ D!KeptInv)'
<1>1. D!Next \/ UNCHANGED D!vars
  BY SameDropBesideNext DEF coreVars, D!vars
<1>2. (D!TypeInv /\ D!FiniteInv)'
  BY <1>1, DropBesideParameters, D!TypesNext
<1>3. D!NoTx
  BY DEF D!NoTx
<1>4. D!LoggedInv'
  BY <1>1, <1>3, DropBesideParameters, D!LoggedNext
<1>5. D!KeptInv'
  BY <1>1, DropBesideParameters, D!KeptNext
<1> QED BY <1>2, <1>4, <1>5

LEMMA DropMeans ==
  ASSUME D!KeptInv, D!LoggedInv
  PROVE  DropBeside!RestartFindsMemory /\ DropBeside!AnswersWereStored
<1>1. D!AnswersWereStored /\ D!RestartFindsMemory
  BY DropBesideParameters, D!KeptMeans, D!LoggedMeans
<1>2. DropBeside!AnswersWereStored = D!AnswersWereStored
  BY DEF DropBeside!AnswersWereStored, D!AnswersWereStored
<1>3. DropBeside!RestartFindsMemory = D!RestartFindsMemory
  BY DEF DropBeside!RestartFindsMemory, D!RestartFindsMemory, DropBeside!Quiet, D!Quiet,
         DropBeside!Writing, D!Writing, DropBeside!WritePcs, D!WritePcs
<1> QED BY <1>1, <1>2, <1>3

-----------------------------------------------------------------------------
(* create_index beside writers.                                            *)

B == INSTANCE CoreStateProofs WITH
  search <- {}, Txs <- {}, MaxTx <- 0, Ops <- {"insert", "update", "create_index"}

LEMMA BuildBesideCardinality == ASSUME NEW X PROVE B!Cardinality(X) = Cardinality(X)
BY DEF B!Cardinality, Cardinality

LEMMA BuildBesideParameters ==
  /\ {"insert", "update", "create_index"} \subseteq B!AllOps
  /\ {} \subseteq Thread /\ B!Cardinality({}) <= 1
  /\ B!Cardinality(
       {o \in {{"drop"}, {"tx", "badtx"}, {"batch", "create_index", "rebuild"}} :
          o \cap {"insert", "update", "create_index"} # {}})
       <= (IF B!Cardinality(Thread) = 1 THEN 2 ELSE 1)
  /\ MaxVer \in Nat /\ 0 \in Nat /\ CacheMax \in Nat \ {0}
  /\ NoThread \notin Thread /\ NoKey \notin Key /\ NoRec \notin B!Rec \cup Val
<1> DEFINE S == Kinds({"insert", "update", "create_index"})
<1>1. Cardinality(S) \in Nat /\ Cardinality(S) <= 1
  BY AtMostOne, S \subseteq {{"batch", "create_index", "rebuild"}} DEF Kinds
<1>2. Cardinality({}) = 0
  BY FS_EmptySet
<1> HIDE DEF S
<1>3. Cardinality(S) <= (IF Cardinality(Thread) = 1 THEN 2 ELSE 1)
  BY <1>1
<1> QED BY <1>2, <1>3, BuildBesideCardinality, SoloAssumption, KeyAssumption, NoRecAssumption,
           BoundAssumption DEF S, Kinds, B!AllOps, B!Rec

LEMMA SameBuildBesideInit == BuildBeside!Init = B!Init
BY DEF BuildBeside!Init, B!Init, BuildBeside!Empty, B!Empty, BuildBeside!NoJob, B!NoJob

LEMMA SameBuildBesideRawWrite == ASSUME NEW t PROVE BuildBeside!RawWrite(t) = B!RawWrite(t)
BY DEF BuildBeside!RawWrite, B!RawWrite, BuildBeside!Unindex, B!Unindex, BuildBeside!Store,
       B!Store, BuildBeside!DeleteGone, B!DeleteGone, BuildBeside!Index, B!Index,
       BuildBeside!Uncache, B!Uncache, BuildBeside!UnindexRecord, B!UnindexRecord,
       BuildBeside!UnindexRecordSorted, B!UnindexRecordSorted, BuildBeside!Goto, B!Goto,
       BuildBeside!NewRec, B!NewRec, BuildBeside!NewVersion, B!NewVersion,
       BuildBeside!IndexRecord, B!IndexRecord, BuildBeside!IndexRecordSorted,
       B!IndexRecordSorted, BuildBeside!CacheSet, B!CacheSet, BuildBeside!Cardinality,
       B!Cardinality, BuildBeside!Present, B!Present

LEMMA SameBuildBesideLocked == ASSUME NEW t PROVE BuildBeside!Locked(t) = B!Locked(t)
BY DEF BuildBeside!Locked, B!Locked, BuildBeside!Crud, B!Crud, BuildBeside!Return, B!Return,
       BuildBeside!GetFill, B!GetFill, BuildBeside!Drop, B!Drop, BuildBeside!GetHit, B!GetHit,
       BuildBeside!GetMiss, B!GetMiss, BuildBeside!Enter, B!Enter, BuildBeside!Target,
       B!Target, BuildBeside!Begin, B!Begin, BuildBeside!NoJob, B!NoJob, BuildBeside!Goto,
       B!Goto, BuildBeside!CacheSet, B!CacheSet, BuildBeside!Empty, B!Empty,
       BuildBeside!SpareId, B!SpareId, BuildBeside!Present, B!Present,
       BuildBeside!Cardinality, B!Cardinality

LEMMA SameBuildBesideTx == ASSUME NEW t PROVE BuildBeside!Tx(t) = B!Tx(t)
BY DEF BuildBeside!Tx, B!Tx, BuildBeside!TxBegin, B!TxBegin, BuildBeside!TxBuffer, B!TxBuffer,
       BuildBeside!TxCommit, B!TxCommit, BuildBeside!TxApply, B!TxApply, BuildBeside!TxNext,
       B!TxNext, BuildBeside!TxFlush, B!TxFlush, BuildBeside!TxAbort, B!TxAbort,
       BuildBeside!TxRestore, B!TxRestore, BuildBeside!NoJob, B!NoJob, BuildBeside!Goto,
       B!Goto, BuildBeside!TxOp, B!TxOp, BuildBeside!SpareId, B!SpareId, BuildBeside!Begin,
       B!Begin, BuildBeside!Empty, B!Empty, BuildBeside!Cardinality, B!Cardinality

LEMMA SameBuildBesideBuild == ASSUME NEW t PROVE BuildBeside!Build(t) = B!Build(t)
BY DEF BuildBeside!Build, B!Build, BuildBeside!BeginBatch, B!BeginBatch, BuildBeside!Rebuild,
       B!Rebuild, BuildBeside!ClearHash, B!ClearHash, BuildBeside!CreateIndex, B!CreateIndex,
       BuildBeside!Scan, B!Scan, BuildBeside!AddEntry, B!AddEntry, BuildBeside!ScanDone,
       B!ScanDone, BuildBeside!ScanFails, B!ScanFails, BuildBeside!LoadTree, B!LoadTree,
       BuildBeside!RebuildDone, B!RebuildDone, BuildBeside!NewJob, B!NewJob, BuildBeside!Goto,
       B!Goto, BuildBeside!Iterate, B!Iterate, BuildBeside!NoJob, B!NoJob,
       BuildBeside!SameSize, B!SameSize, BuildBeside!Present, B!Present,
       BuildBeside!IndexRecord, B!IndexRecord, BuildBeside!Entries, B!Entries,
       BuildBeside!Cardinality, B!Cardinality, BuildBeside!Empty, B!Empty

LEMMA SameBuildBesideNext == BuildBeside!Next = B!Next
BY SameBuildBesideRawWrite, SameBuildBesideLocked, SameBuildBesideTx, SameBuildBesideBuild
   DEF BuildBeside!Next, B!Next

LEMMA BuildStep ==
  ASSUME B!TypeInv, B!FiniteInv, B!LoggedInv, B!LoopInv, BuildBeside!Next \/ UNCHANGED coreVars
  PROVE  (B!TypeInv /\ B!FiniteInv /\ B!LoggedInv /\ B!LoopInv)'
<1>1. B!Next \/ UNCHANGED B!vars
  BY SameBuildBesideNext DEF coreVars, B!vars
<1>2. B!NoTx /\ B!Looping
  BY DEF B!NoTx, B!Looping
<1>3. (B!TypeInv /\ B!FiniteInv)'
  BY <1>1, BuildBesideParameters, B!TypesNext
<1>4. B!LoggedInv'
  BY <1>1, <1>2, BuildBesideParameters, B!LoggedNext
<1>5. B!LoopInv'
  BY <1>1, <1>2, <1>3, BuildBesideParameters, B!LoopNext
<1> QED BY <1>3, <1>4, <1>5

LEMMA BuildEnds ==
  ASSUME B!TypeInv, B!FiniteInv, B!LoggedInv, B!LoopInv, BuildBeside!Next,
         NEW t \in Thread, pc[t] = "scan", pc'[t] \in {"flush", "load"},
         BuildBeside!SameSize(t), BuildBeside!Quiet, indexed,
         \A u \in Thread \ {t} : pc[u] \notin BuildBeside!RebuildPcs
  PROVE  BuildBeside!Entries(data) \subseteq hash
<1>1. B!Looping /\ B!Next
  BY SameBuildBesideNext DEF B!NoTx, B!Looping
<1>2. B!SameSize(t) /\ B!Quiet /\ BuildBeside!RebuildPcs = B!RebuildPcs
  BY DEF BuildBeside!SameSize, B!SameSize, BuildBeside!Cardinality, B!Cardinality,
         BuildBeside!Present, B!Present, BuildBeside!Quiet, B!Quiet, BuildBeside!Writing,
         B!Writing, BuildBeside!WritePcs, B!WritePcs, BuildBeside!RebuildPcs, B!RebuildPcs
<1>3. BuildBeside!Entries(data) = B!Entries(data)
  BY DEF BuildBeside!Entries, B!Entries, BuildBeside!Present, B!Present
<1> QED BY <1>1, <1>2, <1>3, BuildBesideParameters, B!LoopEnds

-----------------------------------------------------------------------------
(* Batches beside writers.                                                 *)

C == INSTANCE CoreStateProofs WITH
  search <- {}, Txs <- {}, MaxTx <- 0, Ops <- {"insert", "update", "batch"}

LEMMA BatchBesideCardinality == ASSUME NEW X PROVE C!Cardinality(X) = Cardinality(X)
BY DEF C!Cardinality, Cardinality

LEMMA BatchBesideParameters ==
  /\ {"insert", "update", "batch"} \subseteq C!AllOps
  /\ {} \subseteq Thread /\ C!Cardinality({}) <= 1
  /\ C!Cardinality(
       {o \in {{"drop"}, {"tx", "badtx"}, {"batch", "create_index", "rebuild"}} :
          o \cap {"insert", "update", "batch"} # {}})
       <= (IF C!Cardinality(Thread) = 1 THEN 2 ELSE 1)
  /\ MaxVer \in Nat /\ 0 \in Nat /\ CacheMax \in Nat \ {0}
  /\ NoThread \notin Thread /\ NoKey \notin Key /\ NoRec \notin C!Rec \cup Val
<1> DEFINE S == Kinds({"insert", "update", "batch"})
<1>1. Cardinality(S) \in Nat /\ Cardinality(S) <= 1
  BY AtMostOne, S \subseteq {{"batch", "create_index", "rebuild"}} DEF Kinds
<1>2. Cardinality({}) = 0
  BY FS_EmptySet
<1> HIDE DEF S
<1>3. Cardinality(S) <= (IF Cardinality(Thread) = 1 THEN 2 ELSE 1)
  BY <1>1
<1> QED BY <1>2, <1>3, BatchBesideCardinality, SoloAssumption, KeyAssumption, NoRecAssumption,
           BoundAssumption DEF S, Kinds, C!AllOps, C!Rec

LEMMA SameBatchBesideInit == BatchBeside!Init = C!Init
BY DEF BatchBeside!Init, C!Init, BatchBeside!Empty, C!Empty, BatchBeside!NoJob, C!NoJob

LEMMA SameBatchBesideRawWrite == ASSUME NEW t PROVE BatchBeside!RawWrite(t) = C!RawWrite(t)
BY DEF BatchBeside!RawWrite, C!RawWrite, BatchBeside!Unindex, C!Unindex, BatchBeside!Store,
       C!Store, BatchBeside!DeleteGone, C!DeleteGone, BatchBeside!Index, C!Index,
       BatchBeside!Uncache, C!Uncache, BatchBeside!UnindexRecord, C!UnindexRecord,
       BatchBeside!UnindexRecordSorted, C!UnindexRecordSorted, BatchBeside!Goto, C!Goto,
       BatchBeside!NewRec, C!NewRec, BatchBeside!NewVersion, C!NewVersion,
       BatchBeside!IndexRecord, C!IndexRecord, BatchBeside!IndexRecordSorted,
       C!IndexRecordSorted, BatchBeside!CacheSet, C!CacheSet, BatchBeside!Cardinality,
       C!Cardinality, BatchBeside!Present, C!Present

LEMMA SameBatchBesideLocked == ASSUME NEW t PROVE BatchBeside!Locked(t) = C!Locked(t)
BY DEF BatchBeside!Locked, C!Locked, BatchBeside!Crud, C!Crud, BatchBeside!Return, C!Return,
       BatchBeside!GetFill, C!GetFill, BatchBeside!Drop, C!Drop, BatchBeside!GetHit, C!GetHit,
       BatchBeside!GetMiss, C!GetMiss, BatchBeside!Enter, C!Enter, BatchBeside!Target,
       C!Target, BatchBeside!Begin, C!Begin, BatchBeside!NoJob, C!NoJob, BatchBeside!Goto,
       C!Goto, BatchBeside!CacheSet, C!CacheSet, BatchBeside!Empty, C!Empty,
       BatchBeside!SpareId, C!SpareId, BatchBeside!Present, C!Present,
       BatchBeside!Cardinality, C!Cardinality

LEMMA SameBatchBesideTx == ASSUME NEW t PROVE BatchBeside!Tx(t) = C!Tx(t)
BY DEF BatchBeside!Tx, C!Tx, BatchBeside!TxBegin, C!TxBegin, BatchBeside!TxBuffer, C!TxBuffer,
       BatchBeside!TxCommit, C!TxCommit, BatchBeside!TxApply, C!TxApply, BatchBeside!TxNext,
       C!TxNext, BatchBeside!TxFlush, C!TxFlush, BatchBeside!TxAbort, C!TxAbort,
       BatchBeside!TxRestore, C!TxRestore, BatchBeside!NoJob, C!NoJob, BatchBeside!Goto,
       C!Goto, BatchBeside!TxOp, C!TxOp, BatchBeside!SpareId, C!SpareId, BatchBeside!Begin,
       C!Begin, BatchBeside!Empty, C!Empty, BatchBeside!Cardinality, C!Cardinality

LEMMA SameBatchBesideBuild == ASSUME NEW t PROVE BatchBeside!Build(t) = C!Build(t)
BY SMTT(30) DEF BatchBeside!Build, C!Build, BatchBeside!BeginBatch, C!BeginBatch, BatchBeside!Rebuild,
       C!Rebuild, BatchBeside!ClearHash, C!ClearHash, BatchBeside!CreateIndex, C!CreateIndex,
       BatchBeside!Scan, C!Scan, BatchBeside!AddEntry, C!AddEntry, BatchBeside!ScanDone,
       C!ScanDone, BatchBeside!ScanFails, C!ScanFails, BatchBeside!LoadTree, C!LoadTree,
       BatchBeside!RebuildDone, C!RebuildDone, BatchBeside!NewJob, C!NewJob, BatchBeside!Goto,
       C!Goto, BatchBeside!Iterate, C!Iterate, BatchBeside!NoJob, C!NoJob,
       BatchBeside!SameSize, C!SameSize, BatchBeside!Present, C!Present,
       BatchBeside!IndexRecord, C!IndexRecord, BatchBeside!Entries, C!Entries,
       BatchBeside!Cardinality, C!Cardinality, BatchBeside!Empty, C!Empty

LEMMA SameBatchBesideNext == BatchBeside!Next = C!Next
BY SameBatchBesideRawWrite, SameBatchBesideLocked, SameBatchBesideTx, SameBatchBesideBuild
   DEF BatchBeside!Next, C!Next

LEMMA BatchStep ==
  ASSUME C!TypeInv, C!FiniteInv, C!LoggedInv, C!LoopInv, BatchBeside!Next \/ UNCHANGED coreVars
  PROVE  (C!TypeInv /\ C!FiniteInv /\ C!LoggedInv /\ C!LoopInv)'
<1>1. C!Next \/ UNCHANGED C!vars
  BY SameBatchBesideNext DEF coreVars, C!vars
<1>2. C!NoTx /\ C!Looping
  BY DEF C!NoTx, C!Looping
<1>3. (C!TypeInv /\ C!FiniteInv)'
  BY <1>1, BatchBesideParameters, C!TypesNext
<1>4. C!LoggedInv'
  BY <1>1, <1>2, BatchBesideParameters, C!LoggedNext
<1>5. C!LoopInv'
  BY <1>1, <1>2, <1>3, BatchBesideParameters, C!LoopNext
<1> QED BY <1>3, <1>4, <1>5

LEMMA BatchEnds ==
  ASSUME C!TypeInv, C!FiniteInv, C!LoggedInv, C!LoopInv, BatchBeside!Next,
         NEW t \in Thread, pc[t] = "scan", pc'[t] \in {"flush", "load"},
         BuildBeside!SameSize(t), BuildBeside!Quiet, indexed,
         \A u \in Thread \ {t} : pc[u] \notin BuildBeside!RebuildPcs
  PROVE  BuildBeside!Entries(data) \subseteq hash
<1>1. C!Looping /\ C!Next
  BY SameBatchBesideNext DEF C!NoTx, C!Looping
<1>2. C!SameSize(t) /\ C!Quiet /\ BuildBeside!RebuildPcs = C!RebuildPcs
  BY DEF BuildBeside!SameSize, C!SameSize, BuildBeside!Cardinality, C!Cardinality,
         BuildBeside!Present, C!Present, BuildBeside!Quiet, C!Quiet, BuildBeside!Writing,
         C!Writing, BuildBeside!WritePcs, C!WritePcs, BuildBeside!RebuildPcs, C!RebuildPcs
<1>3. BuildBeside!Entries(data) = C!Entries(data)
  BY DEF BuildBeside!Entries, C!Entries, BuildBeside!Present, C!Present
<1> QED BY <1>1, <1>2, <1>3, BatchBesideParameters, C!LoopEnds

-----------------------------------------------------------------------------
(* The workloads.                                                          *)

\* The invariant of the instance that a behaviour follows.
ModesInv ==
  /\ workload = "alone" => A!TypeInv /\ A!FiniteInv /\ A!SoloInv(Solo)
  /\ workload = "tx" => T!TypeInv /\ T!FiniteInv /\ T!KeptInv
  /\ workload = "drop" => D!TypeInv /\ D!FiniteInv /\ D!LoggedInv /\ D!KeptInv
  /\ workload = "build" => B!TypeInv /\ B!FiniteInv /\ B!LoggedInv /\ B!LoopInv
  /\ workload = "batch" => C!TypeInv /\ C!FiniteInv /\ C!LoggedInv /\ C!LoopInv

LEMMA ModesInvInit == ASSUME Init PROVE ModesInv
<1>1. CASE workload = "alone" /\ Alone!Init
  <2>1. A!Init
    BY <1>1, SameAloneInit
  <2> QED BY <1>1, <2>1, AloneParameters, A!TypesInit, A!SoloInit DEF ModesInv
<1>2. CASE workload = "tx" /\ TxBeside!Init
  <2>1. T!Init
    BY <1>2, SameTxBesideInit
  <2> QED BY <1>2, <2>1, TxBesideParameters, T!TypesInit, T!KeptInit DEF ModesInv
<1>3. CASE workload = "drop" /\ DropBeside!Init
  <2>1. D!Init
    BY <1>3, SameDropBesideInit
  <2> QED BY <1>3, <2>1, DropBesideParameters, D!TypesInit, D!LoggedInit, D!KeptInit
         DEF ModesInv
<1>4. CASE workload = "build" /\ BuildBeside!Init
  <2>1. B!Init
    BY <1>4, SameBuildBesideInit
  <2> QED BY <1>4, <2>1, BuildBesideParameters, B!TypesInit, B!LoggedInit, B!LoopInit
         DEF ModesInv
<1>5. CASE workload = "batch" /\ BatchBeside!Init
  <2>1. C!Init
    BY <1>5, SameBatchBesideInit
  <2> QED BY <1>5, <2>1, BatchBesideParameters, C!TypesInit, C!LoggedInit, C!LoopInit
         DEF ModesInv
<1> QED BY <1>1, <1>2, <1>3, <1>4, <1>5 DEF Init

LEMMA ModesInvNext == ModesInv /\ [Next]_<<workload, coreVars>> => ModesInv'
<1> SUFFICES ASSUME ModesInv, [Next]_<<workload, coreVars>> PROVE ModesInv'
  OBVIOUS
<1>1. workload' = workload
  BY DEF Next
<1>2. CASE workload = "alone"
  <2>1. Alone!Next \/ UNCHANGED coreVars
    BY <1>2 DEF Next
  <2> QED BY <1>1, <1>2, <2>1, AloneStep DEF ModesInv
<1>3. CASE workload = "tx"
  <2>1. TxBeside!Next \/ UNCHANGED coreVars
    BY <1>3 DEF Next
  <2> QED BY <1>1, <1>3, <2>1, TxStep DEF ModesInv
<1>4. CASE workload = "drop"
  <2>1. DropBeside!Next \/ UNCHANGED coreVars
    BY <1>4 DEF Next
  <2> QED BY <1>1, <1>4, <2>1, DropStep DEF ModesInv
<1>5. CASE workload = "build"
  <2>1. BuildBeside!Next \/ UNCHANGED coreVars
    BY <1>5 DEF Next
  <2> QED BY <1>1, <1>5, <2>1, BuildStep DEF ModesInv
<1>6. CASE workload = "batch"
  <2>1. BatchBeside!Next \/ UNCHANGED coreVars
    BY <1>6 DEF Next
  <2> QED BY <1>1, <1>6, <2>1, BatchStep DEF ModesInv
<1>7. CASE workload \notin {"alone", "tx", "drop", "build", "batch"}
  BY <1>1, <1>7 DEF ModesInv
<1> QED BY <1>2, <1>3, <1>4, <1>5, <1>6, <1>7

LEMMA ModesInvMeans == ASSUME ModesInv PROVE MemoryAgrees
BY AloneMeans, TxMeans, DropMeans DEF ModesInv, MemoryAgrees

\* Cache, indexes, log and snapshots agree with the records as long as one thread makes all
\* the calls, transactions, batches and index builds included; log and snapshots do beside
\* drops; and a read answers with what was stored once beside a transaction or drops
\* (engine.py:107-167, 391, 465-477, 688-696, 873-905).
THEOREM MemoryAgreesBeside == Spec => []MemoryAgrees
<1>1. Init => ModesInv
  BY ModesInvInit
<1>2. ModesInv => MemoryAgrees
  BY ModesInvMeans
<1> QED BY <1>1, <1>2, ModesInvNext, PTL DEF Spec

\* Whatever the other threads insert and update meanwhile, the loop that fills an index, of
\* create_index and of end_batch, ends with an entry for every record when it was the only
\* one (IndexManager.rebuild and create_index, engine.py:873-905).
THEOREM IndexCoversBeside == Spec => IndexCoversData
<1>1. Init => ModesInv
  BY ModesInvInit
<1>2. ModesInv /\ [Next]_<<workload, coreVars>> =>
        [\A t \in Thread :
           workload \in {"build", "batch"}
             /\ pc[t] = "scan" /\ pc'[t] \in {"flush", "load"} /\ BuildBeside!SameSize(t)
             /\ BuildBeside!Quiet /\ indexed
             /\ (\A u \in Thread \ {t} : pc[u] \notin BuildBeside!RebuildPcs)
             => BuildBeside!Entries(data) \subseteq hash]_<<workload, coreVars>>
  <2> SUFFICES ASSUME ModesInv, Next, NEW t \in Thread, workload \in {"build", "batch"},
                      pc[t] = "scan", pc'[t] \in {"flush", "load"}, BuildBeside!SameSize(t),
                      BuildBeside!Quiet, indexed,
                      \A u \in Thread \ {t} : pc[u] \notin BuildBeside!RebuildPcs
               PROVE  BuildBeside!Entries(data) \subseteq hash
    OBVIOUS
  <2>1. CASE workload = "build"
    BY <2>1, BuildEnds DEF Next, ModesInv
  <2>2. CASE workload = "batch"
    BY <2>2, BatchEnds DEF Next, ModesInv
  <2> QED BY <2>1, <2>2
<1> QED BY <1>1, <1>2, ModesInvNext, PTL DEF Spec, IndexCoversData
=============================================================================
