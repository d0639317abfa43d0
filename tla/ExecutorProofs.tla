--------------------------- MODULE ExecutorProofs ---------------------------
(***************************************************************************)
(* Proofs about Executor, for any ids and any bound on the rows: what the  *)
(* statements promise holds whatever the index file contains.              *)
(***************************************************************************)
EXTENDS Executor, InsertJournalProofs

(* The storage step of an engine step is a storage step. *)
LEMMA EngineStep == ASSUME ExecNext
                    PROVE  Next \/ UNCHANGED vars
<1>1. CASE StartInsert \/ StartSelect \/ StartRebuild \/ RecoverAndOpen \/ Close
  BY <1>1 DEF StartInsert, StartSelect, StartRebuild, RecoverAndOpen, Close, Next
<1>2. CASE LoadIndex \/ RebuildIndex \/ SyncRebuilt \/ Select \/ RejectDuplicate \/ ScanFails
  BY <1>2 DEF LoadIndex, RebuildIndex, SyncRebuilt, Select, RejectDuplicate, ScanFails, Next
<1>3. CASE InsertRow \/ CarryOutInsert
  BY <1>3 DEF InsertRow, CarryOutInsert, Next
<1>4. CASE UpdateIndex \/ PersistIndex \/ SyncPersisted
  BY <1>4 DEF UpdateIndex, PersistIndex, SyncPersisted, Next
<1>5. CASE EngineCrash \/ MachineCrash \/ MeddleWithIndex
  BY <1>5 DEF EngineCrash, MachineCrash, MeddleWithIndex, Next
<1> QED BY <1>1, <1>2, <1>3, <1>4, <1>5 DEF ExecNext

(***************************************************************************)
(* The statements use the storage layer as InsertJournal describes it, so  *)
(* whatever is proved of the storage layer is true of the engine.          *)
(***************************************************************************)
THEOREM EngineUsesStorage == ExecSpec => Spec
<1>1. ExecInit => Init
  BY DEF ExecInit
<1>2. [ExecNext]_allVars => [Next]_vars
  BY EngineStep DEF allVars
<1> QED BY <1>1, <1>2, PTL DEF ExecSpec, Spec

-----------------------------------------------------------------------------
(* The phase of a statement says where the storage layer stands. *)
PhaseInv ==
  /\ phase \in {"load", "rebuild", "syncIndex", "check", "update", "persist",
                "syncPersisted", "close"} => pc = "ready"
  /\ phase = "open" => pc \in OpenPc
  /\ phase = "insert" => pc \in InsertPc
  /\ phase \in {"open", "insert", "update", "persist", "syncPersisted"} => stmt.kind = "INSERT"
  /\ phase \in {"open", "load", "rebuild", "syncIndex", "check", "insert"} => outcome = "none"

(* The row being inserted has an id that no row of the table has. *)
Fresh == pc \in InsertPc => \A i \in 1..row_count : slot[i].now # row

(* The statuses of an INSERT whose row is in the table. *)
Inserted == {"EXEC_OK", "EXEC_INDEX_ERROR", "EXEC_INDEX_PERSIST_FAILED"}

(* A statement that got past its insert has been acknowledged, and stays so. *)
InsertedInv ==
  /\ phase = "insert" => row = stmt.id
  /\ phase \in {"update", "persist", "syncPersisted"} => Acked /\ row = stmt.id
  /\ stmt.kind = "INSERT" /\ outcome \in Inserted => Acked /\ row = stmt.id

(* The invariant of the engine, which EngineInvariance proves. *)
EInv == IInv /\ PhaseInv /\ Fresh /\ InsertedInv /\ UniqueIds /\ SelectAnswersScan

(* It holds at the start, with an empty table and no statement. *)
LEMMA InitEInv == ExecInit => EInv
<1> SUFFICES ASSUME ExecInit
             PROVE  EInv
  OBVIOUS
<1>1. Init /\ phase = "idle" /\ outcome = "none" /\ pc = "idle"
  BY DEF ExecInit, Init
<1>2. IInv
  BY <1>1, InitIInv
<1>3. PhaseInv /\ Fresh /\ InsertedInv /\ SelectAnswersScan
  BY <1>1 DEF PhaseInv, Fresh, InsertedInv, SelectAnswersScan, Inserted, InsertPc
<1>4. UniqueIds
  <2>1. jnl.disk = {NoFile} /\ hdr.disk = {0}
    BY <1>1, CleanFacts DEF Init
  <2>2. \A n \in Outcomes : n = 0
    BY <2>1, <1>2, OutcomeMember DEF IInv
  <2> QED BY <2>2 DEF UniqueIds
<1> QED BY <1>2, <1>3, <1>4 DEF EInv

(* It holds as long as nothing changes. *)
LEMMA ExecStutter == ASSUME EInv, UNCHANGED allVars
                     PROVE  EInv'
<1>1. IInv'
  BY StutterIInv DEF EInv, allVars
<1>2. PhaseInv' /\ Fresh' /\ InsertedInv'
  BY DEF EInv, allVars, vars, PhaseInv, Fresh, InsertedInv, Acked
<1>3. UniqueIds' /\ SelectAnswersScan'
  BY DEF EInv, allVars, vars, UniqueIds, SelectAnswersScan, Outcomes, Matching
<1> QED BY <1>1, <1>2, <1>3 DEF EInv

-----------------------------------------------------------------------------
(* Where an insert is, or a handle is open, the table may still be the one *)
(* of row_count rows.                                                      *)
LEMMA HandleOutcome == ASSUME IInv, pc \in InsertPc \union {"ready"}
                       PROVE  row_count \in Outcomes
<1>type. TypeOK /\ row_count \in Int /\ jnl.now \in jnl.disk
  BY DEF IInv, TypeOK, Counts, Cell
<1>1. \/ jnl.now = NoFile /\ hdr = Clean(row_count)
      \/ jnl.now = row_count
      \/ row_count \in jnl.disk
  BY CleanFacts DEF IInv, InsertInv, InsertPc
<1> QED BY <1>1, <1>type, OutcomeMember, CleanFacts, Sentinels

(* Any storage step but the beginning of an insert. *)
OtherStep ==
  \/ OpenTable \/ OpenReadonly \/ CloseTable \/ Publish \/ Apply \/ Retire
  \/ Recover \/ SyncDirectory \/ ProcessCrash \/ PowerLoss

(* A step inside an insert keeps its row and the handle's row count. *)
LEMMA InsertGoesOn == ASSUME OtherStep, pc' \in InsertPc
                      PROVE  pc \in InsertPc /\ UNCHANGED <<row, row_count>>
<1>1. CASE OpenTable \/ OpenReadonly \/ CloseTable \/ SyncDirectory \/ ProcessCrash \/ PowerLoss
  BY <1>1 DEF OpenTable, OpenReadonly, Opened, CloseTable, SyncDirectory, ProcessCrash,
              PowerLoss, Restart, InsertPc
<1>2. CASE Publish
  BY <1>2 DEF Publish, MakeTemp, WriteTemp, RenameTemp, SyncJournalEntry, Step, Fail, request,
              InsertPc
<1>3. CASE Apply
  BY <1>3 DEF Apply, WriteRow, SyncRow, WriteHeader, SyncHeader, Step, Fail, request, InsertPc
<1>4. CASE Retire
  BY <1>4 DEF Retire, UnlinkJournal, FinishInsert, Step, Fail, request, InsertPc
<1>5. CASE Recover
  BY <1>5 DEF Recover, ReadJournal, RestoreHeader, SyncRestored, Truncate, SyncTruncated,
              DropJournal, SyncDropped, Validate, Opened, Step, Fail, request, InsertPc
<1> QED BY <1>1, <1>2, <1>3, <1>4, <1>5 DEF OtherStep

(* Any step but the beginning of an insert is a storage step. *)
LEMMA OtherIsNext == OtherStep => Next
BY DEF OtherStep, Next

(* An insert under way keeps an id that is not in the table. *)
LEMMA FreshStays == ASSUME IInv, Fresh, OtherStep
                    PROVE  Fresh'
<1>1. SUFFICES ASSUME pc' \in InsertPc, NEW i \in 1..row_count'
               PROVE  slot'[i].now # row'
  BY DEF Fresh
<1>2. pc \in InsertPc /\ row' = row /\ row_count' = row_count
  BY <1>1, InsertGoesOn
<1>3. slot'[i] = slot[i]
  BY <1>1, <1>2, HandleOutcome, OtherIsNext, SlotsKept
<1> QED BY <1>1, <1>2, <1>3 DEF Fresh

(* Ids stay unique: only the row of an insert under way is exposed anew. *)
LEMMA UniqueStays == ASSUME DirSyncSupported, IInv, IInv', Fresh, UniqueIds, OtherStep
                     PROVE  UniqueIds'
<1>1. SUFFICES ASSUME NEW n \in Outcomes', NEW i \in 1..n, NEW j \in 1..n,
                      slot'[i].now = slot'[j].now
               PROVE  i = j
  BY DEF UniqueIds
<1>2. CASE n \in Outcomes
  <2>1. slot'[i] = slot[i] /\ slot'[j] = slot[j]
    BY <1>2, OtherIsNext, SlotsKept
  <2> QED BY <1>1, <1>2, <2>1 DEF UniqueIds
<1>3. CASE n \notin Outcomes
  <2>1. pc = "unlink" /\ pc' = "syncUnlink" /\ n = row_count + 1 /\ row_count \in Outcomes
    BY <1>3, OtherIsNext, OutcomesStep DEF IInv
  <2>2. row' = row /\ row_count' = row_count /\ row_count \in Nat
    BY <2>1, InsertGoesOn DEF InsertPc, IInv, TypeOK, Counts
  <2>3. slot'[n].now = row
    BY <2>1, <2>2, CleanFacts DEF IInv, InsertInv, next
  <2>4. ASSUME NEW k \in 1..row_count
        PROVE  slot'[k] = slot[k] /\ slot[k].now # row
    BY <2>1, OtherIsNext, SlotsKept DEF Fresh, InsertPc
  <2>6. CASE i = n \/ j = n
    BY <1>1, <2>1, <2>2, <2>3, <2>4, <2>6
  <2>7. CASE i \in 1..row_count /\ j \in 1..row_count
    BY <1>1, <2>1, <2>4, <2>7 DEF UniqueIds
  <2> QED BY <2>1, <2>2, <2>6, <2>7
<1> QED BY <1>2, <1>3

(* The beginning of an insert, after the uniqueness check. *)
LEMMA InsertRowStep == ASSUME EInv, InsertRow
                       PROVE  PhaseInv' /\ Fresh' /\ InsertedInv' /\ UniqueIds'
<1>1. /\ phase = "check" /\ stmt.kind = "INSERT" /\ pc = "ready" /\ outcome = "none"
      /\ Insert /\ row' = stmt.id
      /\ phase' = IF pc' = "idle" THEN "idle" ELSE "insert"
      /\ outcome' = IF pc' = "idle" THEN CallStatus ELSE outcome
      /\ UNCHANGED <<stmt, idx, index, answer>>
  BY DEF InsertRow, EInv, PhaseInv
<1>2. \A i \in 1..row_count : slot[i].now # stmt.id
  BY DEF InsertRow, IsDuplicate, Matching
<1>3. /\ UNCHANGED <<files, row_count>>
      /\ pc' = "makeTemp" \/ pc' = "idle"
  BY <1>1 DEF Insert, BeginInsert, RejectInsert, Start
<1>4. PhaseInv' /\ InsertedInv'
  BY <1>1, <1>3 DEF PhaseInv, InsertedInv, Inserted, InsertPc, CallStatus
<1>5. Fresh'
  BY <1>1, <1>2, <1>3 DEF Fresh, files, table
<1>6. UniqueIds'
  BY <1>3 DEF EInv, UniqueIds, Outcomes, files, table
<1> QED BY <1>4, <1>5, <1>6

(* Every other engine step leaves the storage layer alone, or makes a step *)
(* that begins no insert.                                                  *)
LEMMA EngineOtherStep == ASSUME ExecNext, ~InsertRow
                         PROVE  OtherStep \/ UNCHANGED vars
<1>1. CASE StartInsert \/ StartSelect \/ StartRebuild \/ RecoverAndOpen \/ Close
  BY <1>1 DEF StartInsert, StartSelect, StartRebuild, RecoverAndOpen, Close, OtherStep
<1>2. CASE LoadIndex \/ RebuildIndex \/ SyncRebuilt \/ Select \/ RejectDuplicate \/ ScanFails
  BY <1>2 DEF LoadIndex, RebuildIndex, SyncRebuilt, Select, RejectDuplicate, ScanFails, OtherStep
<1>3. CASE CarryOutInsert \/ UpdateIndex \/ PersistIndex \/ SyncPersisted
  BY <1>3 DEF CarryOutInsert, UpdateIndex, PersistIndex, SyncPersisted, OtherStep
<1>4. CASE EngineCrash \/ MachineCrash \/ MeddleWithIndex
  BY <1>4 DEF EngineCrash, MachineCrash, MeddleWithIndex, OtherStep
<1> QED BY <1>1, <1>2, <1>3, <1>4 DEF ExecNext

(* How the storage calls of a statement end. *)
LEMMA RecoverEnds == ASSUME Recover
                     PROVE  pc' \in OpenPc \union {"idle", "ready"}
BY DEF Recover, ReadJournal, RestoreHeader, SyncRestored, Truncate, SyncTruncated, DropJournal,
       SyncDropped, Validate, Opened, Step, Fail, OpenPc

(* An insert ends idle, or ready with its row acknowledged. *)
LEMMA InsertEnds == ASSUME IInv, pc \in InsertPc, Publish \/ Apply \/ Retire
                    PROVE  /\ pc' \in InsertPc \union {"idle", "ready"}
                           /\ pc' = "ready" => Acked' 
                           /\ row' = row
<1>1. call = "insert"
  BY DEF IInv, InsertInv
<1>2. CASE Publish
  BY <1>1, <1>2 DEF Publish, MakeTemp, WriteTemp, RenameTemp, SyncJournalEntry, Step, Fail,
                    request, InsertPc, Acked
<1>3. CASE Apply
  BY <1>1, <1>3 DEF Apply, WriteRow, SyncRow, WriteHeader, SyncHeader, Step, Fail, request,
                    InsertPc, Acked
<1>4. CASE Retire
  BY <1>1, <1>4 DEF Retire, UnlinkJournal, FinishInsert, Step, Fail, request, InsertPc, Acked
<1> QED BY <1>2, <1>3, <1>4

(* Phases, pc and reports stay in step. *)
LEMMA StatementStep == ASSUME EInv, ExecNext, ~InsertRow
                       PROVE  PhaseInv' /\ InsertedInv'
<1> USE DEF EInv, PhaseInv, InsertedInv, Inserted
<1>1. CASE StartInsert
  BY <1>1 DEF StartInsert, Begin, OpenTable, CallStatus, OpenPc
<1>2. CASE StartSelect \/ StartRebuild
  BY <1>2 DEF StartSelect, StartRebuild, Begin, OpenReadonly, Opened
<1>3. CASE RecoverAndOpen
  BY <1>3, RecoverEnds DEF RecoverAndOpen, Proceed, CallStatus, OpenPc
<1>4. CASE Close
  BY <1>4 DEF Close, CloseTable, request, Acked
<1>5. CASE LoadIndex \/ RebuildIndex
  BY <1>5 DEF LoadIndex, RebuildIndex, Rebuilt, RebuildFails, EndingRebuild, Go, End, vars, Acked
<1>6. CASE SyncRebuilt
  BY <1>6 DEF SyncRebuilt, Go, End, SyncDirectory, vars, request, Acked
<1>7. CASE Select \/ RejectDuplicate \/ ScanFails
  BY <1>7 DEF Select, RejectDuplicate, ScanFails, End, vars, Acked
<1>8. CASE CarryOutInsert
  BY <1>8, InsertEnds DEF CarryOutInsert, Proceed, CallStatus, InsertPc
<1>9. CASE UpdateIndex \/ PersistIndex
  BY <1>9 DEF UpdateIndex, PersistIndex, Go, End, vars, Acked
<1>10. CASE SyncPersisted
  BY <1>10 DEF SyncPersisted, End, SyncDirectory, vars, request, Acked
<1>11. CASE EngineCrash \/ MachineCrash
  BY <1>11 DEF EngineCrash, MachineCrash, Abandon
<1>12. CASE MeddleWithIndex
  BY <1>12 DEF MeddleWithIndex, vars, Acked
<1> QED BY <1>1, <1>2, <1>3, <1>4, <1>5, <1>6, <1>7, <1>8, <1>9, <1>10, <1>11, <1>12 DEF ExecNext

(* A SELECT's answer is right when it is made, and stays while it is shown. *)
LEMMA AnswerStep == ASSUME EInv, ExecNext
                    PROVE  SelectAnswersScan'
<1>1. SUFFICES ASSUME phase' = "close", stmt'.kind = "SELECT", outcome' = "EXEC_OK"
               PROVE  answer' = Matching(stmt.id)' 
  BY DEF SelectAnswersScan
<1>2. Select
  <2>1. ~(UpdateIndex \/ PersistIndex \/ SyncPersisted)
    BY <1>1 DEF EInv, PhaseInv, UpdateIndex, PersistIndex, SyncPersisted, Go, End
  <2>2. ~(RejectDuplicate \/ ScanFails \/ InsertRow \/ CarryOutInsert)
    BY <1>1 DEF EInv, PhaseInv, RejectDuplicate, ScanFails, InsertRow, CarryOutInsert, Proceed, End
  <2>3. ~(StartInsert \/ StartSelect \/ StartRebuild \/ RecoverAndOpen \/ Close)
    BY <1>1 DEF EInv, PhaseInv, StartInsert, StartSelect, StartRebuild, RecoverAndOpen, Close,
                Proceed
  <2>4. ~(LoadIndex \/ RebuildIndex \/ SyncRebuilt)
    BY <1>1 DEF EInv, PhaseInv, LoadIndex, RebuildIndex, Rebuilt, RebuildFails, EndingRebuild,
                SyncRebuilt, Go, End
  <2>5. ~(EngineCrash \/ MachineCrash \/ MeddleWithIndex)
    BY <1>1 DEF EngineCrash, MachineCrash, MeddleWithIndex, Abandon
  <2> QED BY <2>1, <2>2, <2>3, <2>4, <2>5 DEF ExecNext
<1>3. /\ UNCHANGED <<vars, stmt>>
      /\ \/ FoundByIndex(stmt.id) /\ answer' = {index[stmt.id]}
         \/ answer' = Matching(stmt.id)
  BY <1>1, <1>2 DEF Select, End
<1>4. Matching(stmt.id)' = Matching(stmt.id)
  BY <1>3 DEF Matching, vars
<1>5. CASE FoundByIndex(stmt.id) /\ answer' = {index[stmt.id]}
  <2>1. index[stmt.id] \in Matching(stmt.id)
    BY <1>5 DEF FoundByIndex
  <2>2. pc = "ready"
    BY <1>2 DEF Select, End, EInv, PhaseInv
  <2>3. row_count \in Outcomes
    BY <2>2, HandleOutcome DEF EInv
  <2>4. \A i, j \in Matching(stmt.id) : i = j
    BY <2>3 DEF Matching, EInv, UniqueIds
  <2> QED BY <1>4, <1>5, <2>1, <2>4
<1>6. CASE answer' = Matching(stmt.id)
  BY <1>4, <1>6
<1> QED BY <1>3, <1>5, <1>6

-----------------------------------------------------------------------------
(***************************************************************************)
(* The engine's invariant: phases and storage layer in step, a row fresh   *)
(* while it is inserted, a primary key in every outcome, every answer that *)
(* of a scan.                                                              *)
(***************************************************************************)
THEOREM EngineInvariance == ASSUME DirSyncSupported
                            PROVE  ExecSpec => []EInv
<1>1. ASSUME EInv, ExecNext
      PROVE  EInv'
  <2>1. IInv'
    BY <1>1, EngineStep, NextIInv, StutterIInv DEF EInv
  <2>2. SelectAnswersScan'
    BY <1>1, AnswerStep
  <2>3. CASE InsertRow
    BY <1>1, <2>1, <2>2, <2>3, InsertRowStep DEF EInv
  <2>4. CASE ~InsertRow
    <3>1. PhaseInv' /\ InsertedInv'
      BY <1>1, <2>4, StatementStep
    <3>2. CASE OtherStep
      <4>1. Fresh' /\ UniqueIds'
        BY <1>1, <2>1, <3>2, FreshStays, UniqueStays DEF EInv
      <4> QED BY <2>1, <2>2, <3>1, <4>1 DEF EInv
    <3>3. CASE UNCHANGED vars
      <4>1. Fresh' /\ UniqueIds'
        BY <1>1, <3>3 DEF EInv, Fresh, UniqueIds, Outcomes, vars
      <4> QED BY <2>1, <2>2, <3>1, <4>1 DEF EInv
    <3> QED BY <1>1, <2>4, <3>2, <3>3, EngineOtherStep
  <2> QED BY <2>3, <2>4
<1>2. EInv /\ [ExecNext]_allVars => EInv'
  BY <1>1, ExecStutter
<1> QED BY InitEInv, <1>2, PTL DEF ExecSpec

(***************************************************************************)
(* The id column is a primary key, through every crash and whatever the    *)
(* index file holds.                                                       *)
(***************************************************************************)
THEOREM PrimaryKey == ASSUME DirSyncSupported
                      PROVE  ExecSpec => []UniqueIds
<1>1. EInv => UniqueIds
  BY DEF EInv
<1> QED BY EngineInvariance, <1>1, PTL

(***************************************************************************)
(* The index never changes what a SELECT answers.                          *)
(***************************************************************************)
THEOREM IndexIsNotAuthority == ASSUME DirSyncSupported
                               PROVE  ExecSpec => []SelectAnswersScan
<1>1. EInv => SelectAnswersScan
  BY DEF EInv
<1> QED BY EngineInvariance, <1>1, PTL

(***************************************************************************)
(* An INSERT that ends well, or with a warning about the index, is durable *)
(* (executor.c: "table row is already committed").                         *)
(***************************************************************************)
THEOREM WarningIsHarmless == ASSUME DirSyncSupported
                             PROVE  ExecSpec => []WarnedIsDurable
<1>1. EInv /\ AckedIsDurable => WarnedIsDurable
  BY DEF EInv, InsertedInv, Inserted, WarnedIsDurable, AckedIsDurable
<1> QED BY EngineInvariance, EngineUsesStorage, AckedSurvives, <1>1, PTL

-----------------------------------------------------------------------------
(* While a handle is open, the rows the header counts are rows.            *)
LEMMA ReadyTable == ASSUME IInv, pc = "ready"
                    PROVE  /\ hdr.now \in 0..MaxRows /\ row_count = hdr.now
                           /\ \A i \in 1..hdr.now : slot[i].now \in Row
<1>1. jnl.now = NoFile /\ hdr = Clean(row_count) /\ row_count \in 0..MaxRows
  BY DEF IInv, InsertInv, TypeOK, Counts
<1>2. RowsOnDisk(hdr.now)
  BY <1>1 DEF IInv, Quiet
<1>3. hdr.now = row_count
  BY <1>1, CleanFacts
<1>4. ASSUME NEW i \in 1..hdr.now
      PROVE  slot[i].now \in Row
  <2>1. PICK r \in Row : slot[i] = Clean(r)
    BY <1>2 DEF RowsOnDisk
  <2> QED BY <2>1, CleanFacts
<1> QED BY <1>1, <1>3, <1>4

(* So what a scan of them makes is an index. *)
LEMMA ScannedIndex == ASSUME IInv, pc = "ready"
                      PROVE  IndexOfTable \in Index
<1> DEFINE keys == {slot[i].now : i \in 1..hdr.now}
<1>1. keys \in SUBSET Ids
  BY ReadyTable DEF Ids
<1>2. \A id \in keys : (CHOOSE i \in 1..hdr.now : slot[i].now = id) \in Offsets
  BY ReadyTable, MaxRowsAssumption DEF Offsets
<1>3. IndexOfTable \in [keys -> Offsets]
  BY <1>2 DEF IndexOfTable
<1> QED BY <1>1, <1>3 DEF Index

(* An index with an entry more is an index, and leads to that entry.       *)
LEMMA IndexedEntry == ASSUME index \in Index \union {NoFile}, NEW id \in Ids, NEW n \in Offsets
                      PROVE  /\ Indexed(id, n) \in Index
                             /\ id \in DOMAIN Indexed(id, n) /\ Indexed(id, n)[id] = n
<1> DEFINE old  == IF index = NoFile THEN {} ELSE DOMAIN index
           keys == {id} \union old
<1>1. old \in SUBSET Ids /\ \A key \in old : index[key] \in Offsets
  BY DEF Index
<1>2. Indexed(id, n) \in [keys -> Offsets]
  BY <1>1 DEF Indexed
<1>3. keys \in SUBSET Ids
  BY <1>1
<1>4. Indexed(id, n)[id] = n
  BY DEF Indexed
<1> QED BY <1>2, <1>3, <1>4 DEF Index

(* What is about to be reported saved: the index in memory leads to the    *)
(* new row, and the file is the one that was made.                         *)
IndexInv ==
  /\ phase \in {"persist", "syncPersisted"} =>
       index \in Index /\ stmt.id \in DOMAIN index /\ index[stmt.id] = row_count
  /\ phase = "syncPersisted" => idx.now = index
  /\ phase = "syncIndex" => idx.now = IndexOfTable /\ ~Duplicated

(* The engine's types and the saving of its index *)
SInv == ExecTypeOK /\ IndexInv /\ IndexIsSaved

(* ... hold at the start,                                                  *)
LEMMA InitSInv == ExecInit => SInv
BY CleanType DEF ExecInit, SInv, ExecTypeOK, IndexInv, IndexIsSaved, Phases, IndexFile

(* ... types by every step,                                                *)
LEMMA StepTypes == ASSUME EInv, ExecTypeOK, IndexInv, ExecNext
                   PROVE  ExecTypeOK'
<1> DEFINE Kinds == [kind : {"SELECT", "INSERT", "REBUILD"}, id : Ids]
<1> USE DEF ExecTypeOK
<1>ready. pc = "ready" => /\ row_count \in Offsets /\ IndexOfTable \in Index
                          /\ \A id \in Ids : Matching(id) \in SUBSET (1..MaxRows)
  BY ReadyTable, ScannedIndex, MaxRowsAssumption DEF EInv, Offsets, Matching
<1>cell. /\ util_sync_parent_directory(idx) \in Cell(IndexFile)
         /\ \A v \in IndexFile : Write(idx, v, {}) \in Cell(IndexFile)
         /\ \A v \in IndexFile : Clean(v) \in Cell(IndexFile)
         /\ idx.now \in IndexFile /\ idx.disk \in SUBSET IndexFile
  BY SyncType, WriteType, CleanType DEF util_sync_parent_directory, Cell
<1>call. CallStatus \in ExecStatus /\ RebuildStatus \in IndexStatus
  BY DEF CallStatus, RebuildStatus, ExecStatus, IndexStatus
<1>begin. ASSUME NEW kind \in {"SELECT", "INSERT", "REBUILD"}, NEW id \in Ids, Begin(kind, id)
          PROVE  stmt' \in Kinds /\ index' \in Index \union {NoFile} /\ answer' \in SUBSET (1..MaxRows)
  BY <1>begin DEF Begin
<1>1. CASE StartInsert \/ StartSelect \/ StartRebuild
  BY <1>1, <1>call, <1>begin DEF StartInsert, StartSelect, StartRebuild, Phases
<1>2. CASE RecoverAndOpen \/ CarryOutInsert
  BY <1>2, <1>cell, <1>call DEF RecoverAndOpen, CarryOutInsert, Proceed, IndexAlongside, Phases
<1>3. CASE Close
  BY <1>3 DEF Close, Phases
<1>4. CASE LoadIndex
  BY <1>4, <1>cell DEF LoadIndex, Loadable, Go, Phases, IndexFile
<1>5. CASE RebuildIndex
  <2>1. pc = "ready"
    BY <1>5 DEF RebuildIndex, Rebuilt, RebuildFails, Go, EInv, PhaseInv
  <2>2. CASE Rebuilt
    BY <1>5, <2>1, <2>2, <1>ready, <1>cell DEF RebuildIndex, Rebuilt, Go, Phases, IndexFile
  <2>3. CASE RebuildFails
    BY <1>5, <2>3 DEF RebuildIndex, RebuildFails, EndingRebuild, Go, End, Phases, ExecStatus,
                      IndexStatus
  <2> QED BY <1>5, <2>2, <2>3 DEF RebuildIndex
<1>6. CASE SyncRebuilt
  <2>1. idx.now \in Index \union {NoFile}
    <3>1. phase = "syncIndex"
      BY <1>6 DEF SyncRebuilt, Go, End
    <3>2. pc = "ready" /\ idx.now = IndexOfTable
      BY <3>1 DEF EInv, PhaseInv, IndexInv
    <3> QED BY <3>2, <1>ready
  <2> QED BY <1>6, <2>1, <1>cell DEF SyncRebuilt, Go, End, Phases, IndexStatus
<1>7. CASE Select
  <2>1. pc = "ready" /\ stmt.id \in Ids
    BY <1>7 DEF Select, End, EInv, PhaseInv
  <2>2. FoundByIndex(stmt.id) => {index[stmt.id]} \in SUBSET (1..MaxRows)
    BY <2>1, <1>ready DEF FoundByIndex
  <2>3. answer' \in SUBSET (1..MaxRows)
    BY <1>7, <2>1, <2>2, <1>ready DEF Select
  <2> QED BY <1>7, <2>3 DEF Select, End, Phases, ExecStatus
<1>8. CASE RejectDuplicate \/ ScanFails
  BY <1>8 DEF RejectDuplicate, ScanFails, End, Phases, ExecStatus
<1>9. CASE InsertRow
  BY <1>9, <1>call DEF InsertRow, Phases
<1>10. CASE UpdateIndex
  <2>1. row_count \in Offsets /\ stmt.id \in Ids
    BY <1>10, <1>ready DEF UpdateIndex, Go, End, EInv, PhaseInv
  <2>2. Indexed(stmt.id, row_count) \in Index
    BY <2>1, IndexedEntry
  <2> QED BY <1>10, <2>2 DEF UpdateIndex, Go, End, Phases, ExecStatus
<1>11. CASE PersistIndex
  BY <1>11, <1>cell DEF PersistIndex, IndexInv, Go, End, Phases, ExecStatus, IndexFile
<1>12. CASE SyncPersisted
  BY <1>12, <1>cell DEF SyncPersisted, End, Phases, ExecStatus
<1>13. CASE EngineCrash \/ MachineCrash
  BY <1>13, <1>cell DEF EngineCrash, MachineCrash, Abandon, Phases
<1>14. CASE MeddleWithIndex
  BY <1>14, <1>cell DEF MeddleWithIndex
<1> QED BY <1>1, <1>2, <1>3, <1>4, <1>5, <1>6, <1>7, <1>8, <1>9, <1>10, <1>11, <1>12, <1>13, <1>14
        DEF ExecNext

(* ... the index on its way to the disk, which no other step touches,      *)
LEMMA StepIndex == ASSUME EInv, ExecTypeOK, IndexInv, ExecNext
                   PROVE  IndexInv'
<1>1. CASE phase' \notin {"persist", "syncPersisted", "syncIndex"}
  BY <1>1 DEF IndexInv
<1>2. CASE UpdateIndex
  <2>1. row_count \in Offsets /\ stmt.id \in Ids
    BY <1>2, ReadyTable DEF UpdateIndex, Go, End, EInv, PhaseInv, Offsets, ExecTypeOK
  <2>2. /\ Indexed(stmt.id, row_count) \in Index
        /\ stmt.id \in DOMAIN Indexed(stmt.id, row_count)
        /\ Indexed(stmt.id, row_count)[stmt.id] = row_count
    BY <2>1, IndexedEntry DEF ExecTypeOK
  <2> QED BY <1>2, <2>2 DEF UpdateIndex, Go, End, IndexInv, vars, request
<1>3. CASE PersistIndex
  BY <1>3, WriteFacts DEF PersistIndex, Go, End, IndexInv, vars, request
<1>4. CASE RebuildIndex
  <2>1. CASE Rebuilt
    <3>1. idx'.now = IndexOfTable /\ ~Duplicated /\ phase' = "syncIndex" /\ UNCHANGED vars
      BY <1>4, <2>1, WriteFacts DEF RebuildIndex, Rebuilt, Go
    <3>2. IndexOfTable' = IndexOfTable /\ Duplicated' = Duplicated
      BY <3>1 DEF IndexOfTable, Duplicated, vars
    <3> QED BY <3>1, <3>2 DEF IndexInv
  <2>2. CASE RebuildFails
    BY <1>1, <2>2 DEF RebuildFails, Go, End
  <2> QED BY <1>4, <2>1, <2>2 DEF RebuildIndex
<1>5. CASE StartInsert \/ StartSelect \/ StartRebuild \/ Close \/ LoadIndex
  BY <1>1, <1>5 DEF StartInsert, StartSelect, StartRebuild, Close, LoadIndex, Go
<1>6. CASE RecoverAndOpen \/ CarryOutInsert \/ InsertRow
  BY <1>1, <1>6 DEF RecoverAndOpen, CarryOutInsert, InsertRow, Proceed
<1>7. CASE SyncRebuilt \/ Select \/ RejectDuplicate \/ ScanFails \/ SyncPersisted
  BY <1>1, <1>7 DEF SyncRebuilt, Select, RejectDuplicate, ScanFails, SyncPersisted, Go, End
<1>8. CASE EngineCrash \/ MachineCrash \/ MeddleWithIndex
  BY <1>1, <1>8 DEF EngineCrash, MachineCrash, MeddleWithIndex, Abandon
<1> QED BY <1>2, <1>3, <1>4, <1>5, <1>6, <1>7, <1>8 DEF ExecNext

(* ... and its being saved when that is reported.                          *)
LEMMA StepSaved == ASSUME DirSyncSupported, EInv, ExecTypeOK, IndexInv, ExecNext
                   PROVE  IndexIsSaved'
<1> SUFFICES ASSUME phase' = "close", outcome' \in {"EXEC_OK", "INDEX_OK"}
             PROVE  IndexIsSaved'
  BY DEF IndexIsSaved
<1>1. CASE SyncPersisted
  <2>1. /\ idx' = Clean(index) /\ outcome' = "EXEC_OK" /\ UNCHANGED <<stmt, row_count>>
        /\ index \in Index /\ stmt.id \in DOMAIN index /\ index[stmt.id] = row_count
    BY <1>1, SyncFacts DEF SyncPersisted, End, IndexInv, util_sync_parent_directory, SyncDirectory,
                           request
  <2> QED BY <2>1, CleanFacts DEF IndexIsSaved
<1>2. CASE SyncRebuilt
  <2>1. /\ idx' = Clean(IndexOfTable) /\ ~Duplicated /\ outcome' = "INDEX_OK"
        /\ UNCHANGED table
    BY <1>2, SyncFacts DEF SyncRebuilt, Go, End, IndexInv, util_sync_parent_directory, SyncDirectory
  <2>2. IndexOfTable' = IndexOfTable /\ Duplicated' = Duplicated
    BY <2>1 DEF IndexOfTable, Duplicated, table
  <2> QED BY <2>1, <2>2 DEF IndexIsSaved
<1>3. CASE Select
  BY <1>3 DEF Select, End, IndexIsSaved
<1>4. ~(StartInsert \/ StartSelect \/ StartRebuild \/ RecoverAndOpen \/ Close)
  BY DEF EInv, PhaseInv, StartInsert, StartSelect, StartRebuild, RecoverAndOpen, Close, Proceed
<1>5. ~(LoadIndex \/ RebuildIndex)
  BY DEF LoadIndex, RebuildIndex, Rebuilt, RebuildFails, EndingRebuild, Go, End
<1>6. ~(RejectDuplicate \/ ScanFails \/ InsertRow \/ CarryOutInsert)
  BY DEF EInv, PhaseInv, RejectDuplicate, ScanFails, InsertRow, CarryOutInsert, Proceed, End
<1>7. ~(UpdateIndex \/ PersistIndex)
  BY DEF UpdateIndex, PersistIndex, Go, End
<1>8. ~(EngineCrash \/ MachineCrash \/ MeddleWithIndex)
  <2>1. ~MeddleWithIndex
    BY DEF MeddleWithIndex
  <2> QED BY <2>1 DEF EngineCrash, MachineCrash, Abandon
<1> QED BY <1>1, <1>2, <1>3, <1>4, <1>5, <1>6, <1>7, <1>8 DEF ExecNext

(* Nothing changes them while nothing changes.                             *)
LEMMA StutterSInv == ASSUME SInv, UNCHANGED allVars
                     PROVE  SInv'
BY DEF SInv, ExecTypeOK, IndexInv, IndexIsSaved, IndexOfTable, Duplicated, allVars, vars

(***************************************************************************)
(* Types, and an index that is on disk when it is reported to be, as the   *)
(* engine's other invariant lets one show.                                 *)
(***************************************************************************)
THEOREM SavingInvariance == ASSUME DirSyncSupported
                            PROVE  ExecSpec => []SInv
<1>1. EInv /\ SInv /\ [ExecNext]_allVars => SInv'
  BY StepTypes, StepIndex, StepSaved, StutterSInv DEF SInv
<1> QED BY EngineInvariance, InitSInv, <1>1, PTL DEF ExecSpec

(***************************************************************************)
(* The statements keep their types whatever the index file holds.          *)
(***************************************************************************)
THEOREM EngineTyping == ASSUME DirSyncSupported
                        PROVE  ExecSpec => []ExecTypeOK
<1>1. SInv => ExecTypeOK
  BY DEF SInv
<1> QED BY SavingInvariance, <1>1, PTL

(***************************************************************************)
(* An index that an INSERT or a rebuild_index reports saved is on disk.    *)
(***************************************************************************)
THEOREM IndexReachesDisk == ASSUME DirSyncSupported
                            PROVE  ExecSpec => []IndexIsSaved
<1>1. SInv => IndexIsSaved
  BY DEF SInv
<1> QED BY SavingInvariance, <1>1, PTL
=============================================================================
