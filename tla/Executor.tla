------------------------------- MODULE Executor -------------------------------
(***************************************************************************)
(* src/executor.c: the INSERT and SELECT statements, and the rebuild_index *)
(* command of src/cli.c, each a sequence of storage calls (InsertJournal)  *)
(* and steps on the index file (src/index.c) that a failure or a crash may *)
(* end anywhere.  The index is a file of its own, outside the journal's    *)
(* protection; all that ties it to the table is that its entry count must  *)
(* equal the table's row count.                                            *)
(*                                                                         *)
(* A row stands for its id, the only column statements decide by; a row    *)
(* number stands for the offset of that row, and 0 for any offset that is  *)
(* no row's.  The content of an index file is a function from ids to       *)
(* offsets, NoFile, or Malformed: any file index_load rejects whatever the *)
(* table holds.  How the loaded entries are hashed is not modelled here.   *)
(***************************************************************************)
EXTENDS InsertJournal

CONSTANT Meddling  \* whether anybody else writes to the index file

ASSUME MeddlingAssumption == Meddling \in BOOLEAN

VARIABLES
  phase,    \* where the statement is
  stmt,     \* the statement: what it does and the id it names
  idx,      \* the index file's directory entry
  index,    \* the index in memory, or NoFile for NULL
  answer,   \* the row numbers a SELECT printed
  outcome   \* the ExecStatus of the latest statement, or the command's IndexStatus

allVars == <<vars, phase, stmt, idx, index, answer, outcome>>

Ids == Row
Offsets == 0..MaxRows
Index == UNION {[keys -> Offsets] : keys \in SUBSET Ids}
IndexFile == Index \union {NoFile, Malformed}

Phases == {"idle", "open", "load", "rebuild", "syncIndex", "check", "insert",
           "update", "persist", "syncPersisted", "close"}
ExecStatus == {"EXEC_OK", "EXEC_READ_ONLY", "EXEC_IO_ERROR", "EXEC_DUPLICATE_ID",
               "EXEC_TABLE_CORRUPT", "EXEC_INDEX_ERROR", "EXEC_INDEX_PERSIST_FAILED"}
IndexStatus == {"INDEX_OK", "INDEX_IO_ERROR", "INDEX_CORRUPT", "INDEX_ALLOC_ERROR",
                "INDEX_DUPLICATE_PRIMARY_KEY", "INDEX_PERSIST_ERROR"}

ExecTypeOK ==
  /\ phase \in Phases
  /\ stmt \in [kind : {"SELECT", "INSERT", "REBUILD"}, id : Ids]
  /\ idx \in Cell(IndexFile)
  /\ index \in Index \union {NoFile}
  /\ answer \in SUBSET (1..MaxRows)
  /\ outcome \in ExecStatus \union IndexStatus \union {"none"}

ExecInit ==
  /\ Init
  /\ phase = "idle"
  /\ stmt \in [kind : {"SELECT"}, id : Ids]
  /\ idx = Clean(NoFile)
  /\ index = NoFile
  /\ answer = {}
  /\ outcome = "none"

-----------------------------------------------------------------------------
(* What a scan of the open table finds, and the index made by one. *)

Matching(id) == {i \in 1..row_count : slot[i].now = id}

Duplicated == \E i, j \in 1..hdr.now : i # j /\ slot[i].now = slot[j].now

IndexOfTable == [id \in {slot[i].now : i \in 1..hdr.now} |->
                   CHOOSE i \in 1..hdr.now : slot[i].now = id]

(* read_index_header and the entries: what index_load accepts. *)
Loadable(content) ==
  /\ content \notin {NoFile, Malformed}
  /\ Cardinality(DOMAIN content) = hdr.now

(* Mutant: the entry's offset is checked, the row's id is not. *)
FoundByIndexUnread(id) ==
  /\ index # NoFile
  /\ id \in DOMAIN index
  /\ index[id] \in 1..row_count

(* index_lookup and index_validate_lookup: the offset is one of a row of   *)
(* the table, and that row has the id.                                     *)
FoundByIndex(id) ==
  /\ index # NoFile
  /\ id \in DOMAIN index
  /\ index[id] \in Matching(id)

(* Mutant: an index that lacks the id is believed. *)
IsDuplicateByIndex(id) ==
  IF index = NoFile THEN Matching(id) # {} ELSE FoundByIndex(id)

(* Whether the id is taken: a validated entry says so, or else the scan. *)
IsDuplicate(id) == FoundByIndex(id) \/ Matching(id) # {}

(* index_insert, replacing an entry the loaded index already had *)
Indexed(id, offset) ==
  [key \in {id} \union (IF index = NoFile THEN {} ELSE DOMAIN index) |->
     IF key = id THEN offset ELSE index[key]]

-----------------------------------------------------------------------------
(* Beginning and ending a statement *)

Unreadable == {"TABLE_CORRUPT", "TABLE_INCOMPATIBLE"}

(* What a statement, or an index rebuild, reports for a storage call that  *)
(* has failed.                                                             *)
CallStatus ==
  CASE ret' = "TABLE_READ_ONLY" -> "EXEC_READ_ONLY"
    [] ret' \in Unreadable /\ call' = "open" -> "EXEC_TABLE_CORRUPT"
    [] OTHER -> "EXEC_IO_ERROR"
RebuildStatus ==
  CASE ret' = "TABLE_ALLOC_ERROR" -> "INDEX_ALLOC_ERROR"
    [] ret' \in Unreadable -> "INDEX_CORRUPT"
    [] OTHER -> "INDEX_IO_ERROR"

(* Mutant: an insert whose last sync failed counts as one. *)
ProceedLeniently(to) ==
  /\ phase' = CASE pc' = "idle" -> "idle" [] pc' = "ready" -> to [] OTHER -> phase
  /\ outcome' = CASE pc' # "idle" -> outcome
                  [] pc' = "idle" /\ pc = "syncUnlink" -> "EXEC_OK"
                  [] OTHER -> "EXEC_IO_ERROR"

(* The statement goes on to `to', or has ended because its call failed. *)
Proceed(to) ==
  /\ phase' = CASE pc' = "idle" -> "idle" [] pc' = "ready" -> to [] OTHER -> phase
  /\ outcome' = IF pc' = "idle" THEN CallStatus ELSE outcome

Begin(kind, id) ==
  /\ phase = "idle"
  /\ stmt' = [kind |-> kind, id |-> id]
  /\ index' = NoFile
  /\ answer' = {}

StartInsert ==
  /\ \E id \in Ids : Begin("INSERT", id)
  /\ OpenTable
  /\ phase' = IF pc' = "idle" THEN "idle" ELSE "open"
  /\ outcome' = IF pc' = "idle" THEN CallStatus ELSE "none"
  /\ UNCHANGED idx

StartSelect ==
  /\ \E id \in Ids : Begin("SELECT", id)
  /\ OpenReadonly
  /\ phase' = IF pc' = "idle" THEN "idle" ELSE "load"
  /\ outcome' = IF pc' = "idle" THEN CallStatus ELSE "none"
  /\ UNCHANGED idx

(* rebuild_index names no id. *)
StartRebuild ==
  /\ Begin("REBUILD", stmt.id)
  /\ OpenReadonly
  /\ phase' = IF pc' = "idle" THEN "idle" ELSE "rebuild"
  /\ outcome' = IF pc' = "idle" THEN RebuildStatus ELSE "none"
  /\ UNCHANGED idx

(* A directory sync of the storage layer covers the index's entry too. *)
IndexAlongside ==
  idx' = IF pc \in {"syncDir", "syncUnlink", "syncDropped"} /\ pc' # "idle"
         THEN util_sync_parent_directory(idx) ELSE idx

RecoverAndOpen ==
  /\ phase = "open"
  /\ Recover
  /\ Proceed("load")
  /\ IndexAlongside
  /\ UNCHANGED <<stmt, index, answer>>

Close ==
  /\ phase = "close"
  /\ phase' = "idle"
  /\ CloseTable
  /\ UNCHANGED <<stmt, idx, index, answer, outcome>>

(* Within a statement: on to its next part, or to its end. *)
Go(from, to) ==
  /\ phase = from
  /\ phase' = to
  /\ UNCHANGED <<stmt, answer, outcome>>

End(from, statuses) ==
  /\ phase = from
  /\ phase' = "close"
  /\ outcome' \in statuses
  /\ UNCHANGED <<stmt, index>>

-----------------------------------------------------------------------------
(* index_load_or_rebuild.  A file index_load rejects, or cannot read to    *)
(* its end, is rebuilt; any other failure leaves index NULL and the        *)
(* statement goes on without one.                                          *)

LoadIndex ==
  /\ \/ Go("load", "check") /\ Loadable(idx.now) /\ index' = idx.now
     \/ Go("load", "check") /\ UNCHANGED index
     \/ Go("load", "rebuild") /\ UNCHANGED index
  /\ UNCHANGED <<vars, idx>>

(* index_rebuild scans the table, then index_persist: a temporary file,    *)
(* renamed over the index file.  What fails ends the command; a statement  *)
(* it ends only if two rows have one id.                                   *)
Rebuilt ==
  /\ Go("rebuild", "syncIndex")
  /\ ~Duplicated
  /\ idx' = Write(idx, IndexOfTable, {})

EndingRebuild ==
  IF stmt.kind = "REBUILD"
  THEN {"INDEX_IO_ERROR", "INDEX_CORRUPT", "INDEX_ALLOC_ERROR", "INDEX_PERSIST_ERROR"}
         \union IF Duplicated THEN {"INDEX_DUPLICATE_PRIMARY_KEY"} ELSE {}
  ELSE IF Duplicated THEN {"EXEC_TABLE_CORRUPT"} ELSE {}

RebuildFails ==
  /\ phase = "rebuild"
  /\ \/ stmt.kind # "REBUILD" /\ Go("rebuild", "check")
     \/ End("rebuild", EndingRebuild) /\ UNCHANGED answer
  /\ UNCHANGED idx

RebuildIndex ==
  /\ Rebuilt \/ RebuildFails
  /\ UNCHANGED <<vars, index>>

(* The rest of index_persist.  A statement loads what it has written.      *)
SyncRebuilt ==
  \/ /\ \/ stmt.kind # "REBUILD" /\ Go("syncIndex", "check") /\ index' \in {NoFile, idx.now}
        \/ stmt.kind = "REBUILD" /\ End("syncIndex", {"INDEX_OK"}) /\ UNCHANGED answer
     /\ idx' = util_sync_parent_directory(idx)
     /\ SyncDirectory
  \/ /\ \/ stmt.kind # "REBUILD" /\ Go("syncIndex", "check") /\ UNCHANGED index
        \/ stmt.kind = "REBUILD" /\ End("syncIndex", {"INDEX_PERSIST_ERROR"}) /\ UNCHANGED answer
     /\ UNCHANGED <<vars, idx>>

-----------------------------------------------------------------------------
(* SELECT ... WHERE id = ...: by a validated index entry; by scan if there *)
(* is none, or the row could not be read by it.                            *)

Select ==
  /\ stmt.kind = "SELECT"
  /\ \/ /\ End("check", {"EXEC_OK"})
        /\ \/ FoundByIndex(stmt.id) /\ answer' = {index[stmt.id]}
           \/ answer' = Matching(stmt.id)
     \/ /\ End("check", {"EXEC_IO_ERROR", "EXEC_TABLE_CORRUPT"})
        /\ UNCHANGED answer
  /\ UNCHANGED <<vars, idx>>

-----------------------------------------------------------------------------
(* INSERT: the uniqueness check, the row, then the index *)

RejectDuplicate ==
  /\ stmt.kind = "INSERT"
  /\ End("check", {"EXEC_DUPLICATE_ID"})
  /\ IsDuplicate(stmt.id)
  /\ UNCHANGED <<vars, idx, answer>>

ScanFails ==
  /\ stmt.kind = "INSERT"
  /\ End("check", {"EXEC_IO_ERROR"})
  /\ UNCHANGED <<vars, idx, answer>>

InsertRow ==
  /\ phase = "check"
  /\ stmt.kind = "INSERT"
  /\ ~IsDuplicate(stmt.id)
  /\ Insert
  /\ row' = stmt.id
  /\ phase' = IF pc' = "idle" THEN "idle" ELSE "insert"
  /\ outcome' = IF pc' = "idle" THEN CallStatus ELSE outcome
  /\ UNCHANGED <<stmt, idx, index, answer>>

CarryOutInsert ==
  /\ phase = "insert"
  /\ Publish \/ Apply \/ Retire
  /\ Proceed("update")
  /\ IndexAlongside
  /\ UNCHANGED <<stmt, index, answer>>

(* The row is committed whatever becomes of the index.  A NULL index is    *)
(* replaced by an empty one first.                                         *)
UpdateIndex ==
  /\ \/ Go("update", "persist") /\ index' = Indexed(stmt.id, row_count)
     \/ /\ End("update", {"EXEC_INDEX_ERROR", "EXEC_INDEX_PERSIST_FAILED"})
        /\ outcome' = "EXEC_INDEX_PERSIST_FAILED" => index = NoFile
        /\ UNCHANGED answer
  /\ UNCHANGED <<vars, idx>>

PersistIndex ==
  /\ \/ Go("persist", "syncPersisted") /\ idx' = Write(idx, index, {}) /\ UNCHANGED index
     \/ End("persist", {"EXEC_INDEX_PERSIST_FAILED"}) /\ UNCHANGED <<idx, answer>>
  /\ UNCHANGED vars

(* Mutant: the entry of the index file is not synced. *)
SyncPersistedNot ==
  /\ End("syncPersisted", {"EXEC_OK", "EXEC_INDEX_PERSIST_FAILED"})
  /\ UNCHANGED <<vars, idx, answer>>

SyncPersisted ==
  \/ /\ End("syncPersisted", {"EXEC_OK"})
     /\ idx' = util_sync_parent_directory(idx)
     /\ SyncDirectory
     /\ UNCHANGED answer
  \/ /\ End("syncPersisted", {"EXEC_INDEX_PERSIST_FAILED"})
     /\ UNCHANGED <<vars, idx, answer>>

-----------------------------------------------------------------------------
(* The environment *)

Abandon ==
  /\ phase' = "idle"
  /\ index' = NoFile
  /\ answer' = {}
  /\ outcome' = "none"
  /\ UNCHANGED stmt

EngineCrash ==
  /\ ProcessCrash
  /\ Abandon
  /\ UNCHANGED idx

MachineCrash ==
  /\ PowerLoss
  /\ Abandon
  /\ \E content \in idx.disk : idx' = Clean(content)

(* Somebody deletes the index file, or leaves another in its place. *)
MeddleWithIndex ==
  /\ Meddling
  /\ phase = "idle"
  /\ \E content \in IndexFile : idx' = Clean(content)
  /\ UNCHANGED <<vars, phase, stmt, index, answer, outcome>>

ExecNext ==
  \/ StartInsert \/ StartSelect \/ StartRebuild \/ RecoverAndOpen \/ Close
  \/ LoadIndex \/ RebuildIndex \/ SyncRebuilt
  \/ Select
  \/ RejectDuplicate \/ ScanFails \/ InsertRow \/ CarryOutInsert
  \/ UpdateIndex \/ PersistIndex \/ SyncPersisted
  \/ EngineCrash \/ MachineCrash \/ MeddleWithIndex

ExecSpec == ExecInit /\ [][ExecNext]_allVars

-----------------------------------------------------------------------------
(***************************************************************************)
(* `id' is a primary key, in every table a crash may leave: no two rows    *)
(* any outcome exposes have the same id, whatever the index said when they *)
(* were inserted (README, "Uniqueness").                                   *)
(***************************************************************************)
UniqueIds ==
  \A n \in Outcomes : \A i, j \in 1..n : slot[i].now = slot[j].now => i = j

(***************************************************************************)
(* The index is not authoritative: what a SELECT prints is what a scan of  *)
(* the table would have printed, whatever the index file holds.            *)
(***************************************************************************)
SelectAnswersScan ==
  phase = "close" /\ stmt.kind = "SELECT" /\ outcome = "EXEC_OK" => answer = Matching(stmt.id)

(***************************************************************************)
(* A failure of the index is a warning: an INSERT that ends EXEC_OK or     *)
(* with an index error has its row on disk, safe from power loss.          *)
(***************************************************************************)
WarnedIsDurable ==
  stmt.kind = "INSERT" /\ outcome \in {"EXEC_OK", "EXEC_INDEX_ERROR", "EXEC_INDEX_PERSIST_FAILED"}
    => Outcomes = {row_count} /\ slot[row_count] = Clean(stmt.id)

(***************************************************************************)
(* What is reported of the index is on disk, too: after an INSERT that     *)
(* ends without a warning every index a power loss may leave leads to the  *)
(* row, and after a rebuild_index that succeeds it is that of the table.   *)
(***************************************************************************)
IndexIsSaved ==
  phase = "close" =>
    /\ stmt.kind = "INSERT" /\ outcome = "EXEC_OK" =>
         \A content \in idx.disk : content \in Index /\ stmt.id \in DOMAIN content
                                   /\ content[stmt.id] = row_count
    /\ outcome = "INDEX_OK" => idx = Clean(IndexOfTable) /\ ~Duplicated

(***************************************************************************)
(* executor.c, where index_insert finds the key of the row just inserted:  *)
(* "Should not happen after uniqueness check".                             *)
(***************************************************************************)
IndexLacksNewKey ==
  phase = "update" /\ index # NoFile => stmt.id \notin DOMAIN index
=============================================================================
