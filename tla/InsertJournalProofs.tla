------------------------- MODULE InsertJournalProofs -------------------------
(***************************************************************************)
(* Proofs about InsertJournal, for any rows and any bound on their number. *)
(***************************************************************************)
EXTENDS InsertJournal, SequenceTheorems, TLAPS

(* The first n rows are whole, and on disk. *)
RowsOnDisk(n) == \A i \in 1..n : \E r \in Row : slot[i] = Clean(r)

(* No journal is to be seen: the header is the truth, and a power loss can *)
(* bring back at most the journal of the latest insert, or one that        *)
(* describes the present state.                                            *)
Quiet ==
  jnl.now = NoFile =>
    /\ hdr.now \in Counts
    /\ hdr = Clean(hdr.now)
    /\ RowsOnDisk(hdr.now)
    /\ jnl.disk \subseteq {NoFile, hdr.now - 1, hdr.now}

(* A journal is there: its rows are on disk, and unless its own entry is   *)
(* on disk too the header has not been touched.                            *)
Journalled ==
  jnl.now # NoFile =>
    /\ jnl.now \in 0..(MaxRows - 1)
    /\ RowsOnDisk(jnl.now)
    /\ \/ jnl.disk = {jnl.now}
       \/ hdr = Clean(jnl.now) /\ jnl.disk \subseteq {NoFile, jnl.now - 1, jnl.now}

(* Where the insert stands. *)
InsertInv ==
  /\ pc \in InsertPc => /\ mode = "writer" /\ row_count < MaxRows
                        /\ call = "insert" /\ ret = "pending"
  /\ pc = "ready" => mode # "closed"
  /\ pc \in {"ready", "makeTemp", "writeTemp", "rename"}
       => jnl.now = NoFile /\ hdr = Clean(row_count)
  /\ pc = "syncDir" => jnl.now = row_count /\ hdr = Clean(row_count)
  /\ pc \in {"writeRow", "syncRow", "writeHeader", "syncHeader", "unlink"}
       => jnl = Clean(row_count)
  /\ pc \in {"writeHeader", "syncHeader", "unlink", "syncUnlink"}
       => slot[next] = Clean(row)
  /\ pc = "syncHeader" => hdr.now = next
  /\ pc \in {"unlink", "syncUnlink"} => hdr = Clean(next)
  /\ pc = "syncUnlink" => jnl.now = NoFile /\ row_count \in jnl.disk

(* The temporary file, whole before it gets the journal's name. *)
TempInv ==
  temp = CASE pc = "writeTemp" -> Clean(Malformed)
           [] pc = "rename" -> Clean(row_count)
           [] OTHER -> Clean(NoFile)

(* Where recovery stands. *)
RecoveryInv ==
  /\ pc \in OpenPc => call = "open" /\ ret = "pending"
  /\ pc \in {"restoreHeader", "syncRestored", "truncate", "syncTruncated", "dropJournal"}
       => jnl.now = previous
  /\ pc = "syncRestored" => hdr.now = previous
  /\ pc \in {"truncate", "syncTruncated", "dropJournal"} => hdr = Clean(previous)
  /\ pc \in {"syncDropped", "validate"} => jnl.now = NoFile

(* What the latest insert reported. *)
ReportInv ==
  /\ Acked => /\ pc \in {"idle", "ready"}
              /\ row_count # 0
              /\ jnl = Clean(NoFile)
              /\ hdr = Clean(row_count)
              /\ slot[row_count] = Clean(row)
  /\ call = "insert" /\ ret \in {"TABLE_IO_ERROR", "TABLE_READ_ONLY"}
       => /\ pc = "idle"
          /\ jnl.now = NoFile => hdr.now = row_count
          /\ jnl.now # NoFile => jnl.now = row_count

(* The inductive invariant. *)
IInv ==
  TypeOK /\ Quiet /\ Journalled /\ InsertInv /\ TempInv /\ RecoveryInv /\ ReportInv

-----------------------------------------------------------------------------
(* Cells keep their type. *)

LEMMA CleanType == ASSUME NEW V, NEW v \in V
                   PROVE  Clean(v) \in Cell(V)
BY DEF Clean, Cell

(* ... when synced, *)
LEMMA SyncType == ASSUME NEW V, NEW c \in Cell(V)
                  PROVE  Sync(c) \in Cell(V)
BY DEF Sync, Clean, Cell

(* ... when written, *)
LEMMA WriteType == ASSUME NEW V, NEW c \in Cell(V), NEW v \in V, NEW tears \in SUBSET V
                   PROVE  Write(c, v, tears) \in Cell(V)
BY DEF Write, Cell

(* ... and when a write fails. *)
LEMMA FailedWriteType == ASSUME NEW V, NEW c \in Cell(V), NEW v \in V, NEW tears \in SUBSET V,
                                NEW d \in FailedWrite(c, v, tears)
                         PROVE  d \in Cell(V)
BY WriteType DEF FailedWrite

(* Types at the start. *)
LEMMA InitTypeOK == Init => TypeOK
BY MaxRowsAssumption, CleanType
   DEF Init, TypeOK, Counts, SlotValue, JournalValue, Status, InsertPc, OpenPc

(* A sync of the table file keeps the types of header and slots. *)
LEMMA SyncTableType == ASSUME TypeOK, SyncTable
                       PROVE  /\ hdr' \in Cell(Counts \union {Torn})
                              /\ slot' \in [1..MaxRows -> Cell(SlotValue)]
BY SyncType DEF TypeOK, SyncTable

(* Every step keeps the types; the invariant bounds the counts it writes. *)
LEMMA NextTypeOK == ASSUME IInv, Next
                    PROVE  TypeOK'
<1> USE MaxRowsAssumption DEF TypeOK
<1> DEFINE Files == /\ hdr' \in Cell(Counts \union {Torn})
                    /\ slot' \in [1..MaxRows -> Cell(SlotValue)]
                    /\ jnl' \in Cell(JournalValue)
                    /\ temp' \in Cell(JournalValue)
<1> DEFINE Control == /\ pc' \in {"idle", "ready"} \union InsertPc \union OpenPc
                      /\ mode' \in {"closed", "reader", "writer"}
                      /\ row_count' \in Counts
                      /\ previous' \in 0..(MaxRows - 1)
                      /\ row' \in Row
                      /\ call' \in {"none", "open", "insert"}
                      /\ ret' \in Status
<1>type. TypeOK
  BY DEF IInv
<1>suffices. SUFFICES Files /\ Control
  OBVIOUS
<1>values. /\ NoFile \in JournalValue /\ Malformed \in JournalValue
           /\ {Torn} \subseteq Counts \union {Torn}
           /\ {Torn} \subseteq SlotValue /\ Eof \in SlotValue /\ Torn \in SlotValue
           /\ row \in SlotValue /\ 0 \in Counts
           /\ previous \in Counts \union {Torn}
  BY <1>type DEF JournalValue, SlotValue, Counts
<1>count. pc \in InsertPc => /\ row_count \in JournalValue
                             /\ next \in Counts /\ next \in Counts \union {Torn}
                             /\ next \in 1..MaxRows
  BY <1>type DEF IInv, InsertInv, JournalValue, Counts, next
<1>step. ASSUME NEW from, NEW to \in InsertPc \union OpenPc \union {"ready"}, Step(from, to)
         PROVE  Control
  BY <1>step, <1>type DEF Step, request
<1>fail. ASSUME NEW from, NEW statuses \in SUBSET Status, Fail(from, statuses)
         PROVE  Control
  BY <1>fail, <1>type DEF Fail, request
<1>statuses. /\ {"TABLE_READ_ONLY", "TABLE_DURABILITY_ERROR"} \subseteq Status
             /\ {"TABLE_IO_ERROR", "TABLE_DURABILITY_ERROR"} \subseteq Status
             /\ {"TABLE_DURABILITY_ERROR"} \subseteq Status
             /\ {"TABLE_IO_ERROR"} \subseteq Status
             /\ {"TABLE_DURABILITY_ERROR", "TABLE_CORRUPT"} \subseteq Status
             /\ {"TABLE_IO_ERROR", "TABLE_CORRUPT", "TABLE_INCOMPATIBLE"} \subseteq Status
  BY DEF Status
<1>labels. /\ {"writeTemp", "rename", "syncDir", "writeRow", "syncRow", "writeHeader",
                "syncHeader", "unlink", "syncUnlink"} \subseteq InsertPc
           /\ {"restoreHeader", "syncRestored", "truncate", "syncTruncated",
                "dropJournal", "syncDropped", "validate"} \subseteq OpenPc
           /\ {"makeTemp", "writeTemp", "writeRow", "syncRow", "writeHeader", "syncHeader"}
                \subseteq InsertPc
  BY DEF InsertPc, OpenPc
<1>dir. util_sync_parent_directory(jnl) \in Cell(JournalValue)
  BY <1>type, SyncType DEF util_sync_parent_directory
<1>gone. Clean(NoFile) \in Cell(JournalValue) /\ Write(jnl, NoFile, {}) \in Cell(JournalValue)
  BY <1>type, <1>values, CleanType, WriteType
<1>1. CASE OpenTable
  BY <1>1, <1>type DEF OpenTable, files, table, Status, OpenPc
<1>2. CASE OpenReadonly
  BY <1>2, <1>type DEF OpenReadonly, Opened, HeaderValid, files, table, Status
<1>3. CASE CloseTable
  BY <1>3, <1>type DEF CloseTable, files, table, request
<1>4. CASE BeginInsert
  BY <1>4, <1>type DEF BeginInsert, Start, files, table, Status, InsertPc
<1>5. CASE RejectInsert
  BY <1>5, <1>type DEF RejectInsert, files, table, Status
<1>6. CASE MakeTemp
  <2>1. Files
    BY <1>6, <1>type, <1>values, CleanType DEF MakeTemp, files, table
  <2>2. Control
    BY <1>6, <1>step, <1>fail, <1>statuses, <1>labels DEF MakeTemp
  <2> QED BY <2>1, <2>2
<1>7. CASE WriteTemp
  <2>1. Files
    <3>1. Sync(Write(temp, row_count, {Malformed})) \in Cell(JournalValue)
      BY <1>7, <1>type, <1>values, <1>count, <1>labels, SyncType, WriteType
      DEF WriteTemp, Step, Fail
    <3> QED BY <3>1, <1>7, <1>type, <1>gone DEF WriteTemp, table
  <2>2. Control
    BY <1>7, <1>step, <1>fail, <1>statuses, <1>labels DEF WriteTemp
  <2> QED BY <2>1, <2>2
<1>8. CASE RenameTemp
  <2>1. Files
    BY <1>8, <1>type, <1>gone DEF RenameTemp, table, Cell
  <2>2. Control
    BY <1>8, <1>step, <1>fail, <1>statuses, <1>labels DEF RenameTemp
  <2> QED BY <2>1, <2>2
<1>9. CASE SyncJournalEntry
  <2>1. Files
    BY <1>9, <1>type, <1>dir DEF SyncJournalEntry, table
  <2>2. Control
    BY <1>9, <1>step, <1>fail, <1>statuses, <1>labels DEF SyncJournalEntry
  <2> QED BY <2>1, <2>2
<1>10. CASE WriteRow
  <2>1. Files
    <3>1. pc \in InsertPc
      BY <1>10, <1>labels DEF WriteRow, Step, Fail
    <3>2. slot[next] \in Cell(SlotValue)
      BY <3>1, <1>type, <1>count
    <3>3. Write(slot[next], row, {Torn}) \in Cell(SlotValue)
      BY <3>2, <1>values, WriteType
    <3>4. FailedWrite(slot[next], row, {Torn}) \subseteq Cell(SlotValue)
      BY <3>2, <1>values, FailedWriteType
    <3> QED BY <1>10, <3>3, <3>4, <1>type DEF WriteRow
  <2>2. Control
    BY <1>10, <1>step, <1>fail, <1>statuses, <1>labels DEF WriteRow
  <2> QED BY <2>1, <2>2
<1>11. CASE SyncRow
  <2>1. Files
    <3>1. pc \in InsertPc
      BY <1>11, <1>labels DEF SyncRow, Step, Fail
    <3>2. slot[next] \in Cell(SlotValue)
      BY <3>1, <1>type, <1>count
    <3>3. Clean(row) \in Cell(SlotValue)
      BY <1>values, CleanType
    <3>4. FailedWrite(slot[next], row, {Torn}) \subseteq Cell(SlotValue)
      BY <3>2, <1>values, FailedWriteType
    <3>5. /\ Sync(hdr) \in Cell(Counts \union {Torn})
          /\ \A i \in 1..MaxRows : Sync(slot[i]) \in Cell(SlotValue)
      BY <1>type, SyncType
    <3> QED BY <1>11, <3>3, <3>4, <3>5, <1>type DEF SyncRow
  <2>2. Control
    BY <1>11, <1>step, <1>fail, <1>statuses, <1>labels DEF SyncRow
  <2> QED BY <2>1, <2>2
<1>12. CASE WriteHeader
  <2>1. Files
    <3>1. pc \in InsertPc
      BY <1>12, <1>labels DEF WriteHeader, Step, Fail
    <3>2. Write(hdr, next, {Torn}) \in Cell(Counts \union {Torn})
      BY <3>1, <1>count, <1>values, <1>type, WriteType
    <3>3. FailedWrite(hdr, next, {Torn}) \subseteq Cell(Counts \union {Torn})
      BY <3>1, <1>count, <1>values, <1>type, FailedWriteType
    <3> QED BY <1>12, <3>2, <3>3, <1>type DEF WriteHeader
  <2>2. Control
    BY <1>12, <1>step, <1>fail, <1>statuses, <1>labels DEF WriteHeader
  <2> QED BY <2>1, <2>2
<1>13. CASE SyncHeader
  <2>1. Files
    BY <1>13, <1>type, SyncTableType DEF SyncHeader, table
  <2>2. Control
    BY <1>13, <1>step, <1>fail, <1>statuses, <1>labels DEF SyncHeader
  <2> QED BY <2>1, <2>2
<1>14. CASE UnlinkJournal
  <2>1. Files
    BY <1>14, <1>type, <1>gone DEF UnlinkJournal, table
  <2>2. Control
    BY <1>14, <1>step, <1>fail, <1>statuses, <1>labels DEF UnlinkJournal
  <2> QED BY <2>1, <2>2
<1>15. CASE FinishInsert
  <2>1. Files
    BY <1>15, <1>type, <1>dir DEF FinishInsert, table
  <2>2. CASE Fail("syncUnlink", {"TABLE_DURABILITY_ERROR"})
    BY <2>1, <2>2, <1>fail, <1>statuses
  <2>3. CASE ~Fail("syncUnlink", {"TABLE_DURABILITY_ERROR"})
    BY <2>1, <2>3, <1>15, <1>type, <1>count, <1>labels DEF FinishInsert, Status
  <2> QED BY <2>2, <2>3
<1>16. CASE ReadJournal
  <2>1. Files
    BY <1>16, <1>type DEF ReadJournal, files, table
  <2>2. CASE \/ Step("readJournal", "validate")
             \/ Fail("readJournal", {"TABLE_DURABILITY_ERROR", "TABLE_CORRUPT"})
    BY <2>1, <2>2, <1>step, <1>fail, <1>statuses, <1>labels
  <2>3. CASE jnl.now \notin {NoFile, Malformed} /\ previous' = jnl.now /\ pc' = "restoreHeader"
             /\ UNCHANGED <<mode, row_count, row, call, ret>>
    BY <2>1, <2>3, <1>type, <1>labels DEF Cell, JournalValue
  <2> QED BY <1>16, <2>2, <2>3 DEF ReadJournal
<1>17. CASE RestoreHeader
  <2>1. Files
    <3>1. Write(hdr, previous, {Torn}) \in Cell(Counts \union {Torn})
      BY <1>values, <1>type, WriteType
    <3>2. FailedWrite(hdr, previous, {Torn}) \subseteq Cell(Counts \union {Torn})
      BY <1>values, <1>type, FailedWriteType
    <3> QED BY <1>17, <3>1, <3>2, <1>type DEF RestoreHeader
  <2>2. Control
    BY <1>17, <1>step, <1>fail, <1>statuses, <1>labels DEF RestoreHeader
  <2> QED BY <2>1, <2>2
<1>18. CASE SyncRestored
  <2>1. Files
    BY <1>18, <1>type, SyncTableType DEF SyncRestored, table
  <2>2. Control
    BY <1>18, <1>step, <1>fail, <1>statuses, <1>labels DEF SyncRestored
  <2> QED BY <2>1, <2>2
<1>19. CASE Truncate
  <2>1. Files
    <3>1. \A i \in 1..MaxRows : \A v \in {Eof, Torn} : Write(slot[i], v, {}) \in Cell(SlotValue)
      BY <1>values, <1>type, WriteType
    <3>2. TruncatedTo(previous) \in [1..MaxRows -> Cell(SlotValue)]
      BY <3>1, <1>type DEF TruncatedTo
    <3> QED BY <1>19, <3>2, <1>type DEF Truncate
  <2>2. Control
    BY <1>19, <1>step, <1>fail, <1>statuses, <1>labels DEF Truncate
  <2> QED BY <2>1, <2>2
<1>20. CASE SyncTruncated
  <2>1. Files
    BY <1>20, <1>type, SyncTableType DEF SyncTruncated, table
  <2>2. Control
    BY <1>20, <1>step, <1>fail, <1>statuses, <1>labels DEF SyncTruncated
  <2> QED BY <2>1, <2>2
<1>21. CASE DropJournal
  <2>1. Files
    BY <1>21, <1>type, <1>gone DEF DropJournal, table
  <2>2. Control
    BY <1>21, <1>step, <1>fail, <1>statuses, <1>labels DEF DropJournal
  <2> QED BY <2>1, <2>2
<1>22. CASE SyncDropped
  <2>1. Files
    BY <1>22, <1>type, <1>dir DEF SyncDropped, table
  <2>2. Control
    BY <1>22, <1>step, <1>fail, <1>statuses, <1>labels DEF SyncDropped
  <2> QED BY <2>1, <2>2
<1>23. CASE Validate
  <2>1. Files
    BY <1>23, <1>type DEF Validate, files, table
  <2>2. CASE Fail("validate", {"TABLE_IO_ERROR", "TABLE_CORRUPT", "TABLE_INCOMPATIBLE"})
    BY <2>1, <2>2, <1>fail, <1>statuses
  <2>3. CASE HeaderValid /\ Opened("writer") /\ UNCHANGED <<previous, row, call>>
    BY <2>1, <2>3, <1>type DEF HeaderValid, Opened, Status
  <2> QED BY <1>23, <2>2, <2>3 DEF Validate
<1>24. CASE ProcessCrash
  BY <1>24, <1>type, <1>gone DEF ProcessCrash, Restart, table, Status
<1>25. CASE PowerLoss
  <2>1. hdr' \in Cell(Counts \union {Torn}) /\ jnl' \in Cell(JournalValue)
    <3>1. PICK h \in hdr.disk : hdr' = Clean(h)
      BY <1>25 DEF PowerLoss
    <3>2. PICK j \in jnl.disk : jnl' = Clean(j)
      BY <1>25 DEF PowerLoss
    <3>3. h \in Counts \union {Torn} /\ j \in JournalValue
      BY <1>type DEF Cell
    <3> QED BY <3>1, <3>2, <3>3, CleanType
  <2>2. PICK s : /\ \A i \in 1..MaxRows : s[i] \in slot[i].disk
                 /\ slot' = [i \in 1..MaxRows |-> Clean(s[i])]
    BY <1>25 DEF PowerLoss
  <2>3. \A i \in 1..MaxRows : s[i] \in SlotValue
    BY <2>2, <1>type DEF Cell
  <2>4. slot' \in [1..MaxRows -> Cell(SlotValue)]
    BY <2>2, <2>3, CleanType
  <2> QED BY <2>1, <2>4, <1>25, <1>type, <1>gone DEF PowerLoss, Restart, Status
<1>26. CASE SyncDirectory
  BY <1>26, <1>type, <1>dir DEF SyncDirectory, table, request
<1> QED
  BY <1>1, <1>2, <1>3, <1>4, <1>5, <1>6, <1>7, <1>8, <1>9, <1>10, <1>11, <1>12, <1>13,
     <1>14, <1>15, <1>16, <1>17, <1>18, <1>19, <1>20, <1>21, <1>22, <1>23, <1>24, <1>25,
     <1>26
  DEF Next, Insert, Publish, Apply, Retire, Recover

-----------------------------------------------------------------------------
(* The invariant is inductive. *)

LEMMA CleanFacts == \A v : /\ Clean(v).now = v
                           /\ Clean(v).disk = {v}
                           /\ Sync(Clean(v)) = Clean(v)
                           /\ \A tears : /\ Write(Clean(v), v, tears) = Clean(v)
                                          /\ FailedWrite(Clean(v), v, tears) = {Clean(v)}
BY DEF Clean, Sync, Write, FailedWrite

(* A synced cell has its present value on disk. *)
LEMMA SyncFacts == \A c : Sync(c) = Clean(c.now)
BY DEF Sync

(* What a write leaves to be read, and what on disk. *)
LEMMA WriteFacts == \A c, v, tears :
                      /\ Write(c, v, tears).now = v
                      /\ Write(c, v, tears).disk
                           = IF c.disk = {v} THEN {v} ELSE c.disk \union {v} \union tears
BY DEF Write

(* No row count is one of the values that stand for its absence. *)
LEMMA Sentinels == \A n \in Int : n # NoFile /\ n # Torn /\ n # Malformed
BY CountAssumption

(* An unlinked entry may be gone from the disk, or still there. *)
LEMMA UnlinkFacts == \A c : /\ Write(c, NoFile, {}).disk \subseteq c.disk \union {NoFile}
                             /\ \A j : j # NoFile /\ c.disk = {j}
                                    => Write(c, NoFile, {}).disk = {j, NoFile}
<1> TAKE c
<1>1. Write(c, NoFile, {}).disk
        = IF c.disk = {NoFile} THEN {NoFile} ELSE c.disk \union {NoFile} \union {}
  BY DEF Write
<1>2. ASSUME NEW j, j # NoFile, c.disk = {j}
      PROVE  c.disk # {NoFile}
  BY <1>2
<1> QED BY <1>1, <1>2

(* Every step keeps the invariant: one case for each action. *)
LEMMA NextIInv == ASSUME DirSyncSupported, IInv, Next
                  PROVE  IInv'
<1>type. TypeOK /\ TypeOK'
  BY NextTypeOK DEF IInv
<1> USE CleanFacts, SyncFacts, WriteFacts, Sentinels, CountAssumption, JournalAssumption,
        MaxRowsAssumption, RowAssumption, DirSyncAssumption
<1>1. CASE OpenTable
  <2>1. Quiet'
    BY <1>1, <1>type DEF IInv, Quiet, RowsOnDisk, OpenTable, files
  <2>2. Journalled'
    BY <1>1, <1>type DEF IInv, Journalled, RowsOnDisk, OpenTable, files
  <2>3. InsertInv'
    BY <1>1, <1>type DEF IInv, InsertInv, InsertPc, OpenTable
  <2>4. TempInv'
    BY <1>1, <1>type DEF IInv, TempInv, OpenTable, files
  <2>5. RecoveryInv'
    BY <1>1, <1>type DEF IInv, RecoveryInv, OpenPc, OpenTable
  <2>6. ReportInv'
    BY <1>1, <1>type DEF IInv, ReportInv, Acked, OpenTable
  <2> QED BY <1>type, <2>1, <2>2, <2>3, <2>4, <2>5, <2>6 DEF IInv
<1>2. CASE OpenReadonly
  <2>1. Quiet'
    BY <1>2, <1>type DEF IInv, Quiet, RowsOnDisk, OpenReadonly, files
  <2>2. Journalled'
    BY <1>2, <1>type DEF IInv, Journalled, RowsOnDisk, OpenReadonly, files
  <2>3. InsertInv'
    BY <1>2, <1>type DEF IInv, InsertInv, InsertPc, Quiet, OpenReadonly, Opened, files
  <2>4. TempInv'
    BY <1>2, <1>type DEF IInv, TempInv, OpenReadonly, Opened, files
  <2>5. RecoveryInv'
    BY <1>2, <1>type DEF IInv, RecoveryInv, OpenPc, OpenReadonly, Opened
  <2>6. ReportInv'
    BY <1>2, <1>type DEF IInv, ReportInv, Acked, OpenReadonly
  <2> QED BY <1>type, <2>1, <2>2, <2>3, <2>4, <2>5, <2>6 DEF IInv
<1>3. CASE CloseTable
  <2>1. Quiet'
    BY <1>3, <1>type DEF IInv, Quiet, RowsOnDisk, CloseTable, files
  <2>2. Journalled'
    BY <1>3, <1>type DEF IInv, Journalled, InsertInv, CloseTable, files
  <2>3. InsertInv'
    BY <1>3, <1>type DEF IInv, InsertInv, InsertPc, CloseTable
  <2>4. TempInv'
    BY <1>3, <1>type DEF IInv, TempInv, CloseTable, files
  <2>5. RecoveryInv'
    BY <1>3, <1>type DEF IInv, RecoveryInv, OpenPc, CloseTable
  <2>6. ReportInv'
    BY <1>3, <1>type DEF IInv, ReportInv, Acked, CloseTable, files, request
  <2> QED BY <1>type, <2>1, <2>2, <2>3, <2>4, <2>5, <2>6 DEF IInv
<1>4. CASE BeginInsert
  <2>1. Quiet'
    BY <1>4, <1>type DEF IInv, Quiet, RowsOnDisk, BeginInsert, files
  <2>2. Journalled'
    BY <1>4, <1>type DEF IInv, Journalled, InsertInv, BeginInsert, files
  <2>3. InsertInv'
    BY <1>4, <1>type DEF IInv, InsertInv, BeginInsert, Start, files
  <2>4. TempInv'
    BY <1>4, <1>type DEF IInv, TempInv, BeginInsert, Start, files
  <2>5. RecoveryInv'
    BY <1>4, <1>type DEF IInv, RecoveryInv, OpenPc, BeginInsert, Start
  <2>6. ReportInv'
    BY <1>4, <1>type DEF IInv, ReportInv, Acked, BeginInsert, Start
  <2> QED BY <1>type, <2>1, <2>2, <2>3, <2>4, <2>5, <2>6 DEF IInv
<1>5. CASE RejectInsert
  <2>1. Quiet'
    BY <1>5, <1>type DEF IInv, Quiet, RowsOnDisk, RejectInsert, files
  <2>2. Journalled'
    BY <1>5, <1>type DEF IInv, Journalled, InsertInv, RejectInsert, files
  <2>3. InsertInv'
    BY <1>5, <1>type DEF IInv, InsertInv, InsertPc, RejectInsert
  <2>4. TempInv'
    BY <1>5, <1>type DEF IInv, TempInv, RejectInsert, files
  <2>5. RecoveryInv'
    BY <1>5, <1>type DEF IInv, RecoveryInv, OpenPc, RejectInsert
  <2>6. ReportInv'
    BY <1>5, <1>type DEF IInv, ReportInv, Acked, InsertInv, RejectInsert, files
  <2> QED BY <1>type, <2>1, <2>2, <2>3, <2>4, <2>5, <2>6 DEF IInv
<1>6. CASE MakeTemp
  <2>1. Quiet'
    BY <1>6, <1>type DEF IInv, Quiet, RowsOnDisk, MakeTemp, files, table
  <2>2. Journalled'
    BY <1>6, <1>type DEF IInv, Journalled, InsertInv, MakeTemp, Step, Fail, files
  <2>3. InsertInv'
    BY <1>6, <1>type DEF IInv, InsertInv, InsertPc, MakeTemp, Step, Fail, request, table
  <2>4. TempInv'
    BY <1>6, <1>type DEF IInv, TempInv, MakeTemp, Step, Fail, files
  <2>5. RecoveryInv'
    BY <1>6, <1>type DEF IInv, RecoveryInv, OpenPc, MakeTemp, Step, Fail
  <2>6. ReportInv'
    BY <1>6, <1>type DEF IInv, ReportInv, Acked, InsertInv, MakeTemp, Step, Fail, request, files
  <2> QED BY <1>type, <2>1, <2>2, <2>3, <2>4, <2>5, <2>6 DEF IInv
<1>7. CASE WriteTemp
  <2>1. Quiet'
    BY <1>7, <1>type DEF IInv, Quiet, RowsOnDisk, WriteTemp, table
  <2>2. Journalled'
    BY <1>7, <1>type DEF IInv, Journalled, InsertInv, WriteTemp, Step, Fail
  <2>3. InsertInv'
    BY <1>7, <1>type DEF IInv, InsertInv, InsertPc, WriteTemp, Step, Fail, request, table
  <2>4. TempInv'
    BY <1>7, <1>type DEF IInv, TempInv, WriteTemp, Step, Fail, request
  <2>5. RecoveryInv'
    BY <1>7, <1>type DEF IInv, RecoveryInv, OpenPc, WriteTemp, Step, Fail
  <2>6. ReportInv'
    BY <1>7, <1>type DEF IInv, ReportInv, Acked, WriteTemp, Step, Fail, request
  <2> QED BY <1>type, <2>1, <2>2, <2>3, <2>4, <2>5, <2>6 DEF IInv
<1>8. CASE RenameTemp
  <2>1. Quiet'
    <3>1. CASE /\ Step("rename", "syncDir")
               /\ jnl' = [now |-> temp.now, disk |-> jnl.disk \union temp.disk]
      <4>1. temp = Clean(row_count) /\ row_count \in Int
        BY <3>1, <1>type DEF IInv, TempInv, Step, TypeOK, Counts
      <4> QED BY <4>1, <3>1 DEF Quiet
    <3>2. CASE UNCHANGED jnl
      BY <3>2, <1>8 DEF IInv, Quiet, RowsOnDisk, RenameTemp, table
    <3> QED BY <3>1, <3>2, <1>8 DEF RenameTemp
  <2>2. Journalled'
    BY <1>8, <1>type
       DEF TypeOK, IInv, Quiet, Journalled, RowsOnDisk, InsertInv, TempInv, RenameTemp,
           Step, Fail, request, table, Cell, Counts, JournalValue
  <2>3. InsertInv'
    BY <1>8, <1>type DEF IInv, InsertInv, InsertPc, TempInv, RenameTemp, Step, Fail, request, table
  <2>4. TempInv'
    BY <1>8, <1>type DEF IInv, TempInv, RenameTemp, Step, Fail
  <2>5. RecoveryInv'
    BY <1>8, <1>type DEF IInv, RecoveryInv, OpenPc, RenameTemp, Step, Fail
  <2>6. ReportInv'
    BY <1>8, <1>type DEF IInv, ReportInv, Acked, InsertInv, RenameTemp, Step, Fail, request, table
  <2> QED BY <1>type, <2>1, <2>2, <2>3, <2>4, <2>5, <2>6 DEF IInv
<1>9. CASE SyncJournalEntry
  <2>1. Quiet'
    BY <1>9, <1>type
       DEF IInv, Quiet, InsertInv, SyncJournalEntry, Step, Fail, util_sync_parent_directory,
           Counts
  <2>2. Journalled'
    BY <1>9, <1>type
       DEF IInv, Journalled, RowsOnDisk, SyncJournalEntry, table, util_sync_parent_directory
  <2>3. InsertInv'
    BY <1>9, <1>type
       DEF IInv, InsertInv, InsertPc, SyncJournalEntry, Step, Fail, request,
           util_sync_parent_directory
  <2>4. TempInv'
    BY <1>9, <1>type DEF IInv, TempInv, SyncJournalEntry, Step, Fail
  <2>5. RecoveryInv'
    BY <1>9, <1>type DEF IInv, RecoveryInv, OpenPc, SyncJournalEntry, Step, Fail
  <2>6. ReportInv'
    BY <1>9, <1>type DEF IInv, ReportInv, Acked, SyncJournalEntry, Step, Fail, request
  <2> QED BY <1>type, <2>1, <2>2, <2>3, <2>4, <2>5, <2>6 DEF IInv
<1>10. CASE WriteRow
  <2>1. Quiet'
    BY <1>10, <1>type DEF TypeOK, IInv, Quiet, InsertInv, WriteRow, Step, Fail, Counts
  <2>2. Journalled'
    <3>1. pc \in InsertPc /\ jnl = Clean(row_count) /\ row_count \in Nat /\ row_count < MaxRows
      BY <1>10, <1>type DEF WriteRow, Step, Fail, IInv, InsertInv, InsertPc, TypeOK, Counts
    <3>2. \A i \in 1..row_count : slot'[i] = slot[i]
      BY <1>10, <1>type, <3>1 DEF WriteRow, next, TypeOK
    <3>3. RowsOnDisk(row_count)'
      BY <3>1, <3>2, <1>10 DEF IInv, Journalled, RowsOnDisk, WriteRow, Step, Fail, request
    <3> QED BY <3>1, <3>3, <1>10 DEF Journalled, WriteRow, Step, Fail, request
  <2>3. InsertInv'
    BY <1>10, <1>type DEF IInv, InsertInv, InsertPc, WriteRow, Step, Fail, request
  <2>4. TempInv'
    BY <1>10, <1>type DEF IInv, TempInv, WriteRow, Step, Fail
  <2>5. RecoveryInv'
    BY <1>10, <1>type DEF IInv, RecoveryInv, OpenPc, WriteRow, Step, Fail
  <2>6. ReportInv'
    BY <1>10, <1>type
       DEF TypeOK, IInv, ReportInv, Acked, InsertInv, WriteRow, Step, Fail, request, Counts
  <2> QED BY <1>type, <2>1, <2>2, <2>3, <2>4, <2>5, <2>6 DEF IInv
<1>11. CASE SyncRow
  <2>1. Quiet'
    BY <1>11, <1>type DEF TypeOK, IInv, Quiet, InsertInv, SyncRow, Step, Fail, Counts
  <2>2. Journalled'
    <3>1. pc \in InsertPc /\ jnl = Clean(row_count) /\ row_count \in Nat /\ row_count < MaxRows
      BY <1>11, <1>type DEF SyncRow, Step, Fail, IInv, InsertInv, InsertPc, TypeOK, Counts
    <3>2. RowsOnDisk(row_count)
      BY <3>1 DEF IInv, Journalled
    <3>3. \A i \in 1..row_count : slot'[i] = slot[i]
      BY <1>11, <1>type, <3>1, <3>2 DEF SyncRow, next, TypeOK, RowsOnDisk
    <3>4. RowsOnDisk(row_count)'
      BY <3>2, <3>3, <1>11 DEF RowsOnDisk, SyncRow, Step, Fail, request
    <3> QED BY <3>1, <3>4, <1>11 DEF Journalled, SyncRow, Step, Fail, request
  <2>3. InsertInv'
    BY <1>11, <1>type
       DEF TypeOK, IInv, InsertInv, InsertPc, next, TempInv, SyncRow, Step, Fail, request,
           Counts
  <2>4. TempInv'
    BY <1>11, <1>type DEF IInv, TempInv, SyncRow, Step, Fail
  <2>5. RecoveryInv'
    BY <1>11, <1>type DEF IInv, RecoveryInv, OpenPc, SyncRow, Step, Fail
  <2>6. ReportInv'
    BY <1>11, <1>type
       DEF TypeOK, IInv, ReportInv, Acked, InsertInv, SyncRow, Step, Fail, request, Counts
  <2> QED BY <1>type, <2>1, <2>2, <2>3, <2>4, <2>5, <2>6 DEF IInv
<1>12. CASE WriteHeader
  <2>1. Quiet'
    BY <1>12, <1>type DEF TypeOK, IInv, Quiet, InsertInv, WriteHeader, Step, Fail, Counts
  <2>2. Journalled'
    BY <1>12, <1>type DEF IInv, Journalled, RowsOnDisk, InsertInv, WriteHeader, Step, Fail
  <2>3. InsertInv'
    BY <1>12, <1>type DEF IInv, InsertInv, InsertPc, next, WriteHeader, Step, Fail, request
  <2>4. TempInv'
    BY <1>12, <1>type DEF IInv, TempInv, WriteHeader, Step, Fail
  <2>5. RecoveryInv'
    BY <1>12, <1>type DEF IInv, RecoveryInv, OpenPc, WriteHeader, Step, Fail
  <2>6. ReportInv'
    BY <1>12, <1>type
       DEF TypeOK, IInv, ReportInv, Acked, InsertInv, WriteHeader, Step, Fail, request,
           Counts
  <2> QED BY <1>type, <2>1, <2>2, <2>3, <2>4, <2>5, <2>6 DEF IInv
<1>13. CASE SyncHeader
  <2>1. Quiet'
    BY <1>13, <1>type DEF IInv, Quiet, RowsOnDisk, SyncHeader, SyncTable, table, Counts
  <2>2. Journalled'
    BY <1>13, <1>type DEF IInv, Journalled, RowsOnDisk, SyncHeader, SyncTable, table
  <2>3. InsertInv'
    BY <1>13, <1>type
       DEF TypeOK, IInv, InsertInv, InsertPc, next, TempInv, SyncHeader, SyncTable, Step,
           Fail, request, Counts
  <2>4. TempInv'
    BY <1>13, <1>type DEF IInv, TempInv, SyncHeader, Step, Fail
  <2>5. RecoveryInv'
    BY <1>13, <1>type DEF IInv, RecoveryInv, OpenPc, SyncHeader, Step, Fail
  <2>6. ReportInv'
    BY <1>13, <1>type DEF IInv, ReportInv, Acked, SyncHeader, Step, Fail, request
  <2> QED BY <1>type, <2>1, <2>2, <2>3, <2>4, <2>5, <2>6 DEF IInv
<1>14. CASE UnlinkJournal
  <2>1. Quiet'
    <3>1. CASE pc = "unlink" /\ jnl' = Write(jnl, NoFile, {}) /\ UNCHANGED <<hdr, slot>>
      <4>1. /\ jnl = Clean(row_count) /\ hdr = Clean(next) /\ slot[next] = Clean(row)
            /\ row_count \in Nat /\ row_count < MaxRows
        BY <3>1, <1>type DEF IInv, InsertInv, InsertPc, TypeOK, Counts
      <4>2. \A i \in 1..next : \E r \in Row : slot[i] = Clean(r)
        <5>1. RowsOnDisk(row_count) /\ row \in Row
          <6>1. jnl.now = row_count /\ row_count # NoFile
            BY <4>1
          <6> QED BY <6>1, <1>type DEF IInv, Journalled, TypeOK
        <5>2. \A i \in 1..next : i \in 1..row_count \/ i = next
          BY <4>1 DEF next
        <5> QED BY <5>1, <5>2, <4>1 DEF RowsOnDisk
      <4>3. jnl'.disk = {row_count, NoFile}
        <5>1. row_count # NoFile
          BY <4>1
        <5>2. jnl.disk = {row_count}
          BY <4>1
        <5> QED BY <5>1, <5>2, <3>1, UnlinkFacts
      <4>4. next \in Counts /\ next - 1 = row_count
        BY <4>1 DEF next, Counts
      <4>5. hdr' = Clean(next) /\ hdr'.now = next
        BY <4>1, <3>1
      <4> QED BY <4>2, <4>3, <4>4, <4>5, <3>1 DEF Quiet, RowsOnDisk
    <3>2. CASE UNCHANGED <<hdr, slot, jnl>>
      BY <3>2 DEF IInv, Quiet, RowsOnDisk
    <3> QED BY <3>1, <3>2, <1>14 DEF UnlinkJournal, Step, Fail, table
  <2>2. Journalled'
    BY <1>14, <1>type DEF IInv, Journalled, RowsOnDisk, UnlinkJournal, table
  <2>3. InsertInv'
    <3>1. CASE Step("unlink", "syncUnlink") /\ jnl' = Write(jnl, NoFile, {})
      <4>1. /\ jnl = Clean(row_count) /\ hdr = Clean(next) /\ slot[next] = Clean(row)
            /\ mode = "writer" /\ row_count < MaxRows /\ call = "insert" /\ ret = "pending"
        BY <3>1 DEF Step, IInv, InsertInv, InsertPc
      <4>2. jnl.disk = {row_count} /\ row_count # NoFile
        BY <4>1, <1>type DEF TypeOK, Counts
      <4>3. jnl'.now = NoFile /\ row_count \in jnl'.disk
        BY <4>2, <3>1, UnlinkFacts
      <4> QED BY <4>1, <4>3, <3>1, <1>14
      DEF Step, UnlinkJournal, InsertInv, InsertPc, request, table, next
    <3>2. CASE Fail("unlink", {"TABLE_DURABILITY_ERROR"})
      BY <3>2 DEF Fail, InsertInv, InsertPc
    <3> QED BY <3>1, <3>2, <1>14 DEF UnlinkJournal
  <2>4. TempInv'
    BY <1>14, <1>type DEF IInv, TempInv, UnlinkJournal, Step, Fail
  <2>5. RecoveryInv'
    BY <1>14, <1>type DEF IInv, RecoveryInv, OpenPc, UnlinkJournal, Step, Fail
  <2>6. ReportInv'
    BY <1>14, <1>type DEF IInv, ReportInv, Acked, UnlinkJournal, Step, Fail, request
  <2> QED BY <1>type, <2>1, <2>2, <2>3, <2>4, <2>5, <2>6 DEF IInv
<1>15. CASE FinishInsert
  <2>1. Quiet'
    BY <1>15, <1>type DEF IInv, Quiet, RowsOnDisk, FinishInsert, table, util_sync_parent_directory
  <2>2. Journalled'
    BY <1>15, <1>type
       DEF IInv, Journalled, InsertInv, FinishInsert, Fail, util_sync_parent_directory
  <2>3. InsertInv'
    BY <1>15, <1>type
       DEF IInv, InsertInv, InsertPc, FinishInsert, Fail, table, util_sync_parent_directory
  <2>4. TempInv'
    BY <1>15, <1>type DEF IInv, TempInv, FinishInsert, Fail
  <2>5. RecoveryInv'
    BY <1>15, <1>type DEF IInv, RecoveryInv, OpenPc, FinishInsert, Fail
  <2>6. ReportInv'
    <3>1. CASE pc' = "ready" /\ row_count' = next /\ ret' = "TABLE_OK" /\ UNCHANGED row
               /\ jnl' = util_sync_parent_directory(jnl) /\ pc = "syncUnlink"
      <4>1. hdr = Clean(next) /\ slot[next] = Clean(row) /\ jnl.now = NoFile
        BY <3>1 DEF IInv, InsertInv
      <4>2. jnl' = Clean(NoFile)
        BY <4>1, <3>1 DEF util_sync_parent_directory
      <4>3. next # 0
        BY <1>type DEF next, TypeOK, Counts
      <4>4. hdr' = Clean(row_count') /\ slot'[row_count'] = Clean(row')
        BY <4>1, <3>1, <1>15 DEF FinishInsert, table
      <4> QED BY <4>2, <4>3, <4>4, <3>1 DEF ReportInv, Acked
    <3>2. CASE Fail("syncUnlink", {"TABLE_DURABILITY_ERROR"})
      BY <3>2 DEF Fail, ReportInv, Acked
    <3> QED BY <3>1, <3>2, <1>15 DEF FinishInsert
  <2> QED BY <1>type, <2>1, <2>2, <2>3, <2>4, <2>5, <2>6 DEF IInv
<1>16. CASE ReadJournal
  <2>1. Quiet'
    BY <1>16, <1>type DEF IInv, Quiet, RowsOnDisk, ReadJournal, files
  <2>2. Journalled'
    BY <1>16, <1>type DEF IInv, Journalled, RowsOnDisk, ReadJournal, files
  <2>3. InsertInv'
    BY <1>16, <1>type DEF IInv, InsertInv, InsertPc, ReadJournal, Step, Fail
  <2>4. TempInv'
    BY <1>16, <1>type DEF IInv, TempInv, ReadJournal, Step, Fail, files
  <2>5. RecoveryInv'
    BY <1>16, <1>type DEF IInv, RecoveryInv, OpenPc, ReadJournal, Step, Fail, request, files
  <2>6. ReportInv'
    BY <1>16, <1>type DEF IInv, ReportInv, Acked, ReadJournal, Step, Fail, request
  <2> QED BY <1>type, <2>1, <2>2, <2>3, <2>4, <2>5, <2>6 DEF IInv
<1>17. CASE RestoreHeader
  <2>1. Quiet'
    BY <1>17, <1>type DEF TypeOK, IInv, Quiet, RecoveryInv, RestoreHeader, Step, Fail
  <2>2. Journalled'
    BY <1>17, <1>type DEF IInv, Journalled, RowsOnDisk, RecoveryInv, RestoreHeader, Step, Fail
  <2>3. InsertInv'
    BY <1>17, <1>type DEF IInv, InsertInv, InsertPc, RestoreHeader, Step, Fail
  <2>4. TempInv'
    BY <1>17, <1>type DEF IInv, TempInv, RestoreHeader, Step, Fail
  <2>5. RecoveryInv'
    BY <1>17, <1>type DEF IInv, RecoveryInv, OpenPc, RestoreHeader, Step, Fail, request
  <2>6. ReportInv'
    BY <1>17, <1>type DEF IInv, ReportInv, Acked, RestoreHeader, Step, Fail, request
  <2> QED BY <1>type, <2>1, <2>2, <2>3, <2>4, <2>5, <2>6 DEF IInv
<1>18. CASE SyncRestored
  <2>1. Quiet'
    BY <1>18, <1>type DEF IInv, Quiet, RecoveryInv, SyncRestored, Step, Fail, Counts
  <2>2. Journalled'
    BY <1>18, <1>type DEF IInv, Journalled, RowsOnDisk, SyncRestored, SyncTable, table
  <2>3. InsertInv'
    BY <1>18, <1>type DEF IInv, InsertInv, InsertPc, SyncRestored, Step, Fail
  <2>4. TempInv'
    BY <1>18, <1>type DEF IInv, TempInv, SyncRestored, Step, Fail
  <2>5. RecoveryInv'
    BY <1>18, <1>type DEF IInv, RecoveryInv, OpenPc, SyncRestored, SyncTable, Step, Fail, request
  <2>6. ReportInv'
    BY <1>18, <1>type DEF IInv, ReportInv, Acked, SyncRestored, Step, Fail, request
  <2> QED BY <1>type, <2>1, <2>2, <2>3, <2>4, <2>5, <2>6 DEF IInv
<1>19. CASE Truncate
  <2>1. Quiet'
    BY <1>19, <1>type DEF IInv, Quiet, RecoveryInv, Truncate, Step, Fail, Counts
  <2>2. Journalled'
    BY <1>19, <1>type DEF IInv, Journalled, RowsOnDisk, RecoveryInv, Truncate, TruncatedTo, Step
  <2>3. InsertInv'
    BY <1>19, <1>type DEF IInv, InsertInv, InsertPc, Truncate, Step, Fail
  <2>4. TempInv'
    BY <1>19, <1>type DEF IInv, TempInv, Truncate, Step, Fail
  <2>5. RecoveryInv'
    BY <1>19, <1>type DEF IInv, RecoveryInv, OpenPc, Truncate, Step, Fail, request
  <2>6. ReportInv'
    BY <1>19, <1>type DEF IInv, ReportInv, Acked, Truncate, Step, Fail, request
  <2> QED BY <1>type, <2>1, <2>2, <2>3, <2>4, <2>5, <2>6 DEF IInv
<1>20. CASE SyncTruncated
  <2>1. Quiet'
    BY <1>20, <1>type DEF IInv, Quiet, RecoveryInv, SyncTruncated, Step, Fail, Counts
  <2>2. Journalled'
    BY <1>20, <1>type DEF IInv, Journalled, RowsOnDisk, SyncTruncated, SyncTable, table
  <2>3. InsertInv'
    BY <1>20, <1>type DEF IInv, InsertInv, InsertPc, SyncTruncated, Step, Fail
  <2>4. TempInv'
    BY <1>20, <1>type DEF IInv, TempInv, SyncTruncated, Step, Fail
  <2>5. RecoveryInv'
    BY <1>20, <1>type DEF IInv, RecoveryInv, OpenPc, SyncTruncated, SyncTable, Step, Fail, request
  <2>6. ReportInv'
    BY <1>20, <1>type DEF IInv, ReportInv, Acked, SyncTruncated, Step, Fail, request
  <2> QED BY <1>type, <2>1, <2>2, <2>3, <2>4, <2>5, <2>6 DEF IInv
<1>21. CASE DropJournal
  <2>1. Quiet'
    <3>1. CASE pc = "dropJournal" /\ jnl' = Write(jnl, NoFile, {}) /\ UNCHANGED <<hdr, slot>>
      <4>1. jnl.now = previous /\ hdr = Clean(previous) /\ previous \in Counts /\ previous # NoFile
        BY <3>1, <1>type DEF IInv, RecoveryInv, TypeOK, Counts
      <4>2. RowsOnDisk(previous) /\ jnl.disk \subseteq {NoFile, previous - 1, previous}
        BY <4>1 DEF IInv, Journalled
      <4>3. jnl'.disk \subseteq {NoFile, previous - 1, previous}
        <5>1. jnl'.disk \subseteq jnl.disk \union {NoFile}
          BY <3>1, UnlinkFacts
        <5> QED BY <5>1, <4>2
      <4>4. hdr' = Clean(previous) /\ hdr'.now = previous
        BY <4>1, <3>1
      <4> QED BY <4>1, <4>2, <4>3, <4>4, <3>1 DEF Quiet, RowsOnDisk
    <3>2. CASE UNCHANGED <<hdr, slot, jnl>>
      BY <3>2 DEF IInv, Quiet, RowsOnDisk
    <3> QED BY <3>1, <3>2, <1>21 DEF DropJournal, Step, Fail, table
  <2>2. Journalled'
    BY <1>21, <1>type DEF IInv, Journalled, RowsOnDisk, DropJournal, table
  <2>3. InsertInv'
    BY <1>21, <1>type DEF IInv, InsertInv, InsertPc, DropJournal, Step, Fail
  <2>4. TempInv'
    BY <1>21, <1>type DEF IInv, TempInv, DropJournal, Step, Fail
  <2>5. RecoveryInv'
    BY <1>21, <1>type DEF IInv, RecoveryInv, OpenPc, DropJournal, Step, Fail, request
  <2>6. ReportInv'
    BY <1>21, <1>type DEF IInv, ReportInv, Acked, DropJournal, Step, Fail, request
  <2> QED BY <1>type, <2>1, <2>2, <2>3, <2>4, <2>5, <2>6 DEF IInv
<1>22. CASE SyncDropped
  <2>1. Quiet'
    BY <1>22, <1>type DEF IInv, Quiet, RowsOnDisk, SyncDropped, table, util_sync_parent_directory
  <2>2. Journalled'
    BY <1>22, <1>type
       DEF IInv, Journalled, RecoveryInv, SyncDropped, Step, Fail,
           util_sync_parent_directory
  <2>3. InsertInv'
    BY <1>22, <1>type DEF IInv, InsertInv, InsertPc, SyncDropped, Step, Fail
  <2>4. TempInv'
    BY <1>22, <1>type DEF IInv, TempInv, SyncDropped, Step, Fail
  <2>5. RecoveryInv'
    BY <1>22, <1>type
       DEF IInv, RecoveryInv, OpenPc, SyncDropped, Step, Fail, request,
           util_sync_parent_directory
  <2>6. ReportInv'
    BY <1>22, <1>type DEF IInv, ReportInv, Acked, SyncDropped, Step, Fail, request
  <2> QED BY <1>type, <2>1, <2>2, <2>3, <2>4, <2>5, <2>6 DEF IInv
<1>23. CASE Validate
  <2>1. Quiet'
    BY <1>23, <1>type DEF IInv, Quiet, RowsOnDisk, Validate, files
  <2>2. Journalled'
    BY <1>23, <1>type DEF IInv, Journalled, RecoveryInv, Validate, Fail, files
  <2>3. InsertInv'
    BY <1>23, <1>type
       DEF IInv, InsertInv, InsertPc, RecoveryInv, Quiet, Validate, Opened, Fail, files
  <2>4. TempInv'
    BY <1>23, <1>type DEF IInv, TempInv, Validate, Opened, Fail, files
  <2>5. RecoveryInv'
    BY <1>23, <1>type DEF IInv, RecoveryInv, OpenPc, Validate, Opened, Fail
  <2>6. ReportInv'
    BY <1>23, <1>type DEF IInv, ReportInv, Acked, RecoveryInv, OpenPc, Validate, Fail, request
  <2> QED BY <1>type, <2>1, <2>2, <2>3, <2>4, <2>5, <2>6 DEF IInv
<1>24. CASE ProcessCrash
  <2>1. Quiet'
    BY <1>24, <1>type DEF IInv, Quiet, RowsOnDisk, ProcessCrash, table
  <2>2. Journalled'
    BY <1>24, <1>type DEF IInv, Journalled, RowsOnDisk, ProcessCrash, table
  <2>3. InsertInv'
    BY <1>24, <1>type DEF IInv, InsertInv, InsertPc, ProcessCrash, Restart
  <2>4. TempInv'
    BY <1>24, <1>type DEF IInv, TempInv, ProcessCrash, Restart
  <2>5. RecoveryInv'
    BY <1>24, <1>type DEF IInv, RecoveryInv, OpenPc, ProcessCrash, Restart
  <2>6. ReportInv'
    BY <1>24, <1>type DEF IInv, ReportInv, Acked, ProcessCrash, Restart
  <2> QED BY <1>type, <2>1, <2>2, <2>3, <2>4, <2>5, <2>6 DEF IInv
<1>25. CASE PowerLoss
  <2>1. PICK h \in hdr.disk : hdr' = Clean(h)
    BY <1>25 DEF PowerLoss
  <2>2. PICK j \in jnl.disk : jnl' = Clean(j)
    BY <1>25 DEF PowerLoss
  <2>3. PICK s : /\ \A i \in 1..MaxRows : s[i] \in slot[i].disk
                 /\ slot' = [i \in 1..MaxRows |-> Clean(s[i])]
    BY <1>25 DEF PowerLoss
  <2>4. ASSUME NEW n \in 0..MaxRows, RowsOnDisk(n)
        PROVE  RowsOnDisk(n)'
    <3>1. SUFFICES ASSUME NEW i \in 1..n
                   PROVE  \E r \in Row : slot'[i] = Clean(r)
      BY DEF RowsOnDisk
    <3>2. PICK r \in Row : slot[i] = Clean(r)
      BY <2>4 DEF RowsOnDisk
    <3>3. s[i] = r
      <4>1. s[i] \in slot[i].disk
        BY <2>3
      <4>2. slot[i].disk = {r}
        BY <3>2
      <4> QED BY <4>1, <4>2
    <3>4. i \in 1..MaxRows
      BY <2>4
    <3> QED BY <2>3, <3>3, <3>4
  <2>5. Quiet'
    <3>1. SUFFICES ASSUME j = NoFile
                   PROVE  /\ h \in Counts
                          /\ RowsOnDisk(h)'
      BY <2>1, <2>2 DEF Quiet, RowsOnDisk
    <3>2. h \in Counts /\ RowsOnDisk(h)
      <4>1. hdr = Clean(hdr.now) /\ hdr.now \in Counts /\ RowsOnDisk(hdr.now)
        <5>1. CASE jnl.now = NoFile
          BY <5>1 DEF IInv, Quiet
        <5>2. CASE jnl.now # NoFile
          <6>1. jnl.disk # {jnl.now}
            BY <3>1, <5>2
          <6> QED BY <5>2, <6>1 DEF IInv, Journalled, Counts
        <5> QED BY <5>1, <5>2
      <4>2. h = hdr.now
        <5>1. hdr.disk = {hdr.now}
          BY <4>1
        <5> QED BY <5>1, <2>1
      <4> QED BY <4>1, <4>2
    <3> QED BY <2>4, <3>2 DEF Counts
  <2>6. Journalled'
    <3>1. SUFFICES ASSUME j # NoFile
                   PROVE  j \in 0..(MaxRows - 1) /\ RowsOnDisk(j)'
      BY <2>2 DEF Journalled, RowsOnDisk
    <3>2. PICK n \in Counts : RowsOnDisk(n) /\ j \in {n - 1, n}
      BY <3>1, <1>type DEF IInv, Quiet, Journalled, Counts
    <3>3. j \in 0..(MaxRows - 1)
      <4>1. j \in JournalValue
        BY <1>type DEF TypeOK, Cell
      <4>2. j \in Int
        BY <3>2 DEF Counts
      <4>3. j # Malformed
        BY <4>2
      <4> QED BY <4>1, <4>3, <3>1 DEF JournalValue
    <3>4. RowsOnDisk(j)
      BY <3>2, <3>3 DEF RowsOnDisk, Counts
    <3> QED BY <2>4, <3>3, <3>4
  <2>7. InsertInv' /\ RecoveryInv'
    BY <1>25 DEF PowerLoss, Restart, InsertInv, RecoveryInv, InsertPc, OpenPc
  <2>8. TempInv' /\ ReportInv'
    BY <1>25 DEF PowerLoss, Restart, TempInv, ReportInv, Acked
  <2> QED BY <1>type, <2>5, <2>6, <2>7, <2>8 DEF IInv
<1>26. CASE SyncDirectory
  <2> USE <1>26, <1>type DEF SyncDirectory, util_sync_parent_directory, table, request
  <2>1. Quiet'
    BY DEF IInv, Quiet, RowsOnDisk, TypeOK, Cell
  <2>2. Journalled'
    BY DEF IInv, Journalled, RowsOnDisk
  <2>3. InsertInv'
    BY DEF IInv, InsertInv, InsertPc, next
  <2>4. TempInv'
    BY DEF IInv, TempInv
  <2>5. RecoveryInv'
    BY DEF IInv, RecoveryInv, OpenPc
  <2>6. ReportInv'
    BY DEF IInv, ReportInv, Acked
  <2> QED BY <2>1, <2>2, <2>3, <2>4, <2>5, <2>6 DEF IInv
<1> QED
  BY <1>1, <1>2, <1>3, <1>4, <1>5, <1>6, <1>7, <1>8, <1>9, <1>10, <1>11, <1>12, <1>13,
     <1>14, <1>15, <1>16, <1>17, <1>18, <1>19, <1>20, <1>21, <1>22, <1>23, <1>24, <1>25,
     <1>26
  DEF Next, Insert, Publish, Apply, Retire, Recover

(* A table just created fulfils it. *)
LEMMA InitIInv == Init => IInv
<1> SUFFICES ASSUME Init
             PROVE  IInv
  OBVIOUS
<1>1. TypeOK
  BY InitTypeOK
<1>2. Quiet /\ Journalled
  BY CleanFacts, MaxRowsAssumption DEF Init, Quiet, Journalled, RowsOnDisk, Counts
<1>3. InsertInv /\ TempInv /\ RecoveryInv /\ ReportInv
  BY DEF Init, InsertInv, TempInv, RecoveryInv, ReportInv, InsertPc, OpenPc, Acked
<1> QED BY <1>1, <1>2, <1>3 DEF IInv

(* It holds as long as nothing changes. *)
LEMMA StutterIInv == ASSUME IInv, UNCHANGED vars
                     PROVE  IInv'
<1>1. /\ hdr' = hdr /\ slot' = slot /\ jnl' = jnl /\ temp' = temp /\ pc' = pc
      /\ mode' = mode /\ row_count' = row_count /\ previous' = previous
      /\ row' = row /\ call' = call /\ ret' = ret
  BY DEF vars
<1>2. TypeOK'
  BY <1>1 DEF IInv, TypeOK
<1>3. Quiet' /\ Journalled'
  BY <1>1 DEF IInv, Quiet, Journalled, RowsOnDisk
<1>4. InsertInv' /\ TempInv' /\ RecoveryInv' /\ ReportInv'
  BY <1>1 DEF IInv, InsertInv, TempInv, RecoveryInv, ReportInv, Acked, next
<1> QED BY <1>2, <1>3, <1>4 DEF IInv

(***************************************************************************)
(* The strengthened invariant holds in every reachable state.  It needs a  *)
(* file system that syncs directories: without one, MCInsertJournal's      *)
(* NoDirSync run shows an acknowledged insert undone.                      *)
(***************************************************************************)
THEOREM Invariance == ASSUME DirSyncSupported
                      PROVE  Spec => []IInv
<1>1. IInv /\ [Next]_vars => IInv'
  BY NextIInv, StutterIInv
<1> QED BY InitIInv, <1>1, PTL DEF Spec

(* Every variable keeps its type. *)
THEOREM Typing == ASSUME DirSyncSupported
                  PROVE  Spec => []TypeOK
<1>1. IInv => TypeOK
  BY DEF IInv
<1> QED BY Invariance, <1>1, PTL

-----------------------------------------------------------------------------
(* What the invariant says of the outcomes. *)

LEMMA OutcomeMember == ASSUME TypeOK
                       PROVE  \A n : n \in Outcomes <=> \/ n \in jnl.disk /\ n # NoFile
                                                        \/ NoFile \in jnl.disk /\ n \in hdr.disk
<1>1. hdr.now \in hdr.disk
  BY DEF TypeOK, Cell
<1>2. ASSUME NEW n
      PROVE  n \in Outcomes <=> \E j \in jnl.disk, h \in hdr.disk : n = Exposed(j, h)
  BY DEF Outcomes
<1> QED BY <1>1, <1>2 DEF Exposed

(* n rows are committed, and one more may be. *)
OutcomesAt(n) ==
  /\ n \in Counts
  /\ n \in Outcomes
  /\ Outcomes \subseteq {n, n + 1} \intersect Counts
  /\ \A m \in Outcomes : RowsOnDisk(m)
  /\ Committed = n

(* There is one outcome, or two that differ by a row. *)
LEMMA OutcomesShape == ASSUME IInv
                       PROVE  (\E n \in Counts : OutcomesAt(n)) /\ Malformed \notin jnl.disk
<1>type. /\ TypeOK /\ jnl.now \in jnl.disk
         /\ jnl.disk \subseteq JournalValue /\ MaxRows \in Nat
  BY MaxRowsAssumption DEF IInv, TypeOK, Cell
<1>1. ASSUME NEW n \in Counts, n \in Outcomes, Outcomes \subseteq {n, n + 1} \intersect Counts,
             \A m \in Outcomes : RowsOnDisk(m)
      PROVE  OutcomesAt(n)
  <2>1. \A m \in Outcomes : n <= m
    BY <1>1, <1>type DEF Counts
  <2>2. \A m \in Outcomes : (\A k \in Outcomes : m <= k) => m = n
    BY <1>1, <2>1, <1>type DEF Counts
  <2>3. Committed = n
    BY <1>1, <2>1, <2>2 DEF Committed, Min
  <2> QED BY <1>1, <2>3 DEF OutcomesAt
<1>2. PICK top \in Counts : /\ top \in Outcomes
                            /\ Outcomes \subseteq {top - 1, top}
                            /\ RowsOnDisk(top)
                            /\ Malformed \notin jnl.disk
  <2>1. CASE jnl.now = NoFile
    <3>1. /\ hdr.now \in Counts /\ hdr = Clean(hdr.now) /\ RowsOnDisk(hdr.now)
          /\ jnl.disk \subseteq {NoFile, hdr.now - 1, hdr.now}
      BY <2>1 DEF IInv, Quiet
    <3>2. hdr.disk = {hdr.now}
      BY <3>1, CleanFacts
    <3>3. Malformed \notin jnl.disk
      BY <3>1, <1>type, Sentinels, JournalAssumption DEF Counts
    <3> QED BY <2>1, <3>1, <3>2, <3>3, <1>type, OutcomeMember
  <2>2. CASE jnl.now # NoFile
    <3>1. jnl.now \in Counts /\ jnl.now \in Outcomes /\ RowsOnDisk(jnl.now)
      BY <2>2, <1>type, OutcomeMember DEF IInv, Journalled, Counts
    <3>2. CASE jnl.disk = {jnl.now}
      <4>1. Malformed \notin jnl.disk
        BY <3>1, <3>2, <1>type, Sentinels DEF Counts
      <4>2. Outcomes \subseteq {jnl.now}
        BY <2>2, <3>2, <1>type, OutcomeMember
      <4> QED BY <3>1, <4>1, <4>2
    <3>3. CASE hdr = Clean(jnl.now) /\ jnl.disk \subseteq {NoFile, jnl.now - 1, jnl.now}
      <4>1. Malformed \notin jnl.disk
        BY <3>1, <3>3, <1>type, Sentinels, JournalAssumption DEF Counts
      <4>2. Outcomes \subseteq {jnl.now - 1, jnl.now}
        BY <3>3, <1>type, OutcomeMember, CleanFacts
      <4> QED BY <3>1, <4>1, <4>2
    <3> QED BY <2>2, <3>2, <3>3 DEF IInv, Journalled
  <2> QED BY <2>1, <2>2
<1>3. Outcomes \subseteq Counts
  <2>1. \A n \in Outcomes : n \in JournalValue \union Counts \union {Torn}
    BY <1>type, OutcomeMember DEF TypeOK, Cell
  <2>2. top \in Int /\ top - 1 \in Int
    BY <1>2, <1>type DEF Counts
  <2>3. \A n \in Outcomes : n \in Int
    BY <1>2, <2>2
  <2> QED BY <2>1, <2>3, <1>type, Sentinels DEF JournalValue, Counts
<1>4. \A m \in Outcomes : RowsOnDisk(m)
  BY <1>2, <1>3, <1>type DEF RowsOnDisk, Counts
<1>5. CASE top - 1 \in Outcomes
  <2>1. Outcomes \subseteq {top - 1, (top - 1) + 1} \intersect Counts
    BY <1>2, <1>3, <1>type DEF Counts
  <2> QED BY <1>1, <1>2, <1>3, <1>4, <1>5, <2>1
<1>6. CASE top - 1 \notin Outcomes
  <2>1. Outcomes \subseteq {top, top + 1} \intersect Counts
    BY <1>2, <1>3, <1>6
  <2> QED BY <1>1, <1>2, <1>4, <2>1
<1> QED BY <1>2, <1>5, <1>6

(***************************************************************************)
(* At every instant a power loss leaves the old table or the new one, with *)
(* every exposed row whole: no crash, failed system call or cut-short      *)
(* recovery, in any order, produces anything else.                         *)
(***************************************************************************)
THEOREM AlwaysOldOrNew == ASSUME DirSyncSupported
                          PROVE  Spec => []OldOrNew
<1>1. ASSUME IInv
      PROVE  OldOrNew
  <2>1. PICK n \in Counts : OutcomesAt(n)
    BY <1>1, OutcomesShape
  <2>2. Malformed \notin jnl.disk
    BY <1>1, OutcomesShape
  <2> QED BY <2>1, <2>2 DEF OutcomesAt, OldOrNew, RowsOnDisk
<1> QED BY Invariance, <1>1, PTL

(***************************************************************************)
(* An insert that returned TABLE_OK can no longer be lost.                 *)
(***************************************************************************)
THEOREM AckedSurvives == ASSUME DirSyncSupported
                         PROVE  Spec => []AckedIsDurable
<1>1. ASSUME IInv, Acked
      PROVE  Outcomes = {row_count} /\ slot[row_count] = Clean(row)
  <2>1. jnl = Clean(NoFile) /\ hdr = Clean(row_count) /\ slot[row_count] = Clean(row)
    BY <1>1 DEF IInv, ReportInv
  <2>2. jnl.disk = {NoFile} /\ hdr.disk = {row_count}
    BY <2>1, CleanFacts
  <2>3. \A n : n \in Outcomes <=> n = row_count
    BY <1>1, <2>2, OutcomeMember DEF IInv
  <2>4. Outcomes = {row_count}
    BY <2>3
  <2> QED BY <2>1, <2>4
<1>2. IInv => AckedIsDurable
  BY <1>1 DEF AckedIsDurable
<1> QED BY Invariance, <1>2, PTL

(***************************************************************************)
(* An insert that reported TABLE_IO_ERROR or TABLE_READ_ONLY leaves no     *)
(* outcome in which its row is there.                                      *)
(***************************************************************************)
THEOREM RejectedNeverAppears == ASSUME DirSyncSupported
                                PROVE  Spec => []RejectedStaysOut
<1>1. ASSUME IInv, call = "insert", ret \in {"TABLE_IO_ERROR", "TABLE_READ_ONLY"},
             NEW n \in Outcomes
      PROVE  n <= row_count
  <2>type. TypeOK /\ row_count \in Int
    BY <1>1 DEF IInv, TypeOK, Counts
  <2>outcomes. \/ n \in jnl.disk /\ n # NoFile
               \/ NoFile \in jnl.disk /\ n \in hdr.disk
    <3>1. \A m : m \in Outcomes
          <=> \/ m \in jnl.disk /\ m # NoFile
              \/ NoFile \in jnl.disk /\ m \in hdr.disk
      BY <2>type, OutcomeMember
    <3> QED BY <1>1, <3>1
  <2>1. CASE jnl.now = NoFile
    <3>1. hdr = Clean(row_count) /\ jnl.disk \subseteq {NoFile, row_count - 1, row_count}
      BY <1>1, <2>1 DEF IInv, ReportInv, Quiet
    <3> QED BY <3>1, <2>outcomes, <2>type, CleanFacts
  <2>2. CASE jnl.now # NoFile
    <3>1. jnl.now = row_count
      BY <1>1, <2>2 DEF IInv, ReportInv
    <3>2. \/ jnl.disk = {row_count}
          \/ hdr = Clean(row_count) /\ jnl.disk \subseteq {NoFile, row_count - 1, row_count}
      BY <1>1, <2>2, <3>1 DEF IInv, Journalled
    <3>3. row_count # NoFile
      BY <2>2, <3>1
    <3> QED BY <3>2, <3>3, <2>outcomes, <2>type, CleanFacts
  <2> QED BY <2>1, <2>2
<1>2. IInv => RejectedStaysOut
  BY <1>1 DEF RejectedStaysOut
<1> QED BY Invariance, <1>2, PTL

(***************************************************************************)
(* An open handle shows exactly the rows of a settled file.                *)
(***************************************************************************)
THEOREM HandleAgrees == ASSUME DirSyncSupported
                        PROVE  Spec => []HandleMatchesFile
<1>1. ASSUME IInv, pc = "ready"
      PROVE  /\ mode # "closed" /\ jnl.now = NoFile /\ hdr = Clean(row_count)
             /\ \A i \in 1..row_count : slot[i].now \in Row
  <2>1. mode # "closed" /\ jnl.now = NoFile /\ hdr = Clean(row_count)
    BY <1>1 DEF IInv, InsertInv
  <2>2. RowsOnDisk(row_count)
    BY <1>1, <2>1, CleanFacts DEF IInv, Quiet
  <2> QED BY <2>1, <2>2, CleanFacts DEF RowsOnDisk
<1>2. IInv => HandleMatchesFile
  BY <1>1 DEF HandleMatchesFile
<1> QED BY Invariance, <1>2, PTL

-----------------------------------------------------------------------------
(* Committed rows stay. *)

LEMMA SyncTableKeeps == ASSUME TypeOK, SyncTable, NEW i \in 1..MaxRows, NEW r, slot[i] = Clean(r)
                        PROVE  slot'[i] = slot[i]
BY CleanFacts DEF SyncTable

(* A step changes no slot that any outcome exposes. *)
LEMMA SlotsKept == ASSUME IInv, Next, NEW n \in Outcomes, NEW i \in 1..n
                   PROVE  slot'[i] = slot[i]
<1>at. PICK c \in Counts : OutcomesAt(c)
  BY OutcomesShape
<1>type. TypeOK /\ MaxRows \in Nat /\ n \in Nat /\ i \in 1..MaxRows
  BY <1>at, MaxRowsAssumption DEF IInv, OutcomesAt, Counts
<1>row. PICK r \in Row : slot[i] = Clean(r)
  BY <1>at DEF OutcomesAt, RowsOnDisk
<1>insert. pc \in {"writeRow", "syncRow"} => i # next
  <2>1. SUFFICES ASSUME pc \in {"writeRow", "syncRow"}
                 PROVE  i # next
    OBVIOUS
  <2>2. jnl = Clean(row_count) /\ row_count \in Nat
    BY <2>1, <1>type DEF IInv, InsertInv, TypeOK, Counts
  <2>3. \A m : m \in Outcomes
        <=> \/ m \in jnl.disk /\ m # NoFile
            \/ NoFile \in jnl.disk /\ m \in hdr.disk
    BY <1>type, OutcomeMember
  <2>4. n = row_count
    BY <2>2, <2>3, CleanFacts, Sentinels
  <2> QED BY <2>2, <2>4, <1>type DEF next
<1>recover. pc = "truncate" => i <= previous
  <2>1. SUFFICES ASSUME pc = "truncate"
                 PROVE  i <= previous
    OBVIOUS
  <2>2. jnl.now = previous /\ previous \in Nat /\ jnl.now \in jnl.disk
    BY <2>1, <1>type DEF IInv, RecoveryInv, TypeOK, Cell
  <2>3. \A m : m \in Outcomes
        <=> \/ m \in jnl.disk /\ m # NoFile
            \/ NoFile \in jnl.disk /\ m \in hdr.disk
    BY <1>type, OutcomeMember
  <2>4. previous # NoFile /\ hdr = Clean(previous)
    BY <2>1, <2>2, Sentinels DEF IInv, RecoveryInv
  <2>5. jnl.disk \subseteq {NoFile, previous - 1, previous}
    BY <2>2, <2>4 DEF IInv, Journalled
  <2>6. n \in {previous - 1, previous}
    BY <2>3, <2>4, <2>5, CleanFacts
  <2> QED BY <2>2, <2>6, <1>type
<1>1. CASE OpenTable \/ OpenReadonly \/ CloseTable \/ BeginInsert \/ RejectInsert
  BY <1>1 DEF OpenTable, OpenReadonly, CloseTable, BeginInsert, RejectInsert, files, table
<1>2. CASE Publish
  BY <1>2 DEF Publish, MakeTemp, WriteTemp, RenameTemp, SyncJournalEntry, files, table
<1>3. CASE WriteRow
  BY <1>3, <1>insert, <1>type DEF WriteRow, Step, Fail, TypeOK
<1>4. CASE SyncRow
  <2>1. slot'[i] \in {slot[i], Sync(slot[i])}
    BY <1>4, <1>insert, <1>type DEF SyncRow, Step, Fail, TypeOK
  <2> QED BY <2>1, <1>row, CleanFacts
<1>5. CASE WriteHeader \/ UnlinkJournal \/ FinishInsert \/ ReadJournal \/ RestoreHeader
           \/ DropJournal \/ SyncDropped \/ Validate \/ SyncDirectory \/ ProcessCrash
  BY <1>5 DEF WriteHeader, UnlinkJournal, FinishInsert, ReadJournal, RestoreHeader,
              DropJournal, SyncDropped, Validate, SyncDirectory, ProcessCrash, files, table
<1>6. CASE SyncHeader \/ SyncRestored \/ SyncTruncated
  <2>1. SyncTable \/ UNCHANGED slot
    BY <1>6 DEF SyncHeader, SyncRestored, SyncTruncated, table
  <2> QED BY <2>1, <1>row, <1>type, SyncTableKeeps
<1>7. CASE Truncate
  <2>1. slot[i].now # Eof
    BY <1>row, CleanFacts, RowAssumption
  <2>2. i <= previous /\ previous \in Nat
    BY <1>7, <1>recover, <1>type DEF Truncate, Step, Fail, TypeOK
  <2> QED BY <1>7, <2>1, <2>2, <1>type DEF Truncate, TruncatedTo
<1>8. CASE PowerLoss
  <2>1. PICK s : /\ \A k \in 1..MaxRows : s[k] \in slot[k].disk
                 /\ slot' = [k \in 1..MaxRows |-> Clean(s[k])]
    BY <1>8 DEF PowerLoss
  <2>2. s[i] \in slot[i].disk /\ slot[i].disk = {r}
    BY <2>1, <1>type, <1>row, CleanFacts
  <2>3. s[i] = r
    BY <2>2
  <2> QED BY <2>1, <2>3, <1>type, <1>row
<1> QED
  BY <1>1, <1>2, <1>3, <1>4, <1>5, <1>6, <1>7, <1>8 DEF Next, Insert, Apply, Retire, Recover

(* The members of the outcomes in the next state. *)
LEMMA OutcomeMemberNext == ASSUME TypeOK'
                           PROVE  \A n : n \in Outcomes'
                                    <=> \/ n \in jnl'.disk /\ n # NoFile
                                        \/ NoFile \in jnl'.disk /\ n \in hdr'.disk
<1>1. hdr'.now \in hdr'.disk
  BY DEF TypeOK, Cell
<1>2. ASSUME NEW n
      PROVE  n \in Outcomes' <=> \E j \in jnl'.disk, h \in hdr'.disk : n = Exposed(j, h)
  BY DEF Outcomes, Exposed
<1> QED BY <1>1, <1>2 DEF Exposed

(***************************************************************************)
(* A step adds no outcome, but for the new row's when the insert unlinks   *)
(* its journal.                                                            *)
(***************************************************************************)
LEMMA OutcomesStep == ASSUME DirSyncSupported, IInv, TypeOK', Next, NEW m \in Outcomes'
                      PROVE  \/ m \in Outcomes
                             \/ /\ pc = "unlink" /\ pc' = "syncUnlink"
                                /\ m = row_count + 1 /\ Outcomes = {row_count}
                                /\ row_count \in Outcomes'
<1>type. TypeOK /\ jnl.now \in jnl.disk /\ row_count \in Int /\ previous \in Int
  BY DEF IInv, TypeOK, Cell, Counts
<1>before. \A k : k \in Outcomes
              <=> \/ k \in jnl.disk /\ k # NoFile
                  \/ NoFile \in jnl.disk /\ k \in hdr.disk
  BY <1>type, OutcomeMember
<1>after. \/ m \in jnl'.disk /\ m # NoFile
          \/ NoFile \in jnl'.disk /\ m \in hdr'.disk
  BY OutcomeMemberNext
<1>insert. pc \in {"writeRow", "syncRow", "writeHeader", "syncHeader", "unlink"}
             => jnl.disk = {row_count} /\ row_count \in Outcomes
  <2>1. SUFFICES ASSUME pc \in {"writeRow", "syncRow", "writeHeader", "syncHeader", "unlink"}
                 PROVE  jnl.disk = {row_count} /\ row_count \in Outcomes
    OBVIOUS
  <2>2. jnl = Clean(row_count) /\ row_count # NoFile
    BY <2>1, <1>type, Sentinels DEF IInv, InsertInv
  <2> QED BY <2>2, <1>before, CleanFacts
<1>1. CASE UNCHANGED <<hdr, jnl>>
  BY <1>1, <1>before, <1>after
<1>2. CASE jnl'.disk \subseteq jnl.disk /\ hdr'.disk \subseteq hdr.disk
  BY <1>2, <1>before, <1>after
<1>3. CASE RenameTemp
  <2>1. CASE pc = "rename" /\ jnl'.disk = jnl.disk \union temp.disk /\ hdr' = hdr
    <3>1. temp = Clean(row_count) /\ jnl.now = NoFile /\ hdr = Clean(row_count)
      BY <2>1 DEF IInv, TempInv, InsertInv
    <3>2. jnl'.disk = jnl.disk \union {row_count} /\ row_count \in Outcomes
      BY <3>1, <2>1, <1>type, <1>before, CleanFacts
    <3> QED BY <3>2, <2>1, <1>before, <1>after
  <2>2. CASE UNCHANGED <<hdr, jnl>>
    BY <2>2, <1>1
  <2> QED BY <1>3, <2>1, <2>2 DEF RenameTemp, Step, table
<1>4. CASE WriteHeader
  <2>1. jnl' = jnl /\ pc = "writeHeader"
    BY <1>4 DEF WriteHeader, Step, Fail
  <2>2. jnl.disk = {row_count} /\ row_count \in Outcomes
    BY <2>1, <1>insert
  <2>3. NoFile \notin jnl.disk
    BY <2>2, <1>type, Sentinels
  <2> QED BY <2>1, <2>2, <2>3, <1>after
<1>5. CASE UnlinkJournal
  <2>1. CASE pc = "unlink" /\ pc' = "syncUnlink" /\ jnl' = Write(jnl, NoFile, {}) /\ hdr' = hdr
    <3>1. jnl.disk = {row_count} /\ hdr = Clean(next) /\ row_count # NoFile
      BY <2>1, <1>insert, <1>type, Sentinels DEF IInv, InsertInv
    <3>2. jnl'.disk = {row_count, NoFile} /\ hdr'.disk = {row_count + 1}
      BY <3>1, <2>1, UnlinkFacts, CleanFacts DEF next
    <3>3. \A k : k \in Outcomes <=> k = row_count
      BY <3>1, <1>before
    <3>4. Outcomes = {row_count}
      BY <3>3
    <3>5. row_count \in Outcomes'
      BY <3>1, <3>2, OutcomeMemberNext
    <3> QED BY <3>2, <3>4, <3>5, <2>1, <1>after
  <2>2. CASE UNCHANGED <<hdr, jnl>>
    BY <2>2, <1>1
  <2> QED BY <1>5, <2>1, <2>2 DEF UnlinkJournal, Step, table
<1>6. CASE RestoreHeader
  <2>1. jnl' = jnl /\ jnl.now = previous /\ previous # NoFile
    BY <1>6, <1>type, Sentinels DEF RestoreHeader, Step, Fail, IInv, RecoveryInv
  <2>2. CASE jnl.disk = {previous}
    <3>1. NoFile \notin jnl.disk
      BY <2>1, <2>2
    <3> QED BY <2>1, <3>1, <1>before, <1>after
  <2>3. CASE hdr = Clean(previous)
    <3>1. hdr' = hdr
      BY <2>3, <1>6, CleanFacts DEF RestoreHeader
    <3> QED BY <3>1, <2>1, <1>1
  <2> QED BY <2>1, <2>2, <2>3 DEF IInv, Journalled
<1>7. CASE DropJournal
  <2>1. CASE jnl' = Write(jnl, NoFile, {}) /\ hdr' = hdr /\ pc = "dropJournal"
    <3>1. jnl.now = previous /\ hdr = Clean(previous) /\ previous # NoFile
      BY <2>1, <1>type, Sentinels DEF IInv, RecoveryInv
    <3>2. previous \in Outcomes /\ hdr'.disk = {previous}
      BY <3>1, <2>1, <1>type, <1>before, CleanFacts
    <3>3. jnl'.disk \subseteq jnl.disk \union {NoFile}
      BY <2>1, UnlinkFacts
    <3> QED BY <3>2, <3>3, <1>before, <1>after
  <2>2. CASE UNCHANGED <<hdr, jnl>>
    BY <2>2, <1>1
  <2> QED BY <1>7, <2>1, <2>2 DEF DropJournal, Step, table
<1>8. CASE OpenTable \/ OpenReadonly \/ CloseTable \/ Insert \/ MakeTemp \/ WriteTemp \/ WriteRow
           \/ ReadJournal \/ Truncate \/ Validate \/ ProcessCrash
  BY <1>8, <1>1 DEF OpenTable, OpenReadonly, CloseTable, Insert, BeginInsert, RejectInsert,
                    MakeTemp, WriteTemp, WriteRow, ReadJournal, Truncate, Validate,
                    ProcessCrash, files, table
<1>sync. \A c : c.now \in c.disk => Sync(c).disk \subseteq c.disk
  BY SyncFacts, CleanFacts
<1>9. CASE SyncJournalEntry \/ FinishInsert \/ SyncDropped \/ SyncDirectory
  <2>1. hdr' = hdr /\ (jnl' = jnl \/ jnl' = Sync(jnl))
    BY <1>9 DEF SyncJournalEntry, FinishInsert, SyncDropped, SyncDirectory, table,
                util_sync_parent_directory
  <2> QED BY <2>1, <1>2, <1>sync, <1>type
<1>10. CASE SyncRow \/ SyncHeader \/ SyncRestored \/ SyncTruncated
  <2>1. jnl' = jnl /\ (hdr' = hdr \/ hdr' = Sync(hdr)) /\ hdr.now \in hdr.disk
    BY <1>10, <1>type DEF SyncRow, SyncHeader, SyncRestored, SyncTruncated, SyncTable, table,
                          TypeOK, Cell
  <2> QED BY <2>1, <1>2, <1>sync
<1>11. CASE PowerLoss
  <2>1. jnl'.disk \subseteq jnl.disk /\ hdr'.disk \subseteq hdr.disk
    BY <1>11, CleanFacts DEF PowerLoss
  <2> QED BY <2>1, <1>2
<1> QED
  BY <1>3, <1>4, <1>5, <1>6, <1>7, <1>8, <1>9, <1>10, <1>11
  DEF Next, Publish, Apply, Retire, Recover

(* The shape of the outcomes in the next state. *)
LEMMA OutcomesShapeNext == (IInv => \E n \in Counts : OutcomesAt(n))'
<1>1. IInv => \E n \in Counts : OutcomesAt(n)
  BY OutcomesShape
<1> QED BY <1>1, PTL

(***************************************************************************)
(* No step takes back or alters a committed row.                           *)
(***************************************************************************)
THEOREM CommittedStays == ASSUME DirSyncSupported
                          PROVE  Spec => CommittedNeverShrinks
<1>1. ASSUME IInv, IInv', Next
      PROVE  KeepsCommitted
  <2>1. PICK n \in Counts : OutcomesAt(n)
    BY <1>1, OutcomesShape
  <2>2. PICK m \in Counts : OutcomesAt(m)'
    BY <1>1, OutcomesShapeNext DEF Counts
  <2>3. m \in Outcomes \/ (m = row_count + 1 /\ Outcomes = {row_count})
    <3>1. m \in Outcomes'
      BY <2>2 DEF OutcomesAt
    <3>2. TypeOK'
      BY <1>1 DEF IInv
    <3> QED BY <1>1, <3>1, <3>2, OutcomesStep
  <2>4. n <= m
    BY <2>1, <2>3, MaxRowsAssumption DEF OutcomesAt, Counts
  <2>5. \A i \in 1..n : slot'[i] = slot[i]
    BY <1>1, <2>1, SlotsKept DEF OutcomesAt
  <2>6. Committed = n /\ Committed' = m
    BY <2>1, <2>2 DEF OutcomesAt
  <2> QED BY <2>4, <2>5, <2>6 DEF KeepsCommitted
<1>2. ASSUME IInv, UNCHANGED vars
      PROVE  KeepsCommitted \/ UNCHANGED vars
  BY <1>2
<1>3. IInv /\ IInv' /\ [Next]_vars => [KeepsCommitted]_vars
  BY <1>1, <1>2
<1> QED BY Invariance, <1>3, PTL DEF Spec, CommittedNeverShrinks

-----------------------------------------------------------------------------
(* The journalled table implements AtomicTable. *)

LEMMA RowCommitted == ASSUME IInv, NEW n \in Outcomes, NEW i \in 1..n
                      PROVE  slot[i].now \in Row
<1>1. RowsOnDisk(n)
  BY OutcomesShape DEF OutcomesAt
<1> QED BY <1>1, CleanFacts DEF RowsOnDisk

(* An insert is acknowledged by its last sync, which settles its row. *)
LEMMA AckStep == ASSUME IInv, Next, Acked'
                 PROVE  /\ row' = row
                        /\ \/ Acked
                           \/ /\ row_count \in Outcomes /\ row_count + 1 \in Outcomes
                              /\ slot[row_count + 1] = Clean(row)
                              /\ row_count' = row_count + 1
<1>1. CASE pc = "syncUnlink" /\ FinishInsert
  <2>1. /\ hdr = Clean(next) /\ slot[next] = Clean(row)
        /\ jnl.now = NoFile /\ row_count \in jnl.disk /\ row_count \in Int
    BY <1>1 DEF IInv, InsertInv, TypeOK, Counts
  <2>2. jnl.now \in jnl.disk /\ TypeOK
    BY DEF IInv, TypeOK, Cell
  <2>3. row_count \in Outcomes /\ next \in Outcomes
    BY <2>1, <2>2, OutcomeMember, Sentinels, CleanFacts
  <2>4. CASE Fail("syncUnlink", {"TABLE_DURABILITY_ERROR"})
    BY <2>4 DEF Fail, Acked
  <2>5. CASE row_count' = next /\ row' = row
    BY <2>5, <2>1, <2>3 DEF next
  <2> QED BY <1>1, <2>4, <2>5 DEF FinishInsert
<1>2. ASSUME NEW from \in InsertPc \union OpenPc, NEW to, Step(from, to)
      PROVE  FALSE
  BY <1>2 DEF Step, Acked, IInv, InsertInv, RecoveryInv, request
<1>3. ASSUME NEW from, NEW statuses, "TABLE_OK" \notin statuses, Fail(from, statuses)
      PROVE  FALSE
  BY <1>3 DEF Fail, Acked
<1>4. CASE OpenTable \/ OpenReadonly \/ BeginInsert \/ RejectInsert \/ ProcessCrash \/ PowerLoss
  BY <1>4 DEF Acked, OpenTable, OpenReadonly, BeginInsert, RejectInsert, Start,
              ProcessCrash, PowerLoss, Restart
<1>5. CASE CloseTable \/ SyncDirectory
  BY <1>5 DEF CloseTable, SyncDirectory, Acked, request
<1>6. CASE Publish \/ Apply \/ UnlinkJournal
  BY <1>2, <1>3, <1>6 DEF Publish, MakeTemp, WriteTemp, RenameTemp, SyncJournalEntry, Apply,
     WriteRow, SyncRow, WriteHeader, SyncHeader, UnlinkJournal, InsertPc
<1>7. CASE RestoreHeader \/ SyncRestored \/ Truncate \/ SyncTruncated \/ DropJournal \/ SyncDropped
  BY <1>2, <1>3, <1>7 DEF RestoreHeader, SyncRestored, Truncate, SyncTruncated, DropJournal,
     SyncDropped, OpenPc
<1>8. CASE ReadJournal \/ Validate
  <2>1. call = "open" /\ call' = call
    BY <1>8 DEF ReadJournal, Validate, Step, Fail, request, IInv, RecoveryInv, OpenPc
  <2> QED BY <2>1 DEF Acked
<1>9. CASE FinishInsert
  BY <1>1, <1>9 DEF FinishInsert, Fail
<1> QED
  BY <1>4, <1>5, <1>6, <1>7, <1>8, <1>9 DEF Next, Insert, Retire, Recover

(* The abstract state, in terms of the number of committed rows. *)
RowsAt(n) == [i \in 1..n |-> slot[i].now]
(* The row in doubt behind n committed ones. *)
DoubtAt(n) == IF n + 1 \in Outcomes THEN slot[n + 1].now ELSE Eof
(* The row acknowledged last. *)
AckedRow == IF Acked THEN row ELSE Eof

(* The abstract state, by the number of committed rows. *)
LEMMA AbstractState == ASSUME NEW n \in Counts, OutcomesAt(n)
                       PROVE  /\ [i \in 1..Committed |-> slot[i].now] = RowsAt(n)
                              /\ (IF InDoubt THEN slot[Committed + 1].now ELSE Eof) = DoubtAt(n)
<1>1. Committed = n /\ n \in Outcomes /\ Outcomes \subseteq {n, n + 1} /\ n + 1 # n
  BY MaxRowsAssumption DEF OutcomesAt, Counts
<1>2. InDoubt <=> n + 1 \in Outcomes
  <2>1. CASE n + 1 \in Outcomes
    BY <1>1, <2>1 DEF InDoubt
  <2>2. CASE n + 1 \notin Outcomes
    <3>1. Outcomes = {n}
      BY <1>1, <2>2
    <3> QED BY <3>1, <2>2, <1>1 DEF InDoubt
  <2> QED BY <2>1, <2>2
<1> QED BY <1>1, <1>2 DEF RowsAt, DoubtAt

(* The abstract state after a step, likewise. *)
LEMMA AbstractStateNext == (\A n \in Counts : OutcomesAt(n) =>
                              /\ [i \in 1..Committed |-> slot[i].now] = RowsAt(n)
                              /\ (IF InDoubt THEN slot[Committed + 1].now ELSE Eof) = DoubtAt(n))'
<1>1. \A n \in Counts : OutcomesAt(n) =>
                              /\ [i \in 1..Committed |-> slot[i].now] = RowsAt(n)
                              /\ (IF InDoubt THEN slot[Committed + 1].now ELSE Eof) = DoubtAt(n)
  BY AbstractState
<1> QED BY <1>1, PTL

(* Every step of the journal is a step of the abstract table, or stutters. *)
LEMMA RefineStep == ASSUME DirSyncSupported, IInv, IInv', Next
                    PROVE  Abstract!Next \/ UNCHANGED Abstract!vars
<1>1. PICK n \in Counts : OutcomesAt(n)
  BY OutcomesShape
<1>2. PICK m \in Counts : OutcomesAt(m)'
  BY OutcomesShapeNext DEF Counts
<1> DEFINE R == RowsAt(n)
           R2 == [i \in 1..m |-> slot'[i].now]
           D == DoubtAt(n)
           D2 == IF m + 1 \in Outcomes' THEN slot'[m + 1].now ELSE Eof
           A == AckedRow
           A2 == IF Acked' THEN row' ELSE Eof
<1>type. /\ TypeOK /\ TypeOK' /\ MaxRows \in Nat /\ n \in Nat /\ m \in Nat
         /\ row \in Row /\ row' \in Row
  BY MaxRowsAssumption DEF IInv, TypeOK, Counts
<1>at. /\ n \in Outcomes /\ Outcomes \subseteq {n, n + 1}
       /\ m \in Outcomes' /\ Outcomes' \subseteq {m, m + 1}
  BY <1>1, <1>2 DEF OutcomesAt
<1>new. ASSUME NEW k \in Outcomes'
        PROVE  \/ k \in Outcomes
               \/ /\ pc = "unlink" /\ pc' = "syncUnlink"
                  /\ k = n + 1 /\ Outcomes = {n} /\ row_count = n /\ n \in Outcomes'
  <2>1. \/ k \in Outcomes
        \/ /\ pc = "unlink" /\ pc' = "syncUnlink"
           /\ k = row_count + 1 /\ Outcomes = {row_count} /\ row_count \in Outcomes'
    BY <1>type, OutcomesStep
  <2> QED BY <2>1, <1>at
<1>keep. /\ \A i \in 1..n : slot'[i] = slot[i]
         /\ n + 1 \in Outcomes => slot'[n + 1] = slot[n + 1]
  <2>1. \A i \in 1..n : slot'[i] = slot[i]
    BY <1>at, SlotsKept
  <2>2. ASSUME n + 1 \in Outcomes
        PROVE  slot'[n + 1] = slot[n + 1]
    <3>1. n + 1 \in 1..(n + 1)
      BY <1>type
    <3> QED BY <2>2, <3>1, SlotsKept
  <2> QED BY <2>1, <2>2
<1>doubt. n + 1 \in Outcomes => D \in Row /\ ~Acked
  <2>1. ASSUME n + 1 \in Outcomes
        PROVE  D \in Row
    <3>1. n + 1 \in 1..(n + 1)
      BY <1>type
    <3> QED BY <2>1, <3>1, RowCommitted DEF DoubtAt
  <2>2. ASSUME Acked
        PROVE  n + 1 \notin Outcomes
    <3>1. jnl.disk = {NoFile} /\ hdr.disk = {row_count}
      BY <2>2, CleanFacts DEF IInv, ReportInv
    <3>2. \A k \in Outcomes : k = row_count
      BY <3>1, <1>type, OutcomeMember
    <3> QED BY <3>2, <1>at, <1>type
  <2> QED BY <2>1, <2>2
<1>ack. Acked' => /\ row' = row
                  /\ \/ Acked
                     \/ /\ n + 1 \in Outcomes /\ D = row /\ m = n + 1
  <2>1. SUFFICES ASSUME Acked', ~Acked
                 PROVE  row' = row /\ n + 1 \in Outcomes /\ D = row /\ m = n + 1
    BY AckStep
  <2>2. /\ row' = row /\ row_count \in Outcomes /\ row_count + 1 \in Outcomes
        /\ slot[row_count + 1] = Clean(row) /\ row_count' = row_count + 1
    BY <2>1, AckStep
  <2>3. row_count = n
    BY <2>2, <1>at, <1>type DEF TypeOK, Counts
  <2>4. D = row
    BY <2>2, <2>3, CleanFacts DEF DoubtAt
  <2>5. jnl'.disk = {NoFile} /\ hdr'.disk = {row_count'}
    BY <2>1, CleanFacts DEF IInv, ReportInv
  <2>6. \A k \in Outcomes' : k = row_count'
    BY <2>5, <1>type, OutcomeMemberNext
  <2> QED BY <2>2, <2>3, <2>4, <2>6, <1>at
<1>same. m = n => R2 = R
  BY <1>keep DEF RowsAt
<1> HIDE DEF R, R2, D, D2, A, A2
<1>3. \/ R2 = R /\ D2 = D /\ A2 \in {A, Eof}
      \/ R2 = R /\ D = Eof /\ A = Eof /\ D2 \in Row /\ A2 = A
      \/ R2 = Append(R, D) /\ D # Eof /\ D2 = Eof /\ A2 \in {Eof, D}
      \/ R2 = R /\ D # Eof /\ D2 = Eof /\ A2 = A
  <2>1. CASE m = n /\ (n + 1 \in Outcomes <=> n + 1 \in Outcomes')
    <3>1. D2 = D
      BY <2>1, <1>keep DEF D, D2, DoubtAt
    <3>2. A2 \in {A, Eof}
      BY <2>1, <1>ack, <1>type DEF A, A2, AckedRow
    <3> QED BY <2>1, <3>1, <3>2, <1>same
  <2>2. CASE m = n /\ n + 1 \notin Outcomes /\ n + 1 \in Outcomes'
    <3>1. pc = "unlink" /\ pc' = "syncUnlink"
      BY <2>2, <1>new
    <3>2. ret = "pending" /\ ret' = "pending"
      BY <3>1 DEF IInv, InsertInv, InsertPc
    <3>3. A = Eof /\ A2 = Eof /\ D = Eof
      BY <2>2, <3>2 DEF A, A2, AckedRow, Acked, D, DoubtAt
    <3>4. D2 \in Row
      <4>1. n + 1 \in 1..(n + 1)
        BY <1>type
      <4>2. RowsOnDisk(n + 1)'
        BY <1>2, <2>2 DEF OutcomesAt
      <4> QED BY <2>2, <4>1, <4>2, CleanFacts DEF D2, RowsOnDisk
    <3> QED BY <2>2, <3>3, <3>4, <1>same
  <2>3. CASE m = n /\ n + 1 \in Outcomes /\ n + 1 \notin Outcomes'
    <3>1. D # Eof /\ D2 = Eof
      BY <2>3, <1>doubt, RowAssumption DEF D2
    <3>2. A2 = A
      BY <2>3, <1>ack, <1>doubt, <1>type DEF A, A2, AckedRow
    <3> QED BY <2>3, <3>1, <3>2, <1>same
  <2>4. CASE m = n + 1
    <3>1. n + 1 \in Outcomes
      BY <2>4, <1>at, <1>new, <1>type
    <3>2. n + 2 \notin Outcomes'
      BY <3>1, <1>at, <1>new, <1>type
    <3>3. D \in Row /\ D = slot[n + 1].now /\ D # Eof /\ D2 = Eof
      BY <2>4, <3>1, <3>2, <1>doubt, <1>type, RowAssumption DEF D, D2, DoubtAt
    <3>4. A2 \in {Eof, D}
      BY <3>1, <1>ack, <1>doubt DEF A2
    <3>5. R2 = Append(R, D)
      <4>1. R \in Seq(Row) /\ Len(R) = n /\ \A i \in 1..n : R[i] = slot[i].now
        BY <1>at, <1>type, RowCommitted DEF R, RowsAt
      <4>2. Append(R, D) = [i \in 1..(n + 1) |-> IF i = n + 1 THEN D ELSE R[i]]
        <5>1. /\ Append(R, D) \in Seq(Row)
              /\ Len(Append(R, D)) = Len(R) + 1
              /\ \A i \in 1..Len(R) : Append(R, D)[i] = R[i]
              /\ Append(R, D)[Len(R) + 1] = D
          BY <4>1, <3>3, AppendProperties
        <5>2. Append(R, D) = [i \in 1..(n + 1) |-> Append(R, D)[i]]
          BY <4>1, <5>1, LenProperties
        <5>3. ASSUME NEW i \in 1..(n + 1)
              PROVE  Append(R, D)[i] = IF i = n + 1 THEN D ELSE R[i]
          <6>1. CASE i = n + 1
            BY <6>1, <5>1, <4>1
          <6>2. CASE i # n + 1
            <7>1. i \in 1..Len(R)
              BY <6>2, <4>1, <1>type
            <7> QED BY <6>2, <7>1, <5>1
          <6> QED BY <6>1, <6>2
        <5> QED BY <5>2, <5>3
      <4>3. \A i \in 1..(n + 1) : slot'[i].now = IF i = n + 1 THEN D ELSE R[i]
        BY <4>1, <3>1, <3>3, <1>keep, <1>type
      <4> QED BY <2>4, <4>2, <4>3 DEF R2
    <3> QED BY <3>3, <3>4, <3>5
  <2>5. m \in {n, n + 1}
    BY <1>at, <1>new
  <2> QED BY <2>1, <2>2, <2>3, <2>4, <2>5
<1>4. /\ [i \in 1..Committed |-> slot[i].now] = R
      /\ (IF InDoubt THEN slot[Committed + 1].now ELSE Eof) = D
      /\ (IF Acked THEN row ELSE Eof) = A
  BY <1>1, AbstractState DEF R, D, A, AckedRow
<1>5. /\ [i \in 1..Committed |-> slot[i].now]' = R2
      /\ (IF InDoubt THEN slot[Committed + 1].now ELSE Eof)' = D2
      /\ (IF Acked THEN row ELSE Eof)' = A2
  BY <1>2, AbstractStateNext DEF R2, D2, A2, RowsAt, DoubtAt, Counts
<1> QED
  BY <1>3, <1>4, <1>5 DEF Abstract!Next, Abstract!Propose, Abstract!Commit, Abstract!Withdraw,
                          Abstract!Forget, Abstract!vars

(* A table just created is the empty sequence. *)
LEMMA RefineInit == Init => Abstract!Init
<1> SUFFICES ASSUME Init
             PROVE  Abstract!Init
  OBVIOUS
<1>1. IInv /\ jnl.disk = {NoFile} /\ hdr.disk = {0}
  BY InitIInv, CleanFacts DEF Init
<1>2. \A k : k \in Outcomes <=> k = 0
  BY <1>1, OutcomeMember DEF IInv
<1>3. Outcomes = {0}
  BY <1>2
<1>4. OutcomesAt(0)
  <2>1. PICK n \in Counts : OutcomesAt(n)
    BY <1>1, OutcomesShape
  <2>2. n = 0
    BY <2>1, <1>2 DEF OutcomesAt
  <2> QED BY <2>1, <2>2
<1>5. RowsAt(0) = << >>
  BY DEF RowsAt
<1>6. DoubtAt(0) = Eof
  BY <1>2 DEF DoubtAt
<1>7. ~Acked
  BY DEF Init, Acked
<1>8. 0 \in Counts
  BY MaxRowsAssumption DEF Counts
<1> QED BY <1>4, <1>5, <1>6, <1>7, <1>8, AbstractState DEF Abstract!Init

(***************************************************************************)
(* The crash-safe insert implements the atomic table: through every        *)
(* failure, crash and recovery, the committed rows form a sequence that    *)
(* only grows, one acknowledged or undecided row at a time.                *)
(***************************************************************************)
THEOREM JournalRefinesTable == ASSUME DirSyncSupported
                               PROVE  Spec => ImplementsAtomicTable
<1>1. IInv /\ IInv' /\ [Next]_vars => [Abstract!Next]_(Abstract!vars)
  <2>1. SUFFICES ASSUME IInv, IInv', [Next]_vars
                 PROVE  Abstract!Next \/ UNCHANGED Abstract!vars
    OBVIOUS
  <2>2. CASE Next
    BY <2>1, <2>2, RefineStep
  <2>3. CASE UNCHANGED vars
    BY <2>3 DEF vars, Abstract!vars, Committed, InDoubt, Outcomes, Acked
  <2> QED BY <2>1, <2>2, <2>3
<1> QED BY Invariance, RefineInit, <1>1, PTL DEF Spec, ImplementsAtomicTable, Abstract!Spec
=============================================================================
