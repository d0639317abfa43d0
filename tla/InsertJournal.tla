---------------------------- MODULE InsertJournal ----------------------------
(***************************************************************************)
(* The crash-safe insert of src/storage.c: one table file (a header that   *)
(* holds the row count, then row slots) and its rollback journal           *)
(* `<table>.tbl.journal'.  storage_insert_row publishes the journal, then  *)
(* changes the file in place, then unlinks the journal; a writable         *)
(* storage_open_table that finds a journal undoes the insert it describes. *)
(*                                                                         *)
(* Every system call that changes what a crash can leave is a step of its  *)
(* own, and each has its success and its failure; the process may die and  *)
(* the machine may lose power between any two.  One process works on the   *)
(* table (README: "Concurrent access is not supported"), and it closes the *)
(* handle of a call that failed, as executor.c does on each such path.     *)
(*                                                                         *)
(* Abstracted: row numbers are 1..MaxRows, slot[i] being row number i-1 of *)
(* the code; the bytes of rows and headers; the journal's fields other     *)
(* than previous_count, which alone recovery uses once it has checked the  *)
(* checksum; temporary files a crash leaves, whose names are never reused. *)
(***************************************************************************)
EXTENDS Integers, FiniteSetsExt, Durable

CONSTANTS
  Row,              \* the rows a client may insert
  MaxRows,          \* bound: row numbers at which the LONG_MAX guard stops
  Torn,             \* bytes of a write that was cut short
  Eof,              \* a slot beyond the end of the file
  NoFile,           \* no directory entry
  Malformed         \* a journal that fails recover_insert_journal's checks

ASSUME MaxRowsAssumption == MaxRows \in Nat \ {0}
ASSUME RowAssumption == Torn \notin Row /\ Eof \notin Row /\ Torn # Eof
ASSUME CountAssumption == {Torn, NoFile, Malformed} \intersect Int = {}
ASSUME JournalAssumption == NoFile # Malformed

VARIABLES
  hdr,        \* the row count in the table file's header
  slot,       \* the row slots of the table file
  jnl,        \* the journal's directory entry: the previous_count in it
  temp,       \* the temporary file the journal is built in
  pc,         \* where the process is
  mode,       \* "closed", "reader" or "writer": the open handle
  row_count,  \* Table.row_count of the latest handle
  previous,   \* previous_count, as recovery read it from the journal
  row,        \* the row being inserted, or inserted last
  call,       \* the latest call
  ret         \* what it returned, "pending" until it has

vars == <<hdr, slot, jnl, temp, pc, mode, row_count, previous, row, call, ret>>
table == <<hdr, slot>>
files == <<hdr, slot, jnl, temp>>
request == <<row_count, previous, row, call>>

Counts == 0..MaxRows
SlotValue == Row \union {Torn, Eof}
JournalValue == 0..(MaxRows - 1) \union {NoFile, Malformed}

InsertPc == {"makeTemp", "writeTemp", "rename", "syncDir", "writeRow", "syncRow",
             "writeHeader", "syncHeader", "unlink", "syncUnlink"}
OpenPc == {"readJournal", "restoreHeader", "syncRestored", "truncate",
           "syncTruncated", "dropJournal", "syncDropped", "validate"}
Status == {"pending", "TABLE_OK", "TABLE_READ_ONLY", "TABLE_IO_ERROR",
           "TABLE_DURABILITY_ERROR", "TABLE_CORRUPT", "TABLE_INCOMPATIBLE",
           "TABLE_RECOVERY_REQUIRED", "TABLE_ALLOC_ERROR", "none"}

TypeOK ==
  /\ hdr \in Cell(Counts \union {Torn})
  /\ slot \in [1..MaxRows -> Cell(SlotValue)]
  /\ jnl \in Cell(JournalValue)
  /\ temp \in Cell(JournalValue)
  /\ pc \in {"idle", "ready"} \union InsertPc \union OpenPc
  /\ mode \in {"closed", "reader", "writer"}
  /\ row_count \in Counts
  /\ previous \in 0..(MaxRows - 1)
  /\ row \in Row
  /\ call \in {"none", "open", "insert"}
  /\ ret \in Status

(* What storage_create_table leaves when it returns TABLE_CREATE_OK. *)
Init ==
  /\ hdr = Clean(0)
  /\ slot = [i \in 1..MaxRows |-> Clean(Eof)]
  /\ jnl = Clean(NoFile)
  /\ temp = Clean(NoFile)
  /\ pc = "idle"
  /\ mode = "closed"
  /\ row_count = 0
  /\ previous = 0
  /\ row \in Row
  /\ call = "none"
  /\ ret = "none"

-----------------------------------------------------------------------------
(* Control: a step within a call, and the two ways a call ends. *)

Step(from, to) ==
  /\ pc = from
  /\ pc' = to
  /\ UNCHANGED <<mode, request, ret>>

(* An error return; the caller closes the table. *)
Fail(from, statuses) ==
  /\ pc = from
  /\ pc' = "idle"
  /\ mode' = "closed"
  /\ ret' \in statuses
  /\ UNCHANGED request

Start(name, at) ==
  /\ pc' = at
  /\ call' = name
  /\ ret' = "pending"

(* Mutant: a flush without the fsync. *)
FlushTable == UNCHANGED table

SyncTable ==
  /\ hdr' = Sync(hdr)
  /\ slot' = [i \in 1..MaxRows |-> Sync(slot[i])]

-----------------------------------------------------------------------------
(* storage_insert_row *)

next == row_count + 1

(* Mutant: no guard on the row's offset. *)
BeginInsertUnguarded ==
  /\ pc = "ready"
  /\ mode = "writer"
  /\ row' \in Row
  /\ Start("insert", "makeTemp")
  /\ UNCHANGED <<files, mode, row_count, previous>>

BeginInsert ==
  /\ pc = "ready"
  /\ mode = "writer"
  /\ row_count < MaxRows
  /\ row' \in Row
  /\ Start("insert", "makeTemp")
  /\ UNCHANGED <<files, mode, row_count, previous>>

(* The checks that come before anything is written. *)
RejectInsert ==
  /\ pc = "ready"
  /\ \/ mode = "reader" /\ ret' = "TABLE_READ_ONLY"
     \/ mode = "writer" /\ row_count = MaxRows /\ ret' = "TABLE_IO_ERROR"
  /\ row' \in Row
  /\ call' = "insert"
  /\ pc' = "idle"
  /\ mode' = "closed"
  /\ UNCHANGED <<files, row_count, previous>>

(* persist_insert_journal: create, fill and sync a temporary file, give it *)
(* the journal's name, sync the directory.                                 *)
MakeTemp ==
  \/ /\ Step("makeTemp", "writeTemp")
     /\ temp' = Clean(Malformed)
     /\ UNCHANGED <<table, jnl>>
  \/ /\ Fail("makeTemp", {"TABLE_READ_ONLY", "TABLE_DURABILITY_ERROR"})
     /\ UNCHANGED files

WriteTemp ==
  /\ \/ /\ Step("writeTemp", "rename")
        /\ temp' = Sync(Write(temp, row_count, {Malformed}))
     \/ /\ Fail("writeTemp", {"TABLE_DURABILITY_ERROR"})
        /\ temp' = Clean(NoFile)
  /\ UNCHANGED <<table, jnl>>

RenameTemp ==
  /\ \/ /\ Step("rename", "syncDir")
        /\ jnl' = [now |-> temp.now, disk |-> jnl.disk \union temp.disk]
     \/ /\ Fail("rename", {"TABLE_READ_ONLY", "TABLE_DURABILITY_ERROR"})
        /\ UNCHANGED jnl
  /\ temp' = Clean(NoFile)
  /\ UNCHANGED table

SyncJournalEntry ==
  /\ \/ /\ Step("syncDir", "writeRow")
        /\ jnl' = util_sync_parent_directory(jnl)
     \/ /\ Fail("syncDir", {"TABLE_DURABILITY_ERROR"})
        /\ UNCHANGED jnl
  /\ UNCHANGED <<table, temp>>

(* The row passes through a stdio buffer: it reaches the file here or when *)
(* SyncRow flushes it.                                                     *)
WriteRow ==
  /\ \/ /\ Step("writeRow", "syncRow")
        /\ slot' \in {slot, [slot EXCEPT ![next] = Write(@, row, {Torn})]}
     \/ /\ Fail("writeRow", {"TABLE_IO_ERROR"})
        /\ \E c \in FailedWrite(slot[next], row, {Torn}) : slot' = [slot EXCEPT ![next] = c]
  /\ UNCHANGED <<hdr, jnl, temp>>

SyncRow ==
  /\ \/ /\ Step("syncRow", "writeHeader")
        /\ hdr' = Sync(hdr)
        /\ slot' = [i \in 1..MaxRows |-> IF i = next THEN Clean(row) ELSE Sync(slot[i])]
     \/ /\ Fail("syncRow", {"TABLE_IO_ERROR", "TABLE_DURABILITY_ERROR"})
        /\ \E c \in FailedWrite(slot[next], row, {Torn}) : slot' = [slot EXCEPT ![next] = c]
        /\ UNCHANGED hdr
  /\ UNCHANGED <<jnl, temp>>

WriteHeader ==
  /\ \/ /\ Step("writeHeader", "syncHeader")
        /\ hdr' = Write(hdr, next, {Torn})
     \/ /\ Fail("writeHeader", {"TABLE_IO_ERROR", "TABLE_DURABILITY_ERROR"})
        /\ hdr' \in FailedWrite(hdr, next, {Torn})
  /\ UNCHANGED <<slot, jnl, temp>>

SyncHeader ==
  /\ \/ /\ Step("syncHeader", "unlink")
        /\ SyncTable
     \/ /\ Fail("syncHeader", {"TABLE_DURABILITY_ERROR"})
        /\ UNCHANGED table
  /\ UNCHANGED <<jnl, temp>>

UnlinkJournal ==
  /\ \/ /\ Step("unlink", "syncUnlink")
        /\ jnl' = Write(jnl, NoFile, {})
     \/ /\ Fail("unlink", {"TABLE_DURABILITY_ERROR"})
        /\ UNCHANGED jnl
  /\ UNCHANGED <<table, temp>>

(* Mutant: a failed last sync is reported as if nothing had been done. *)
FinishInsertMisreported ==
  /\ \/ /\ pc = "syncUnlink"
        /\ pc' = "ready"
        /\ ret' = "TABLE_OK"
        /\ row_count' = next
        /\ jnl' = util_sync_parent_directory(jnl)
        /\ UNCHANGED <<mode, previous, row, call>>
     \/ /\ Fail("syncUnlink", {"TABLE_IO_ERROR"})
        /\ UNCHANGED jnl
  /\ UNCHANGED <<table, temp>>

(* Mutant: acknowledged without the last sync. *)
FinishInsertUnsynced ==
  /\ \/ /\ pc = "syncUnlink"
        /\ pc' = "ready"
        /\ ret' = "TABLE_OK"
        /\ row_count' = next
        /\ UNCHANGED <<jnl, mode, previous, row, call>>
     \/ /\ Fail("syncUnlink", {"TABLE_DURABILITY_ERROR"})
        /\ UNCHANGED jnl
  /\ UNCHANGED <<table, temp>>

(* The last sync, after which the insert is acknowledged. *)
FinishInsert ==
  /\ \/ /\ pc = "syncUnlink"
        /\ pc' = "ready"
        /\ ret' = "TABLE_OK"
        /\ row_count' = next
        /\ jnl' = util_sync_parent_directory(jnl)
        /\ UNCHANGED <<mode, previous, row, call>>
     \/ /\ Fail("syncUnlink", {"TABLE_DURABILITY_ERROR"})
        /\ UNCHANGED jnl
  /\ UNCHANGED <<table, temp>>

-----------------------------------------------------------------------------
(* storage_open_table, storage_open_table_readonly, storage_close_table *)

(* A header that was not cut short, in a file long enough for the rows it  *)
(* counts.                                                                 *)
HeaderValid ==
  /\ hdr.now \in Counts
  /\ hdr.now = 0 \/ \E i \in 1..MaxRows : i >= hdr.now /\ slot[i].now # Eof

(* Mutant: the handle keeps the row count of the one before. *)
OpenedStale(handle) ==
  /\ pc' = "ready"
  /\ mode' = handle
  /\ row_count' = row_count
  /\ ret' = "TABLE_OK"

Opened(handle) ==
  /\ pc' = "ready"
  /\ mode' = handle
  /\ row_count' = hdr.now
  /\ ret' = "TABLE_OK"

OpenTable ==
  /\ pc = "idle"
  /\ call' = "open"
  /\ \/ pc' = "readJournal" /\ ret' = "pending"
     \/ pc' = "idle" /\ ret' \in {"TABLE_ALLOC_ERROR", "TABLE_READ_ONLY", "TABLE_IO_ERROR"}
  /\ UNCHANGED <<files, mode, row_count, previous, row>>

OpenReadonly ==
  /\ pc = "idle"
  /\ call' = "open"
  /\ \/ /\ jnl.now = NoFile
        /\ HeaderValid
        /\ Opened("reader")
     \/ /\ ret' \in {"TABLE_ALLOC_ERROR", "TABLE_IO_ERROR"} \union
              IF jnl.now # NoFile THEN {"TABLE_RECOVERY_REQUIRED"}
              ELSE {"TABLE_CORRUPT", "TABLE_INCOMPATIBLE"}
        /\ UNCHANGED <<pc, mode, row_count>>
  /\ UNCHANGED <<files, previous, row>>

(* recover_insert_journal *)
ReadJournal ==
  /\ \/ /\ jnl.now = NoFile
        /\ Step("readJournal", "validate")
     \/ /\ jnl.now \notin {NoFile, Malformed}
        /\ pc = "readJournal"
        /\ pc' = "restoreHeader"
        /\ previous' = jnl.now
        /\ UNCHANGED <<mode, row_count, row, call, ret>>
     \/ Fail("readJournal", {"TABLE_DURABILITY_ERROR", "TABLE_CORRUPT"})
  /\ UNCHANGED files

RestoreHeader ==
  /\ \/ /\ Step("restoreHeader", "syncRestored")
        /\ hdr' = Write(hdr, previous, {Torn})
     \/ /\ Fail("restoreHeader", {"TABLE_DURABILITY_ERROR"})
        /\ hdr' \in FailedWrite(hdr, previous, {Torn})
  /\ UNCHANGED <<slot, jnl, temp>>

SyncRestored ==
  /\ \/ /\ Step("syncRestored", "truncate")
        /\ SyncTable
     \/ /\ Fail("syncRestored", {"TABLE_DURABILITY_ERROR"})
        /\ UNCHANGED table
  /\ UNCHANGED <<jnl, temp>>

(* Mutant: one row too few is left. *)
TruncatedShort(n) ==
  [i \in 1..MaxRows |-> IF i >= n THEN Write(slot[i], Eof, {}) ELSE slot[i]]

(* ftruncate cuts the file after n rows, or extends it with bytes that are *)
(* no row anybody inserted.                                                *)
TruncatedTo(n) ==
  [i \in 1..MaxRows |-> IF i > n THEN Write(slot[i], Eof, {})
                        ELSE IF slot[i].now = Eof THEN Write(slot[i], Torn, {})
                        ELSE slot[i]]

Truncate ==
  /\ \/ /\ Step("truncate", "syncTruncated")
        /\ slot' = TruncatedTo(previous)
     \/ /\ Fail("truncate", {"TABLE_DURABILITY_ERROR"})
        /\ UNCHANGED slot
  /\ UNCHANGED <<hdr, jnl, temp>>

SyncTruncated ==
  /\ \/ /\ Step("syncTruncated", "dropJournal")
        /\ SyncTable
     \/ /\ Fail("syncTruncated", {"TABLE_DURABILITY_ERROR"})
        /\ UNCHANGED table
  /\ UNCHANGED <<jnl, temp>>

(* Mutant: recovery leaves the journal where it is. *)
DropJournalKept ==
  /\ \/ Step("dropJournal", "syncDropped")
     \/ Fail("dropJournal", {"TABLE_DURABILITY_ERROR"})
  /\ UNCHANGED files

DropJournal ==
  /\ \/ /\ Step("dropJournal", "syncDropped")
        /\ jnl' = Write(jnl, NoFile, {})
     \/ /\ Fail("dropJournal", {"TABLE_DURABILITY_ERROR"})
        /\ UNCHANGED jnl
  /\ UNCHANGED <<table, temp>>

SyncDropped ==
  /\ \/ /\ Step("syncDropped", "validate")
        /\ jnl' = util_sync_parent_directory(jnl)
     \/ /\ Fail("syncDropped", {"TABLE_DURABILITY_ERROR"})
        /\ UNCHANGED jnl
  /\ UNCHANGED <<table, temp>>

(* read_and_validate_header *)
Validate ==
  /\ \/ /\ pc = "validate"
        /\ HeaderValid
        /\ Opened("writer")
        /\ UNCHANGED <<previous, row, call>>
     \/ Fail("validate", {"TABLE_IO_ERROR", "TABLE_CORRUPT", "TABLE_INCOMPATIBLE"})
  /\ UNCHANGED files

CloseTable ==
  /\ pc = "ready"
  /\ pc' = "idle"
  /\ mode' = "closed"
  /\ UNCHANGED <<files, request, ret>>

(* The index, and other tables, live in the same directory: persisting an  *)
(* index (index_persist) syncs the journal's entry too.                    *)
SyncDirectory ==
  /\ pc \in {"idle", "ready"}
  /\ jnl' = util_sync_parent_directory(jnl)
  /\ UNCHANGED <<table, temp, pc, mode, request, ret>>

-----------------------------------------------------------------------------
(* The process dies: what it wrote stays, its handle and temporary file go *)
(* out of use.  The machine loses power: every cell falls back to a value  *)
(* that may be on disk.                                                    *)

Restart ==
  /\ pc' = "idle"
  /\ mode' = "closed"
  /\ temp' = Clean(NoFile)
  /\ call' = "none"
  /\ ret' = "none"
  /\ UNCHANGED <<row_count, previous, row>>

ProcessCrash ==
  /\ pc # "idle"
  /\ Restart
  /\ UNCHANGED <<table, jnl>>

PowerLoss ==
  /\ Restart
  /\ \E h \in hdr.disk : hdr' = Clean(h)
  /\ \E j \in jnl.disk : jnl' = Clean(j)
  /\ \E s \in [1..MaxRows -> UNION {slot[i].disk : i \in 1..MaxRows}] :
       /\ \A i \in 1..MaxRows : s[i] \in slot[i].disk
       /\ slot' = [i \in 1..MaxRows |-> Clean(s[i])]

Insert == BeginInsert \/ RejectInsert
Publish == MakeTemp \/ WriteTemp \/ RenameTemp \/ SyncJournalEntry
Apply == WriteRow \/ SyncRow \/ WriteHeader \/ SyncHeader
Retire == UnlinkJournal \/ FinishInsert
Recover == \/ ReadJournal \/ RestoreHeader \/ SyncRestored \/ Truncate
           \/ SyncTruncated \/ DropJournal \/ SyncDropped \/ Validate

Next ==
  \/ OpenTable \/ OpenReadonly \/ CloseTable \/ Insert
  \/ Publish \/ Apply \/ Retire \/ Recover \/ SyncDirectory
  \/ ProcessCrash \/ PowerLoss

Spec == Init /\ [][Next]_vars

-----------------------------------------------------------------------------
(***************************************************************************)
(* What the table holds, as a writable open will report it: a journal      *)
(* overrules the header.  Outcomes are the row counts that can come of the *)
(* present state, whether or not the power fails before that open.         *)
(***************************************************************************)
Exposed(j, h) == IF j = NoFile THEN h ELSE j

Outcomes == {Exposed(j, h) : j \in jnl.disk, h \in hdr.disk}

(* The rows that are there whatever happens next. *)
Committed == Min(Outcomes)

Acked == call = "insert" /\ ret = "TABLE_OK"

(***************************************************************************)
(* Whatever the instant, a power loss leaves the old table or the new one: *)
(* the journal is whole, no torn header is ever exposed, the two possible  *)
(* row counts differ by the one insert at hand, and every row they expose  *)
(* is on disk in full (README, "Durability and crash recovery": "the old   *)
(* committed state or the new committed state, never a partially           *)
(* initialized row").                                                      *)
(***************************************************************************)
OldOrNew ==
  /\ Malformed \notin jnl.disk
  /\ \E n \in Counts : /\ n \in Outcomes
                       /\ Outcomes \subseteq {n, n + 1} \intersect Counts
  /\ \A n \in Outcomes : \A i \in 1..n : \E r \in Row : slot[i] = Clean(r)

(***************************************************************************)
(* An insert that returned TABLE_OK survives any power loss: its row is on *)
(* disk and no outcome is without it (README: "A successful INSERT means   *)
(* the row and updated table header have been flushed and synchronized to  *)
(* stable storage").                                                       *)
(***************************************************************************)
AckedIsDurable ==
  Acked => Outcomes = {row_count} /\ slot[row_count] = Clean(row)

(***************************************************************************)
(* An insert that reported anything but success or TABLE_DURABILITY_ERROR  *)
(* did not happen and never will: no crash or recovery brings its row back *)
(* (test_main.c injects the faults and finds the old row count).           *)
(***************************************************************************)
RejectedStaysOut ==
  call = "insert" /\ ret \in {"TABLE_IO_ERROR", "TABLE_READ_ONLY"}
    => \A n \in Outcomes : n <= row_count

(***************************************************************************)
(* An open handle agrees with the file: its row_count is the header's, the *)
(* header is on disk, the rows under it are whole, and no journal is       *)
(* waiting to undo them - so a reader never sees a half-done insert, and   *)
(* the next insert goes where the last one ended.                          *)
(***************************************************************************)
HandleMatchesFile ==
  pc = "ready" => /\ mode # "closed"
                  /\ jnl.now = NoFile
                  /\ hdr = Clean(row_count)
                  /\ \A i \in 1..row_count : slot[i].now \in Row

(***************************************************************************)
(* No step, crash or recovery ever takes back or alters a row that was     *)
(* committed before it.                                                    *)
(***************************************************************************)
KeepsCommitted ==
  /\ Committed <= Committed'
  /\ \A i \in 1..Committed : slot[i]' = slot[i]

CommittedNeverShrinks == [][KeepsCommitted]_vars

(***************************************************************************)
(* The journalled table implements the atomic one: the committed rows are  *)
(* its rows, a second outcome is its row in doubt, and an insert that      *)
(* returned TABLE_OK its acknowledged row.                                 *)
(***************************************************************************)
InDoubt == Outcomes # {Committed}

Abstract == INSTANCE AtomicTable WITH
  NoRow <- Eof,
  rows  <- [i \in 1..Committed |-> slot[i].now],
  doubt <- IF InDoubt THEN slot[Committed + 1].now ELSE Eof,
  acked <- IF Acked THEN row ELSE Eof

ImplementsAtomicTable == Abstract!Spec

-----------------------------------------------------------------------------
(* Any step that is not the program's successful progress or a client's    *)
(* choice: a system call fails, the process dies, the power goes.          *)
Fault ==
  \/ ProcessCrash
  \/ PowerLoss
  \/ pc \in InsertPc \union OpenPc /\ pc' = "idle"
  \/ OpenTable /\ pc' = "idle"

(***************************************************************************)
(* From some point on nothing fails.  A call that has begun goes on to its *)
(* end, and a client whose table is closed in the end opens it for         *)
(* writing again, as the next INSERT statement does.                       *)
(***************************************************************************)
CalmSpec ==
  /\ Spec
  /\ <>[][~Fault]_vars
  /\ WF_vars(Publish \/ Apply \/ Retire \/ Recover)
  /\ WF_vars(OpenTable)

(***************************************************************************)
(* Recovery gets somewhere: once nothing fails any more, no journal keeps  *)
(* the table unreadable for ever (with a journal present every read-only   *)
(* open returns TABLE_RECOVERY_REQUIRED), however many inserts and         *)
(* recoveries were cut short before.                                       *)
(***************************************************************************)
JournalGoes == []<>(jnl.now = NoFile)
=============================================================================
