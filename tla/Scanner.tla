------------------------------- MODULE Scanner -------------------------------
(***************************************************************************)
(* The row iterator of src/storage.c, row by row, and the four loops built *)
(* on it: the duplicate check of an INSERT (storage_find_id), a SELECT     *)
(* without a usable index (select_with_scan), storage_select_all_rows and  *)
(* the scan of an index rebuild.  The table is that of PageLayout: between *)
(* scans it grows, is cut short and recovered.  A read may fail at any     *)
(* row, and the file may lose its end under a scan.                        *)
(*                                                                         *)
(* A row stands for its id.  The iterator's own copy of the row count is   *)
(* that of the open table, which no scan changes.                          *)
(***************************************************************************)
EXTENDS PageLayout

CONSTANTS
  Ids,      \* the ids of rows
  Any       \* no WHERE clause

ASSUME IdAssumption == Any \notin Ids

VARIABLES
  ids,       \* the id of each row that counts, from row 0 on
  caller,    \* "none", or the loop that scans
  wanted,    \* the id it looks for
  next_row,  \* of the RowScanner
  taken,     \* the rows it has returned, printed, copied or indexed
  result     \* "none", or how the loop ended

scanVars == <<caller, wanted, next_row, taken, result>>
allVars == <<vars, ids, scanVars>>

Callers == {"find", "where", "all", "rebuild"}
Results == {"SCAN_OK", "SCAN_END", "SCAN_CORRUPT", "SCAN_IO_ERROR",
            "ALLOC_ERROR", "INDEX_DUPLICATE_PRIMARY_KEY"}

Rows == 0..(row_count - 1)

ScanInit ==
  /\ Init
  /\ ids = [r \in Rows |-> Any]
  /\ caller = "none"
  /\ wanted = Any
  /\ next_row = 0
  /\ taken = {}
  /\ result = "none"

-----------------------------------------------------------------------------
(* What opening the table for reading asks of it *)
Opens == journal = {} /\ storage_logical_size(row_count) \in 0..file_size

(* Between scans: inserts and recovery.  A row keeps its id. *)
TableStep ==
  /\ caller = "none"
  /\ journal = {} => Opens
  /\ Next
  /\ ids' \in [0..(row_count' - 1) -> Ids]
  /\ \A r \in DOMAIN ids \intersect DOMAIN ids' : ids'[r] = ids[r]
  /\ UNCHANGED scanVars

storage_scan_begin ==
  /\ caller = "none"
  /\ Opens
  /\ caller' \in Callers
  /\ wanted' \in Ids \union {Any}
  /\ caller' = "find" => wanted' # Any
  /\ caller' \in {"all", "rebuild"} => wanted' = Any
  /\ next_row' = 0
  /\ taken' = {}
  /\ UNCHANGED <<vars, ids, result>>

(* The file loses bytes at its end, by another hand. *)
LoseBytes ==
  /\ journal = {}
  /\ file_size' \in HeaderSize..file_size
  /\ UNCHANGED <<row_count, journal, ids, scanVars>>

(* Mutant: rows are looked for one behind the other, whatever the pages. *)
OffsetIgnoringPages == HeaderSize + (next_row * RowSize)

Offset == storage_offset_for_row(next_row)

Readable == storage_is_valid_row_offset(Offset, file_size, row_count)

(* The row that lies where the iterator reads *)
RowRead == storage_row_number_for_offset(Offset)

(* The loop has another row to read, and can. *)
Reads(c) == caller = c /\ result = "none" /\ next_row < row_count /\ Readable

(* storage_scan_next gives a row, of which the loop keeps so much. *)
NextRow(kept) ==
  /\ next_row' = next_row + 1
  /\ taken' = taken \union kept
  /\ UNCHANGED <<vars, ids, caller, wanted>>

Stop(status) ==
  /\ caller # "none" /\ result = "none"
  /\ result' = status
  /\ UNCHANGED <<vars, ids, caller, wanted, next_row, taken>>

-----------------------------------------------------------------------------
(* The four loops, for a row that could be read *)

storage_find_id ==
  /\ Reads("find")
  /\ NextRow(IF ids[RowRead] = wanted THEN {RowRead} ELSE {})
  /\ result' = IF ids[RowRead] = wanted THEN "SCAN_OK" ELSE "none"

(* Without a WHERE every row matches. *)
Matches(r) == wanted \in {Any, ids[r]}

select_with_scan ==
  /\ Reads("where")
  /\ NextRow({r \in {RowRead} : Matches(r)})
  /\ UNCHANGED result

storage_select_all_rows ==
  /\ Reads("all")
  /\ NextRow({RowRead})
  /\ UNCHANGED result

(* Mutant: the rebuild keeps the first row of an id. *)
RebuildLeniently ==
  /\ Reads("rebuild")
  /\ NextRow({RowRead})
  /\ UNCHANGED result

(* index_insert finds the id taken, or succeeds.  *)
index_rebuild_from_table ==
  /\ Reads("rebuild")
  /\ IF \E r \in taken : ids[r] = ids[RowRead]
     THEN NextRow({}) /\ result' = "INDEX_DUPLICATE_PRIMARY_KEY"
     ELSE NextRow({RowRead}) /\ UNCHANGED result

-----------------------------------------------------------------------------
(* How storage_scan_next stops a loop *)

(* Mutant: past the last row, instead of at it. *)
ScanEndLate == next_row > row_count /\ Stop("SCAN_END")

ScanEnd == next_row >= row_count /\ Stop("SCAN_END")

ScanCorrupt ==
  /\ next_row < row_count
  /\ ~Readable
  /\ Stop("SCAN_CORRUPT")

(* Mutant: an error midway ends a loop as its end does. *)
ScanIOErrorAsEnd == next_row < row_count /\ Stop("SCAN_END")

ScanIOError == next_row < row_count /\ Stop("SCAN_IO_ERROR")

(* The array, the index or an entry of it cannot be allocated. *)
OutOfMemory ==
  /\ caller \in {"all", "rebuild"}
  /\ caller = "all" => next_row = 0
  /\ Stop("ALLOC_ERROR")

Close ==
  /\ result # "none"
  /\ caller' = "none"
  /\ wanted' = Any
  /\ next_row' = 0
  /\ taken' = {}
  /\ result' = "none"
  /\ UNCHANGED <<vars, ids>>

ScanStep ==
  \/ storage_find_id \/ select_with_scan \/ storage_select_all_rows
  \/ index_rebuild_from_table
  \/ ScanEnd \/ ScanCorrupt \/ ScanIOError \/ OutOfMemory

ScanNext == TableStep \/ storage_scan_begin \/ LoseBytes \/ ScanStep \/ Close

ScanSpec == ScanInit /\ [][ScanNext]_allVars

(* The loops wait for nobody. *)
FairScanSpec == ScanSpec /\ WF_allVars(ScanStep)

-----------------------------------------------------------------------------
ScanTypeOK ==
  /\ LayoutTypeOK
  /\ ids \in [Rows -> Ids]
  /\ caller \in Callers \union {"none"}
  /\ wanted \in Ids \union {Any}
  /\ next_row \in 0..row_count
  /\ taken \in SUBSET Rows
  /\ result \in Results \union {"none"}

Seen == {r \in Rows : r < next_row}

(* What each loop has made of the rows so far: a SELECT that fails midway  *)
(* has printed exactly the matching rows it came to, and the duplicate     *)
(* check has not passed over its id.                                       *)
LoopsAreExact ==
  /\ caller = "where" => taken = {r \in Seen : Matches(r)}
  /\ caller = "all" => taken = Seen
  /\ caller = "find" => taken = {r \in Seen : ids[r] = wanted}
  /\ caller = "rebuild" =>
       /\ \A r \in Seen : \E s \in taken : ids[s] = ids[r]
       /\ \A r, s \in taken : ids[r] = ids[s] => r = s

(* How a loop ended is true of the table: an id is reported absent only if *)
(* no row has it, found only where it first stands, "duplicate" only if    *)
(* two rows share an id; and a rebuild or a SELECT that succeeded has been *)
(* through every row.  A read that failed is never an absent id.           *)
ResultsAreTrue ==
  /\ result = "SCAN_END" =>
       /\ caller = "find" => \A r \in Rows : ids[r] # wanted
       /\ caller = "where" => taken = {r \in Rows : Matches(r)}
       /\ caller \in {"all", "rebuild"} => taken = Rows
       /\ caller = "rebuild" => \A r, s \in Rows : ids[r] = ids[s] => r = s
  /\ result = "SCAN_OK" =>
       \E r \in taken : /\ taken = {r}
                        /\ ids[r] = wanted
                        /\ \A s \in 0..(r - 1) : ids[s] # wanted
  /\ result = "INDEX_DUPLICATE_PRIMARY_KEY" =>
       \E r, s \in Rows : r # s /\ ids[r] = ids[s]

(* Corruption is reported only of a file that has lost part of a row: none *)
(* that inserts, crashes and recovery leave is ever refused.               *)
OnlyDamageIsCorrupt ==
  result = "SCAN_CORRUPT" => file_size < storage_logical_size(row_count)

(* Every scan ends, however the file shrinks under it. *)
ScansEnd == (caller # "none") ~> (result # "none")
=============================================================================
