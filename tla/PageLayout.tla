----------------------------- MODULE PageLayout -----------------------------
(***************************************************************************)
(* Where the rows of a table file lie (src/storage.c): a header, then      *)
(* pages of as many whole rows as fit, padding between the last row of a   *)
(* page and the next page.  Offsets are computed with the checked 64-bit   *)
(* arithmetic of src/util.c, and fseek takes a long.                       *)
(*                                                                         *)
(* The file is its length and the row count in its header.  InsertJournal  *)
(* has the steps of an insert and how a crash falls between them; here an  *)
(* insert completes at once or is cut short, and leaves the journal, any   *)
(* part of the row and either count for recovery to undo.                  *)
(***************************************************************************)
EXTENDS Integers

CONSTANTS
  HeaderSize,  \* STORAGE_HEADER_SIZE
  PageSize,    \* STORAGE_PAGE_SIZE
  RowSize,     \* STORAGE_ROW_SIZE
  LongMax,     \* LONG_MAX
  Word         \* 2^64: a uint64_t is below it

ASSUME SizeAssumption ==
  /\ HeaderSize \in Nat
  /\ RowSize \in Nat \ {0}
  /\ PageSize \in Nat
  /\ RowSize <= PageSize
ASSUME WordAssumption ==
  /\ LongMax \in Nat
  /\ Word \in Nat
  /\ HeaderSize <= LongMax
  /\ LongMax + RowSize < Word

VARIABLES
  row_count,  \* in the header
  file_size,  \* of the file
  journal     \* {} or {the journal of an insert that was cut short}

vars == <<row_count, file_size, journal>>

Failure == -1  \* a function that returned false

rows_per_page == PageSize \div RowSize

(* util_add_u64 and util_mul_u64 refuse a result that does not fit; sums   *)
(* and products only grow, so it is enough to look at the last.            *)
Checked(n) == IF n < Word THEN n ELSE Failure

(* Mutant: rows follow each other with no regard for pages. *)
OffsetUnpaged(row_number) == Checked(row_number * RowSize + HeaderSize)

storage_offset_for_row(row_number) ==
  LET page == row_number \div rows_per_page
      slot == row_number % rows_per_page
  IN  Checked(page * PageSize + slot * RowSize + HeaderSize)

storage_row_number_for_offset(offset) ==
  LET page   == (offset - HeaderSize) \div PageSize
      within == (offset - HeaderSize) % PageSize
      slot   == within \div RowSize
  IN  IF offset < HeaderSize \/ within % RowSize # 0 \/ slot >= rows_per_page THEN Failure
      ELSE Checked(page * rows_per_page + slot)

(* Mutant: any row that the file is long enough for. *)
IsValidByLength(offset, size, count) ==
  /\ storage_row_number_for_offset(offset) # Failure
  /\ offset + RowSize <= size

storage_is_valid_row_offset(offset, size, count) ==
  LET row_number == storage_row_number_for_offset(offset)
  IN  /\ row_number # Failure
      /\ row_number < count
      /\ storage_offset_for_row(row_number) = offset
      /\ Checked(offset + RowSize) # Failure
      /\ offset + RowSize <= size

(* Mutant: as if there were no pages. *)
LogicalSizeUnpaged(count) == Checked(count * RowSize + HeaderSize)

(* The length of a file with so many rows. *)
storage_logical_size(count) ==
  IF count = 0 THEN HeaderSize
  ELSE LET last_offset == storage_offset_for_row(count - 1)
       IN  IF last_offset = Failure THEN Failure ELSE Checked(last_offset + RowSize)

-----------------------------------------------------------------------------
Init ==
  /\ row_count = 0
  /\ file_size = HeaderSize
  /\ journal = {}

NextOffset == storage_offset_for_row(row_count)

(* The checks of storage_insert_row, before it writes the journal *)
HasRoom == NextOffset # Failure /\ NextOffset <= LongMax

(* No file reaches past the largest offset. *)
storage_insert_row ==
  /\ journal = {}
  /\ HasRoom
  /\ NextOffset + RowSize <= LongMax
  /\ row_count' = row_count + 1
  /\ file_size' = NextOffset + RowSize
  /\ UNCHANGED journal

(* The journal is written before the row and the row before the count.     *)
InsertCutShort ==
  /\ journal = {}
  /\ HasRoom
  /\ journal' = {[previous_count |-> row_count, intended_count |-> row_count + 1,
                  offset |-> NextOffset]}
  /\ \/ /\ file_size' \in {file_size} \union (NextOffset + 1)..(NextOffset + RowSize)
        /\ UNCHANGED row_count
     \/ /\ file_size' = NextOffset + RowSize
        /\ row_count' = row_count + 1
  /\ file_size' <= LongMax

(* What recovery wants of the counts and the offset in a journal *)
JournalAccepted(j) ==
  /\ j.intended_count = j.previous_count + 1
  /\ storage_offset_for_row(j.previous_count) # Failure
  /\ storage_offset_for_row(j.previous_count) = j.offset
  /\ storage_logical_size(j.previous_count) \in 0..LongMax

recover_insert_journal ==
  \E j \in journal :
    /\ JournalAccepted(j)
    /\ row_count' = j.previous_count
    /\ file_size' = storage_logical_size(j.previous_count)
    /\ journal' = {}

Next == storage_insert_row \/ InsertCutShort \/ recover_insert_journal

Spec == Init /\ [][Next]_vars

-----------------------------------------------------------------------------
Journals == [previous_count : Nat, intended_count : Nat, offset : Nat]

LayoutTypeOK ==
  /\ row_count \in Nat
  /\ file_size \in HeaderSize..LongMax
  /\ journal \in SUBSET Journals

(* An offset from an index file, whatever it is, is followed exactly when  *)
(* a row of the table begins there: never into the header, into the        *)
(* middle of a row, into padding or behind the last row that counts.       *)
ValidIffRow ==
  \A offset \in 0..(Word - 1) :
    storage_is_valid_row_offset(offset, file_size, row_count)
      <=> \E r \in 0..(row_count - 1) : storage_offset_for_row(r) = offset

(* Rows lie apart, each within one page.                                   *)
RowsApart ==
  \A r \in 0..(row_count - 1) :
    /\ \A s \in 0..(r - 1) : storage_offset_for_row(s) + RowSize <= storage_offset_for_row(r)
    /\ ((storage_offset_for_row(r) - HeaderSize) % PageSize) + RowSize <= PageSize

(* The rows that count before the insert under way.                        *)
KeptRows == IF journal = {} THEN row_count ELSE CHOOSE n \in {j.previous_count : j \in journal} : TRUE

(* The file always opens again, with every row in it: its header passes    *)
(* read_and_validate_header, or a journal that recovery accepts comes      *)
(* first; and nothing recovery cuts off belongs to a row that counts.      *)
TableOpens ==
  /\ storage_logical_size(row_count) \in 0..file_size
  /\ \A j \in journal : JournalAccepted(j)
  /\ \A r \in 0..(KeptRows - 1) : storage_offset_for_row(r) + RowSize <= file_size
=============================================================================
