---------------------------- MODULE JournalRecord ----------------------------
(***************************************************************************)
(* The journal of src/storage.c as the bytes of a file: how an insert's    *)
(* record is encoded, what recovery asks of a file before it restores the  *)
(* count and cuts the table off, and what becomes of a file that is not    *)
(* the one an insert wrote.  PageLayout, which this module implements, has *)
(* the record as its fields.                                               *)
(*                                                                         *)
(* A byte has Byte values, an unsigned number of Width bytes; uint32_t and *)
(* uint64_t have one width here.                                           *)
(***************************************************************************)
EXTENDS PageLayout, Sequences, FiniteSetsExt

CONSTANTS
  Byte,          \* 256
  Width,         \* bytes of a number
  Magic, Version,\* JOURNAL_MAGIC, JOURNAL_VERSION
  Basis, Prime,  \* FNV-1a
  ExclusiveOr(_, _), \* ^ of a number and a byte
  NameCapacity,  \* SQL_TABLE_NAME_CAPACITY
  PaddingSize,   \* behind the checksum
  Name,          \* of the table: its characters
  OtherNames,    \* of other tables
  InsertedRows   \* what an insert may insert: RowSize bytes

VARIABLES
  file,     \* {} or {the bytes of the journal file}
  touched,  \* the file is not as the insert left it
  answer    \* of the latest recovery

recordVars == <<vars, file, touched, answer>>

-----------------------------------------------------------------------------
(* Little-endian numbers *)

Bytes == 0..(Byte - 1)
Numbers == 0..(Word - 1)

(* What a shift by i bytes multiplies by *)
Power[i \in 0..Width] == IF i = 0 THEN 1 ELSE Power[i - 1] * Byte

put(n) == [i \in 1..Width |-> (n \div Power[i - 1]) % Byte]

get(bytes, at) ==
  LET value[i \in 0..Width] ==
        IF i = 0 THEN 0 ELSE value[i - 1] + bytes[at + i] * Power[i - 1]
  IN  value[Width]

Zeros(n) == [i \in 1..n |-> 0]

(* Where the fields begin, counted from 0 *)
SizeAt == 2 * Width
ReservedAt == 3 * Width
PreviousAt == 4 * Width
IntendedAt == 5 * Width
OffsetAt == 6 * Width
NameAt == 7 * Width
RowAt == NameAt + NameCapacity
ChecksumAt == RowAt + RowSize
JournalSize == ChecksumAt + Width + PaddingSize

Overlay(bytes, at, part) ==
  [i \in 1..Len(bytes) |-> IF i \in (at + 1)..(at + Len(part)) THEN part[i - at] ELSE bytes[i]]

Hashed(bytes) ==
  LET hash[i \in 0..Len(bytes)] ==
        IF i = 0 THEN Basis ELSE (ExclusiveOr(hash[i - 1], bytes[i]) * Prime) % Word
  IN  hash[Len(bytes)]

(* Mutant: the padding behind the checksum is not part of the sum. *)
ChecksumOfFields(bytes) == Hashed(SubSeq(bytes, 1, ChecksumAt))

journal_checksum(bytes) == Hashed(Overlay(bytes, ChecksumAt, Zeros(Width)))

persist_insert_journal(j, name, row) ==
  LET format == Overlay(Overlay(Overlay(Zeros(JournalSize),
                  0, put(Magic)), Width, put(Version)), SizeAt, put(JournalSize))
      counts == Overlay(Overlay(Overlay(format, PreviousAt, put(j.previous_count)),
                  IntendedAt, put(j.intended_count)), OffsetAt, put(j.offset))
      fields == Overlay(Overlay(counts, NameAt, name), RowAt, row)
  IN  Overlay(fields, ChecksumAt, put(journal_checksum(fields)))

ASSUME NumberAssumption ==
  /\ Byte \in Nat \ {0}
  /\ Width \in Nat \ {0}
  /\ Power[Width] = Word
ASSUME FormatAssumption ==
  /\ NameCapacity \in Nat \ {0}
  /\ PaddingSize \in Nat
  /\ {Magic, Version, JournalSize, Basis} \subseteq Numbers
ASSUME XorAssumption ==
  \A n \in Numbers, b \in Bytes :
    /\ ExclusiveOr(n, b) \in Numbers
    /\ \A m \in Numbers : ExclusiveOr(m, b) = ExclusiveOr(n, b) => m = n
    /\ \A c \in Bytes : ExclusiveOr(n, c) = ExclusiveOr(n, b) => c = b
(* An odd number: a product tells, of a power of two, what was multiplied. *)
ASSUME PrimeAssumption ==
  /\ Prime \in Nat
  /\ \A m, n \in Numbers : (m * Prime) % Word = (n * Prime) % Word => m = n
ASSUME NameAssumption ==
  /\ \A name \in OtherNames \union {Name} :
       Len(name) \in 0..(NameCapacity - 1) /\ name \in [1..Len(name) -> Bytes \ {0}]
  /\ Name \notin OtherNames
ASSUME RowAssumption ==
  \A row \in InsertedRows : Len(row) = RowSize /\ row \in [1..RowSize -> Bytes]

-----------------------------------------------------------------------------
RecordInit ==
  /\ Init
  /\ file = {}
  /\ touched = FALSE
  /\ answer = "none"

Insert == storage_insert_row /\ answer' = "none" /\ UNCHANGED <<file, touched>>

CutShort ==
  /\ InsertCutShort
  /\ \E j \in journal', row \in InsertedRows : file' = {persist_insert_journal(j, Name, row)}
  /\ answer' = "none"
  /\ UNCHANGED touched

(* One byte is read back as another, *)
DamageByte(bytes) ==
  \E i \in 1..JournalSize, b \in Bytes :
    bytes[i] # b /\ file' = {[bytes EXCEPT ![i] = b]}

(* the file is cut off or goes on, *)
ChangeLength(bytes) ==
  \/ \E n \in 0..(JournalSize - 1) : file' = {SubSeq(bytes, 1, n)}
  \/ \E b \in Bytes : file' = {Append(bytes, b)}

(* or another table's journal has taken its place. *)
Misplace ==
  \E name \in OtherNames, row \in InsertedRows, j \in journal :
    file' = {persist_insert_journal(j, name, row)}

Touch ==
  /\ ~touched
  /\ touched' = TRUE
  /\ \E bytes \in file : DamageByte(bytes) \/ ChangeLength(bytes) \/ Misplace
  /\ UNCHANGED <<vars, answer>>

Fields(bytes) ==
  [previous_count |-> get(bytes, PreviousAt), intended_count |-> get(bytes, IntendedAt),
   offset |-> get(bytes, OffsetAt)]

(* strcmp reads up to the first NUL, and finds one in the last byte. *)
StoredName(bytes) ==
  [i \in 1..Min({n \in 0..(NameCapacity - 1) : n = NameCapacity - 1 \/ bytes[NameAt + n + 1] = 0})
     |-> bytes[NameAt + i]]

IsValid(bytes) ==
  /\ Len(bytes) = JournalSize
  /\ get(bytes, 0) = Magic
  /\ get(bytes, Width) = Version
  /\ get(bytes, SizeAt) = JournalSize
  /\ get(bytes, ReservedAt) = 0
  /\ get(bytes, ChecksumAt) = journal_checksum(bytes)
  /\ StoredName(bytes) = Name
  /\ JournalAccepted(Fields(bytes))

(* Mutant: the count the insert meant to reach is restored. *)
RestoreIntended ==
  \E bytes \in file :
    /\ IsValid(bytes)
    /\ row_count' = Fields(bytes).intended_count
    /\ file_size' = storage_logical_size(Fields(bytes).previous_count)
    /\ journal' = {} /\ file' = {}
    /\ answer' = "TABLE_OK"
    /\ UNCHANGED touched

Restore ==
  \E bytes \in file :
    /\ IsValid(bytes)
    /\ row_count' = Fields(bytes).previous_count
    /\ file_size' = storage_logical_size(Fields(bytes).previous_count)
    /\ journal' = {} /\ file' = {}
    /\ answer' = "TABLE_OK"
    /\ UNCHANGED touched

Refuse ==
  /\ \E bytes \in file : ~IsValid(bytes)
  /\ answer' = "TABLE_CORRUPT"
  /\ UNCHANGED <<vars, file, touched>>

(* read fails or comes up short, of whatever file *)
ReadFails ==
  /\ file # {}
  /\ answer' = "TABLE_CORRUPT"
  /\ UNCHANGED <<vars, file, touched>>

RecordNext == Insert \/ CutShort \/ Touch \/ Restore \/ Refuse \/ ReadFails

RecordSpec == RecordInit /\ [][RecordNext]_recordVars

-----------------------------------------------------------------------------
(* "A malformed journal is treated as corruption" (README): one with any   *)
(* one byte changed, wherever it is, one that is too short or too long,    *)
(* and one of another table.  What recovery has read in full it takes for  *)
(* a journal exactly if it is as an insert left it, at any count, and it   *)
(* never ends well while there is another.  A read that fails is answered  *)
(* with TABLE_CORRUPT, too, of an intact journal as of any.                *)
MalformedIsCorrupt ==
  /\ touched => answer # "TABLE_OK"
  /\ \A bytes \in file : IsValid(bytes) <=> ~touched

(* Whatever has become of the file, recovery restores the count and the    *)
(* length that the insert's own record asks for, or does nothing: the      *)
(* bytes implement PageLayout's record.                                    *)
ImplementsLayout == Init /\ [][Next]_vars
=============================================================================
