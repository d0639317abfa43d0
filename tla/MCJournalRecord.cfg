\* Up to 15 rows in five pages, a 16th that is only ever cut short on the sixth; every
\* change of one byte of every journal.
SPECIFICATION RecordSpec
CONSTANTS
  HeaderSize = 3
  PageSize = 11
  RowSize = 3
  LongMax = 60
  Word = 64
  Byte = 4
  Width = 3
  Magic = 27
  Version = 1
  Basis = 53
  Prime = 19
  ExclusiveOr <- MCExclusiveOr
  NameCapacity = 3
  PaddingSize = 2
  Name <- MCName
  OtherNames <- MCOtherNames
  InsertedRows <- MCInsertedRows
INVARIANTS
  ValidIffRow
  RowsApart
  TableOpens
  MalformedIsCorrupt
PROPERTIES
  ImplementsLayout
\* A table takes no insert when it is full.
CHECK_DEADLOCK FALSE
