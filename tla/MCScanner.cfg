\* A table of up to five rows on three pages, two ids.
SPECIFICATION FairScanSpec
CONSTANTS
  HeaderSize = 2
  PageSize = 5
  RowSize = 2
  LongMax = 14
  Word = 32
  id1 = id1
  id2 = id2
  Ids = {id1, id2}
  Any = Any
INVARIANTS
  LoopsAreExact
  ResultsAreTrue
  OnlyDamageIsCorrupt
PROPERTY ScansEnd
