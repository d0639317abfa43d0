SPECIFICATION Spec
\* Two buckets take one entry, four take two and eight take four; there is no
\* larger table, so the fifth key finds no room.
CONSTANTS
  Keys = {1, 2, 3, 4, 5}
  Values = {v1, v2}
  Expected = {0, 1, 2, 3, 4}
  NotFound = NotFound
  index_hash <- MCHash
  InitialBuckets = 2
  MaxLoadNum = 1
  MaxLoadDen = 2
  SizeMax = 15
\* Every text of up to seven characters, two of them letters.
CONSTANTS
  Capacity = 4
  Inputs <- MCInputs
  Rejected = Rejected
  Characters = {"a", "b", "newline"}
  MaxLength = 7
\* Three calls for one name.
CONSTANTS
  Creator = {call1, call2, call3}
  DirSyncSupported = TRUE
  NoFile = NoFile
  Empty = Empty
  Torn = Torn
  Header = Header
INVARIANTS
  LoadBound
  CountIsExact
  SizedForExpected
  EachLineAnswered
  CommandsAreLines
  OneCreation
  CreatedEndures
  NameIsOwned
PROPERTIES
  AsKeyMap
\* The input ends, and so do the calls.
CHECK_DEADLOCK FALSE
