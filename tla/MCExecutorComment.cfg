CONSTANTS
  id1 = id1
  id2 = id2
  Row = {id1, id2}
  MaxRows = 2
  DirSyncSupported = TRUE
  Torn = Torn
  Eof = Eof
  NoFile = NoFile
  Malformed = Malformed
  Meddling = FALSE
SPECIFICATION ExecSpec
INVARIANT IndexLacksNewKey
