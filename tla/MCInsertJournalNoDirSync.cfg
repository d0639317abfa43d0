CONSTANTS
  r1 = r1
  r2 = r2
  Row = {r1, r2}
  MaxRows = 3
  DirSyncSupported = FALSE
  Torn = Torn
  Eof = Eof
  NoFile = NoFile
  Malformed = Malformed
SPECIFICATION Spec
INVARIANT AckedIsDurable
