\* Under CalmSpec every behaviour of Spec is explored for the safety properties; its
\* fairness is for JournalGoes alone.
SPECIFICATION CalmSpec
CONSTANTS
  r1 = r1
  r2 = r2
  Row = {r1, r2}
  MaxRows = 3
  DirSyncSupported = TRUE
  Torn = Torn
  Eof = Eof
  NoFile = NoFile
  Malformed = Malformed
INVARIANTS TypeOK OldOrNew AckedIsDurable RejectedStaysOut HandleMatchesFile
PROPERTIES
  CommittedNeverShrinks
  ImplementsAtomicTable
  JournalGoes
