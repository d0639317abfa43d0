--------------------------- MODULE MCInsertJournal ---------------------------
(* Small instances of InsertJournal for TLC: the rows a client inserts. *)
EXTENDS InsertJournal

CONSTANTS r1, r2
=============================================================================
