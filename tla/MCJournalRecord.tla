--------------------------- MODULE MCJournalRecord ---------------------------
(* Bytes of two bits and numbers of three of them; names of up to two      *)
(* characters.                                                             *)
EXTENDS JournalRecord, Bitwise

MCExclusiveOr(n, byte) == n ^^ byte
MCName == <<1, 2>>
MCOtherNames == {<<1>>, <<1, 3>>}
MCInsertedRows == {<<3, 1, 0>>}
=============================================================================
