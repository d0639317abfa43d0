---------------------------- MODULE MCStandalone ----------------------------
(* The three components that share no state with any other: the hash table *)
(* of an index, the reader of command lines and the creation of a table.   *)
(* A behaviour is one of one of them, while the others rest: what holds of *)
(* all of these behaviours holds of each component alone.                  *)
EXTENDS MCHashIndex, MCLineReader, TableCreate

VARIABLE component  \* which of them

Init ==
  /\ component \in {"index", "reader", "create"}
  /\ HashInit /\ (component # "index" => expected = 0)
  /\ ReaderInit /\ (component # "reader" => input = <<>>)
  /\ CreateInit /\ (component # "create" => ~journal)

Next ==
  /\ UNCHANGED component
  /\ \/ component = "index" /\ HashNext /\ UNCHANGED <<readerVars, createVars>>
     \/ component = "reader" /\ ReaderNext /\ UNCHANGED <<hashVars, createVars>>
     \/ component = "create" /\ CreateNext /\ UNCHANGED <<hashVars, readerVars>>

Spec == Init /\ [][Next]_<<hashVars, readerVars, createVars, component>>
=============================================================================
