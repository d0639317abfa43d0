------------------------------- MODULE KeyMap -------------------------------
(***************************************************************************)
(* What an in-memory index promises its callers: it maps ids to offsets.   *)
(* An insert of a new id may run out of memory, and then changes nothing;  *)
(* one of an id that is there already replaces its offset or is refused,   *)
(* as the caller asked, and needs no memory.                               *)
(***************************************************************************)
CONSTANTS Keys, Values, NotFound

VARIABLES
  map,     \* from ids to offsets, NotFound for an id that is not there
  status   \* the result of the latest insert

Init ==
  /\ map = [key \in Keys |-> NotFound]
  /\ status = "INDEX_OK"

Add(key, value) ==
  /\ map[key] = NotFound
  /\ \/ map' = [map EXCEPT ![key] = value] /\ status' = "INDEX_OK"
     \/ UNCHANGED map /\ status' = "INDEX_ALLOC_ERROR"

Replace(key, value) ==
  /\ map[key] # NotFound
  /\ map' = [map EXCEPT ![key] = value]
  /\ status' = "INDEX_OK"

Refuse(key) ==
  /\ map[key] # NotFound
  /\ UNCHANGED map
  /\ status' = "INDEX_DUPLICATE_KEY"

Next == \E key \in Keys, value \in Values : Add(key, value) \/ Replace(key, value) \/ Refuse(key)

Spec == Init /\ [][Next]_<<map, status>>
=============================================================================
