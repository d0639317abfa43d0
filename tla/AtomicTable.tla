----------------------------- MODULE AtomicTable -----------------------------
(***************************************************************************)
(* What the storage layer promises of one table, with no file, journal or  *)
(* crash in sight: a sequence of rows that only grows, one row at a time,  *)
(* and at most one row in doubt - inserted, visible, but not yet known to  *)
(* outlive a power loss.  A row is acknowledged only as it joins the       *)
(* sequence.                                                               *)
(***************************************************************************)
EXTENDS Sequences

CONSTANTS
  Row,    \* the rows a client may insert
  NoRow   \* a value that is no row

VARIABLES
  rows,   \* the rows that are there for good, oldest first
  doubt,  \* the row whose fate is open, or NoRow
  acked   \* the row the latest insert acknowledged, or NoRow

vars == <<rows, doubt, acked>>

Init == rows = <<>> /\ doubt = NoRow /\ acked = NoRow

(* An insert takes effect, its fate still open. *)
Propose(r) ==
  /\ doubt = NoRow
  /\ acked = NoRow
  /\ doubt' = r
  /\ UNCHANGED <<rows, acked>>

(* The row in doubt is there for good, acknowledged or not. *)
Commit ==
  /\ doubt # NoRow
  /\ rows' = Append(rows, doubt)
  /\ doubt' = NoRow
  /\ acked' \in {NoRow, doubt}

(* The row in doubt is gone for good. *)
Withdraw ==
  /\ doubt # NoRow
  /\ doubt' = NoRow
  /\ UNCHANGED <<rows, acked>>

(* Another call begins, or the program restarts. *)
Forget ==
  /\ acked' = NoRow
  /\ UNCHANGED <<rows, doubt>>

Next == (\E r \in Row : Propose(r)) \/ Commit \/ Withdraw \/ Forget

Spec == Init /\ [][Next]_vars
=============================================================================
