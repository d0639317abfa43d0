------------------------------ MODULE MCScanner ------------------------------
(* Pages of two rows and a byte of padding. *)
EXTENDS Scanner

CONSTANTS id1, id2
=============================================================================
