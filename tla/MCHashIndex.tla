---------------------------- MODULE MCHashIndex ----------------------------
(* Five keys, three of which share a chain of four buckets and two still   *)
(* share one of eight.                                                     *)
EXTENDS HashIndex

MCHash == <<0, 4, 8, 1, 6>>
=============================================================================
