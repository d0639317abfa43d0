---------------------------- MODULE MCLineReader ----------------------------
(* Inputs of a few characters for a buffer of four: lines of two           *)
(* characters fit, and there is room for a longer one and two others.      *)
EXTENDS LineReader

CONSTANTS Characters, MaxLength

MCInputs == UNION {[1..n -> Characters] : n \in 0..MaxLength}
=============================================================================
