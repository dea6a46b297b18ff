--------------------------- MODULE MCProcessingRun ---------------------------
(* Instances of ProcessingRun for TLC. *)
EXTENDS ProcessingRun

CONSTANTS p1, p2

Pair == {p1, p2}
First == {p1}
=============================================================================
