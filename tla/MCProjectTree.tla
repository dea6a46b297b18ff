---------------------------- MODULE MCProjectTree ----------------------------
(* Instances of ProjectTree for TLC. *)
EXTENDS ProjectTree

CONSTANTS c1, c2, c3, n1, n2, b1

Three == {c1, c2, c3}
Pair == {n1, n2}
First == {c1}
One == {b1}
Both == {"http", "HTTP"}
=============================================================================
