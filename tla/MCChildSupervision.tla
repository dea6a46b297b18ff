-------------------------- MODULE MCChildSupervision --------------------------
(* Instances of ChildSupervision for TLC. *)
EXTENDS ChildSupervision

CONSTANTS out, err, r1, r2, Interrupt, Terminate

Both == {out, err}
Handlers == {r1, r2}
Signals == {Interrupt, Terminate}
=============================================================================
