------------------------ MODULE MCBackgroundExecution ------------------------
(***************************************************************************)
(* Bounds for checking BackgroundExecution: s1 goes to the background, s2  *)
(* is a foreground invocation of the same operation.                       *)
(***************************************************************************)
EXTENDS BackgroundExecution, TLC
=============================================================================
