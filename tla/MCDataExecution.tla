--------------------------- MODULE MCDataExecution ---------------------------
(***************************************************************************)
(* Model values, symmetry and bounds for checking DataExecution.           *)
(***************************************************************************)
EXTENDS DataExecution, FiniteSets, TLC

Symmetry == Permutations(Sessions)

\* The bound of the run faults: it ends where two processes have been killed.
FewKills ==
  Cardinality({p \in Processes : pc[p] \in {"crashed", "killed"}}) <= 1
=============================================================================
