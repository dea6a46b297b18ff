------------------------- MODULE ProcessingContract -------------------------
(***************************************************************************)
(* What a processing run promises about the source's database: a run's     *)
(* output appears in it at once or not at all, before the run reports, and *)
(* the report never says less or more than what happened.  ProcessingRun   *)
(* implements it.                                                          *)
(***************************************************************************)
CONSTANT Sessions

VARIABLES
  output,   \* the sessions whose output the database holds
  report    \* what each session's runtime reported

\* "replaced": the new output is there; "kept": nothing of the run is there;
\* "possible": the run warns that its output may be there.
Reports == {"none", "replaced", "kept", "possible"}

Init ==
  /\ output = {}
  /\ report = [s \in Sessions |-> "none"]

Apply(s) ==
  /\ report[s] = "none"
  /\ output' = output \cup {s}
  /\ UNCHANGED report

Report(s, said) ==
  /\ report[s] = "none"
  /\ said = "replaced" => s \in output
  /\ said = "kept" => s \notin output
  /\ report' = [report EXCEPT ![s] = said]
  /\ UNCHANGED output

Next ==
  \E s \in Sessions :
    \/ Apply(s)
    \/ \E said \in Reports \ {"none"} : Report(s, said)

Spec == Init /\ [][Next]_<<output, report>>
=============================================================================
