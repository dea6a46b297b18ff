---------------------------- MODULE MCSourceBuild ----------------------------
(***************************************************************************)
(* Bounds for checking SourceBuild: `First` may fail and be killed         *)
(* anywhere, `Second` is a later or an overlapping build.  Launches and    *)
(* edits are explored beside the first.  Neither Second nor a launch       *)
(* starts before First is about to publish: up to there First only touches *)
(* what is its own, so that starting them later loses no behaviour.        *)
(***************************************************************************)
EXTENDS SourceBuild

CONSTANTS First, Second

Focus ==
  LET idle == \A l \in Launches : lpc[l] = "start"
      published == pc[First] \in Publishing \cup Finished \cup {"publish"} IN
  /\ First # Second /\ pc[Second] # "start" => published /\ touches = 0 /\ idle
  /\ ~idle => published
=============================================================================
