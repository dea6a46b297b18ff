----------------------------- MODULE MCInstaller -----------------------------
(* Instances of Installer for TLC. *)
EXTENDS Installer

CONSTANTS d1, d2

TwoDirs == <<d1, d2>>

\* A startup file may be missing, hold lines of the user, with an export line
\* that only one of the two comparisons finds, or not be UTF-8.
Missing == [exists |-> FALSE, utf8 |-> TRUE, lines |-> {}]
Kinds   == {Missing, Text({"text", "exact"}), Text({"text", "loose"}),
            [Text({"text"}) EXCEPT !.utf8 = FALSE]}
=============================================================================
