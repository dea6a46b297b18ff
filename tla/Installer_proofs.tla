-------------------------- MODULE Installer_proofs --------------------------
(***************************************************************************)
(* Theorems about Installer, for any directories of PATH, any startup      *)
(* files and any number of failures and kills.                             *)
(*                                                                         *)
(* IInv has two parts.  Whole holds whatever fails: while an installation  *)
(* runs there is no record, and from the step that decides about PATH on   *)
(* its executable is complete.  Steady and Footprint hold as long as       *)
(* nothing failed: they say, step by step, what the run has changed        *)
(* (Changed) and that everything else is as it was before the first run.   *)
(***************************************************************************)
EXTENDS Installer, TLAPS

InstallSteps ==
  {"extract", "place", "chmod", "path", "candidate", "verify", "undo", "record"}

\* The steps of an installation after its executable is complete.
PlacedSteps == {"path", "candidate", "verify", "undo", "record"}

\* The surroundings and the index of the candidate, which TypeOK leaves out.
Bounds ==
  /\ found \in [links : [Places -> {"none", "other", "lexicon"}],
                startup : [Profiles -> Contents], onPath : BOOLEAN,
                writable : SUBSET Places, shell : Profiles]
  /\ pc \in {"candidate", "verify"} => next \in 1 .. 3
  /\ pc = "undo" => next \in 1 .. 2

\* What makes InstalledIsWhole inductive.
Whole ==
  /\ pc \in InstallSteps => record = NoRecord
  /\ pc \in PlacedSteps => cli = "ready"
  /\ record # NoRecord => cli \in {"none", "ready"}

\* What a record, or the modification a run carries, says was changed.
Recorded(m) ==
  IF m \in Modifications /\ m.modified THEN {m.location} ELSE {}

\* The changes that are in place at each step of a faultless history.
Changed ==
  CASE pc = "idle" -> Recorded(record)
    [] pc \in {"verify", "undo"} -> {Candidate}
    [] pc \in {"record", "remove", "reverse"} -> Recorded(change)
    [] OTHER -> {}

\* What the steps of a faultless history rely on.
Steady ==
  /\ record # Torn
  /\ pc = "idle" => (cli = "none" <=> record = NoRecord)
  /\ pc \in {"remove", "reverse", "forget"} => record = change /\ record # NoRecord
  /\ pc = "record" => change # NoRecord
  /\ pc \in {"reverse", "forget", "tidy"} => cli = "none"
  /\ pc = "tidy" => record = NoRecord
  /\ pc # "tidy" => (library <=> record # NoRecord)

\* What an installation may have made of a startup file, without its own line.
Written(p) == {Rewritten(found.startup[p]), Restored(found.startup[p])}

LinkOK(d) ==
  /\ d \in Changed => found.links[d] = "none"
  /\ links[d] = IF d \in Changed THEN "lexicon" ELSE found.links[d]

ProfileOK(p) ==
  IF p \in Changed
  THEN \E file \in Written(p) :
         ~ Present(file.lines) /\ startup[p] = Text(file.lines \cup {"added"})
  ELSE startup[p] \in {found.startup[p]} \cup Written(p)

SavedOK ==
  pc \in {"verify", "undo"} =>
    Text(saved) \in Written(Candidate) /\ ~ Present(saved)

Footprint ==
  /\ Changed \subseteq Places \cup Profiles
  /\ \A d \in Places : LinkOK(d)
  /\ \A p \in Profiles : ProfileOK(p)
  /\ SavedOK

IInv ==
  /\ TypeOK /\ Bounds /\ Whole
  /\ faults = 0 => Steady /\ Footprint

-----------------------------------------------------------------------------
(* Records, files and places.                                              *)

\* What the provers need of the constants.
LEMMA ConstantFacts ==
  /\ \A i \in DOMAIN PathDirs : PathDirs[i] \in Places
  /\ Contents \subseteq Files /\ MaxFaults \in Nat
  /\ \A m \in Modifications :
       /\ m # NoRecord /\ m # Torn
       /\ m.modified \in BOOLEAN
       /\ m.location \in Places \cup Profiles \cup {"path"}
  /\ NoRecord # Torn
  /\ Places \cap (Profiles \cup {"path"}) = {}
<1>1. ASSUME NEW m \in Modifications PROVE m # NoRecord /\ m # Torn
  BY InstallerAssumption
<1>2. \A m \in Modifications :
        m.modified \in BOOLEAN /\ m.location \in Places \cup Profiles \cup {"path"}
  BY DEF Modifications
<1> QED BY <1>1, <1>2, InstallerAssumption DEF Places

LEMMA NewModification ==
  ASSUME NEW b \in BOOLEAN, NEW at \in Places \cup Profiles \cup {"path"}
  PROVE  /\ [modified |-> b, location |-> at] \in Modifications
         /\ Recorded([modified |-> b, location |-> at]) = IF b THEN {at} ELSE {}
BY DEF Modifications, Recorded

\* What is read of a file is lines, and what is written of lines is a file.
LEMMA ReadFacts ==
  ASSUME NEW f \in Files
  PROVE  Read(f) \subseteq Lines /\ Stripped(f) \in Files
                                 /\ Stripped(f).lines \subseteq Lines
BY DEF Files, Read, Stripped, Text

LEMMA WriteFacts ==
  ASSUME NEW lines \in SUBSET Lines
  PROVE  /\ Text(lines) \in Files /\ Text(lines).lines = lines
         /\ Read(Text(lines)) = lines
         /\ \A f \in Files : CutShort(f, lines) \subseteq Files
<1>1. ASSUME NEW some \in SUBSET Lines PROVE Text(some) \in Files
  BY DEF Text, Files
<1>2. ASSUME NEW f \in Files PROVE CutShort(f, lines) \subseteq Files
  BY <1>1 DEF CutShort, Lines
<1> QED BY <1>1, <1>2 DEF Text, Read

\* A file an installation may have left is read and written back as one.
LEMMA LeftoverFacts ==
  ASSUME NEW p \in Profiles,
         startup[p] \in {found.startup[p]} \cup Written(p)
  PROVE  Text(Read(startup[p])) \in Written(p)
<1> DEFINE lines == Read(found.startup[p])
<1>1. /\ Rewritten(found.startup[p]) = Text(lines)
      /\ Restored(found.startup[p]) = Text(lines \ {"loose"})
  BY DEF Rewritten, Restored
<1>2. \A some : Read(Text(some)) = some
  BY DEF Read, Text
<1> HIDE DEF lines
<1>3. CASE startup[p] = found.startup[p]
  BY <1>1, <1>3 DEF Written, lines
<1>4. CASE startup[p] \in Written(p)
  BY <1>1, <1>2, <1>4 DEF Written
<1> QED BY <1>3, <1>4

\* The reversal takes out what was appended, and the loose line.
LEMMA StrippedFacts ==
  ASSUME NEW p \in Profiles, NEW file \in Written(p), ~ Present(file.lines)
  PROVE  Stripped(Text(file.lines \cup {"added"})) \in Written(p)
<1> DEFINE lines == Read(found.startup[p])
<1>1. /\ Rewritten(found.startup[p]) = Text(lines)
      /\ Restored(found.startup[p]) = Text(lines \ {"loose"})
  BY DEF Rewritten, Restored
<1>2. \A some : Text(some).lines = some
  BY DEF Text
<1>3. Stripped(Text(file.lines \cup {"added"}))
        = Text((file.lines \cup {"added"}) \ ExportLines)
  BY DEF Stripped, Text
<1>4. (file.lines \cup {"added"}) \ ExportLines = file.lines \ {"loose"}
  BY DEF Present, ExportLines
<1> HIDE DEF lines
<1>5. file.lines \ {"loose"} = lines \ {"loose"}
  BY <1>1, <1>2 DEF Written
<1> QED BY <1>1, <1>3, <1>4, <1>5 DEF Written

LEMMA CandidateFacts ==
  ASSUME Bounds, NEW i \in 1 .. 3
  PROVE  Len(Candidates) = 3 /\ Candidates[i] \in Profiles
BY DEF Bounds, Candidates, Profiles

-----------------------------------------------------------------------------
(* The types, and what is complete when.                                   *)

LEMMA InitOK == Init => IInv
<1> SUFFICES ASSUME Init PROVE IInv
  OBVIOUS
<1>1. PICK writable \in SUBSET Places, shell \in Profiles :
        found = [links |-> links, startup |-> startup, onPath |-> onPath,
                 writable |-> writable, shell |-> shell]
  BY DEF Init
<1>2. Bounds
  BY <1>1 DEF Init, Bounds
<1>3. saved \subseteq Lines
  BY DEF Init
<1>4. startup \in [Profiles -> Files]
  BY ConstantFacts DEF Init
<1>0. /\ pc = "idle" /\ cli = "none" /\ record = NoRecord /\ library = FALSE
      /\ links \in [Places -> {"none", "other", "lexicon"}] /\ onPath \in BOOLEAN
      /\ next = 0 /\ change = NoRecord /\ result = "none" /\ faults = 0
  BY DEF Init
<1>5. TypeOK
  <2>1. 0 \in 0 .. MaxFaults
    BY ConstantFacts
  <2>2. pc \in {"idle"} /\ cli \in {"none"} /\ result \in {"none"} /\ next \in 0 .. 3
    BY <1>0
  <2>3. record \in Modifications \cup {NoRecord, Torn} /\ library \in BOOLEAN
    BY <1>0
  <2>4. change \in Modifications \cup {NoRecord} /\ faults \in 0 .. MaxFaults
    BY <1>0, <2>1
  <2> QED BY <1>0, <1>3, <1>4, <2>2, <2>3, <2>4 DEF TypeOK
<1>6. Whole /\ faults = 0
  BY DEF Init, Whole, InstallSteps, PlacedSteps
<1>7. Steady
  BY ConstantFacts DEF Init, Steady
<1>8. Changed = {}
  BY ConstantFacts DEF Init, Changed, Recorded
<1>9. Footprint
  <2>1. ASSUME NEW p \in Profiles PROVE ProfileOK(p)
    BY <1>1, <1>8 DEF ProfileOK
  <2>2. ASSUME NEW d \in Places PROVE LinkOK(d)
    BY <1>1, <1>8 DEF LinkOK
  <2>3. SavedOK
    BY DEF Init, SavedOK
  <2> QED BY <1>8, <2>1, <2>2, <2>3 DEF Footprint
<1> QED BY <1>2, <1>5, <1>6, <1>7, <1>9 DEF IInv

\* How a step of a run ends; faults only grow.
LEMMA StepEnds ==
  ASSUME TypeOK, Bounds,
         \/ \E label \in {"extract", "place", "chmod", "path", "record", "remove",
                          "reverse", "forget", "tidy"} : Goto(label)
         \/ \E r \in {"installed", "already", "uninstalled", "failed"} : Return(r)
         \/ Fails
         \/ \E label \in {"forget", "tidy"} : Ignored(label)
  PROVE  /\ pc' \in {"idle", "extract", "place", "chmod", "path", "record",
                     "remove", "reverse", "forget", "tidy"}
         /\ onPath' \in BOOLEAN /\ faults' \in 0 .. MaxFaults
         /\ result' \in {"none", "installed", "already", "uninstalled", "failed"}
         /\ Bounds'
<1>1. MaxFaults \in Nat
  BY ConstantFacts
<1>2. /\ pc' \in {"idle", "extract", "place", "chmod", "path", "record",
                  "remove", "reverse", "forget", "tidy"}
      /\ onPath' = onPath /\ found' = found /\ faults' \in 0 .. MaxFaults
      /\ result' \in {"none", "installed", "already", "uninstalled", "failed"}
  BY <1>1 DEF TypeOK, Goto, Return, Fails, Ignored
<1> QED BY <1>2 DEF Bounds, TypeOK

LEMMA InstallTypes ==
  ASSUME TypeOK, Bounds, InstallStep
  PROVE  TypeOK' /\ Bounds'
<1>1. CASE Extract \/ Place \/ SetExecutable
  <2>1. TypeOK' /\ Bounds'
    BY <1>1, StepEnds DEF Extract, Place, SetExecutable, TypeOK, disk, local
  <2> QED BY <2>1
<1>2. CASE EnsurePath
  <2>1. CASE /\ onPath /\ change' = [modified |-> FALSE, location |-> "path"]
             /\ Goto("record") /\ UNCHANGED <<links, next>>
    <3>1. change' \in Modifications
      BY <2>1, NewModification
    <3> QED BY <1>2, <2>1, <3>1, StepEnds DEF EnsurePath, TypeOK
  <2>2. ASSUME NEW i \in DOMAIN PathDirs,
               links' = [links EXCEPT ![PathDirs[i]] = IF @ = "none" THEN "lexicon" ELSE @],
               change' = [modified |-> links[PathDirs[i]] = "none",
                          location |-> PathDirs[i]],
               Goto("record"), UNCHANGED next
        PROVE  TypeOK' /\ Bounds'
    <3>1. PathDirs[i] \in Places /\ (links[PathDirs[i]] = "none") \in BOOLEAN
      BY ConstantFacts
    <3>2. change' \in Modifications
      BY <2>2, <3>1, NewModification
    <3>3. links' \in [Places -> {"none", "other", "lexicon"}]
      BY <2>2, <3>1 DEF TypeOK
    <3> QED BY <1>2, <2>2, <3>2, <3>3, StepEnds DEF EnsurePath, TypeOK
  <2>3. CASE next' = 1 /\ Goto("candidate") /\ UNCHANGED <<links, change>>
    BY <1>2, <2>3 DEF EnsurePath, TypeOK, Bounds, Goto
  <2> QED BY <1>2, <2>1, <2>2, <2>3 DEF EnsurePath
<1>3. CASE AppendExport
  <2> DEFINE p == Candidate
             existing == Read(startup[p])
  <2>1. pc = "candidate" /\ next \in 1 .. 3 /\ p \in Profiles
    BY <1>3, CandidateFacts DEF AppendExport, Bounds, At, Candidate
  <2>2. existing \subseteq Lines /\ startup[p] \in Files
    BY <2>1, ReadFacts DEF TypeOK
  <2>3. CASE /\ change' = [modified |-> FALSE, location |-> p]
             /\ Goto("record") /\ UNCHANGED <<startup, saved>>
    <3>1. change' \in Modifications
      BY <2>1, <2>3, NewModification
    <3> QED BY <1>3, <2>3, <3>1, StepEnds DEF AppendExport, TypeOK
  <2>4. CASE /\ startup' = [startup EXCEPT ![p] = Text(existing \cup {"added"})]
             /\ saved' = existing
             /\ Goto("verify") /\ UNCHANGED change
    <3>0. existing \cup {"added"} \subseteq Lines
      BY <2>2 DEF Lines
    <3>1. startup' \in [Profiles -> Files] /\ saved' \subseteq Lines
      BY <2>1, <2>2, <2>4, <3>0, WriteFacts DEF TypeOK
    <3>2. UNCHANGED <<cli, record, library, links, next>>
      BY <1>3 DEF AppendExport
    <3> HIDE DEF p, existing
    <3> QED BY <2>1, <2>4, <3>1, <3>2 DEF TypeOK, Bounds, Goto
  <2>5. CASE /\ \E rest \in CutShort(startup[p], existing) :
                  startup' = [startup EXCEPT ![p] = rest]
             /\ Fails /\ UNCHANGED <<saved, change>>
    <3>1. startup' \in [Profiles -> Files]
      <4>1. CutShort(startup[p], existing) \subseteq Files
        BY <2>2, WriteFacts
      <4> QED BY <2>1, <2>5, <4>1 DEF TypeOK
    <3>2. UNCHANGED <<cli, record, library, links, next>>
      BY <1>3 DEF AppendExport
    <3> HIDE DEF p, existing
    <3> QED BY <2>5, <3>1, <3>2, StepEnds DEF TypeOK
  <2> QED BY <1>3, <2>3, <2>4, <2>5 DEF AppendExport
<1>4. CASE Verify
  <2>1. pc = "verify" /\ next \in 1 .. 3 /\ Len(Candidates) = 3 /\ Candidate \in Profiles
    BY <1>4, CandidateFacts DEF Verify, Bounds, At, Candidate
  <2>2. CASE change' = [modified |-> TRUE, location |-> Candidate] /\ Goto("record")
    <3>1. change' \in Modifications
      BY <2>1, <2>2, NewModification
    <3> QED BY <1>4, <2>2, <3>1, StepEnds DEF Verify, TypeOK, disk
  <2>3. CASE next < Len(Candidates) /\ Goto("undo") /\ UNCHANGED change
    <3>1. next' \in 1 .. 2
      BY <1>4, <2>1, <2>3 DEF Verify
    <3> QED BY <1>4, <2>3, <3>1 DEF Verify, TypeOK, Bounds, Goto, disk
  <2> QED BY <1>4, <2>2, <2>3 DEF Verify
<1>5. CASE Undo
  <2>1. /\ pc = "undo" /\ next \in 1 .. 2 /\ Candidate \in Profiles
        /\ UNCHANGED <<cli, record, library, links, saved, change>>
    BY <1>5, CandidateFacts DEF Undo, Bounds, At, Candidate
  <2>2. saved \subseteq Lines /\ startup[Candidate] \in Files
    BY <2>1 DEF TypeOK
  <2>3. CASE /\ startup' = [startup EXCEPT ![Candidate] = Text(saved)]
             /\ next' = next + 1 /\ Goto("candidate")
    <3>1. startup' \in [Profiles -> Files]
      BY <2>1, <2>2, <2>3, WriteFacts DEF TypeOK
    <3>2. next' \in 1 .. 3
      BY <2>1, <2>3
    <3> QED BY <2>1, <2>3, <3>1, <3>2 DEF TypeOK, Bounds, Goto
  <2>4. CASE /\ \E rest \in CutShort(startup[Candidate], saved) :
                  startup' = [startup EXCEPT ![Candidate] = rest]
             /\ Fails /\ UNCHANGED next
    <3>1. CutShort(startup[Candidate], saved) \subseteq Files
      BY <2>2, WriteFacts
    <3>2. startup' \in [Profiles -> Files]
      BY <2>1, <2>4, <3>1 DEF TypeOK
    <3> QED BY <2>1, <2>4, <3>2, StepEnds DEF TypeOK
  <2> QED BY <1>5, <2>3, <2>4 DEF Undo
<1>6. CASE WriteRecord
  <2>1. /\ UNCHANGED <<cli, links, startup, local>>
        /\ library' \in BOOLEAN /\ record' \in Modifications \cup {NoRecord, Torn}
        /\ Return("installed") \/ Fails
    BY <1>6 DEF WriteRecord, TypeOK
  <2> QED BY <2>1, StepEnds DEF TypeOK, local
<1> QED BY <1>1, <1>2, <1>3, <1>4, <1>5, <1>6 DEF InstallStep

LEMMA UninstallTypes ==
  ASSUME TypeOK, Bounds, UninstallStep
  PROVE  TypeOK' /\ Bounds'
<1>1. CASE RemoveCli
  <2>1. UNCHANGED <<record, library, links, startup, local>> /\ cli' \in {"none", cli}
    BY <1>1 DEF RemoveCli
  <2> QED BY <1>1, <2>1, StepEnds DEF RemoveCli, TypeOK, local
<1>2. CASE Reverse
  <2> DEFINE at == change.location
  <2>1. UNCHANGED <<cli, record, library, local>>
    BY <1>2 DEF Reverse
  <2>2. Goto("forget") \/ Ignored("forget")
    BY <1>2 DEF Reverse
  <2>3. links' \in [Places -> {"none", "other", "lexicon"}]
    BY <1>2 DEF Reverse, TypeOK
  <2>4. startup' \in [Profiles -> Files]
    <3>1. CASE UNCHANGED startup
      BY <3>1 DEF TypeOK
    <3>2. CASE at \in Profiles
      <4> DEFINE reversed == Stripped(startup[at])
      <4>1. /\ startup[at] \in Files /\ reversed \in Files
            /\ reversed.lines \subseteq Lines
        BY <3>2, ReadFacts DEF TypeOK
      <4>2. CutShort(startup[at], reversed.lines) \subseteq Files
        BY <4>1, WriteFacts
      <4>3. \/ startup' = [startup EXCEPT ![at] = reversed]
            \/ \E rest \in CutShort(startup[at], reversed.lines) :
                 startup' = [startup EXCEPT ![at] = rest]
            \/ UNCHANGED startup
        BY <1>2 DEF Reverse
      <4> HIDE DEF reversed
      <4> QED BY <3>2, <4>1, <4>2, <4>3 DEF TypeOK
    <3> QED BY <1>2, <3>1, <3>2 DEF Reverse
  <2> QED BY <2>1, <2>2, <2>3, <2>4, StepEnds DEF TypeOK, local
<1>3. CASE Forget
  <2>1. /\ UNCHANGED <<cli, library, links, startup, local>>
        /\ record' \in {NoRecord, record}
        /\ Goto("tidy") \/ Ignored("tidy")
    BY <1>3 DEF Forget
  <2> QED BY <1>3, <2>1, StepEnds DEF Forget, TypeOK, local
<1>4. CASE Tidy
  <2>1. /\ UNCHANGED <<cli, record, links, startup, local>>
        /\ library' \in BOOLEAN
        /\ Return("uninstalled") \/ Return("failed")
    BY <1>4 DEF Tidy, TypeOK
  <2> QED BY <2>1, StepEnds DEF TypeOK, local
<1> QED BY <1>1, <1>2, <1>3, <1>4 DEF UninstallStep

LEMMA TypesKept ==
  ASSUME TypeOK, Bounds, [Next]_vars
  PROVE  TypeOK' /\ Bounds'
<1>1. CASE Install
  BY <1>1 DEF Install, TypeOK, Bounds, disk, local
<1>2. CASE AlreadyInstalled
  BY <1>2, StepEnds DEF AlreadyInstalled, TypeOK, disk, local
<1>3. CASE Uninstall
  <2>1. change' \in Modifications \cup {NoRecord}
    BY <1>3 DEF Uninstall, TypeOK
  <2> QED BY <1>3, <2>1 DEF Uninstall, TypeOK, Bounds, disk
<1>4. CASE Kill
  BY <1>4, StepEnds DEF Kill, TypeOK, disk, local
<1>5. CASE NewTerminal
  <2>1. onPath' \in BOOLEAN
    <3>1. found.onPath \in BOOLEAN
      BY DEF Bounds
    <3>2. (\E p \in Profiles : startup[p].lines \cap ExportLines # {}) \in BOOLEAN
      OBVIOUS
    <3> QED BY <1>5, <3>1, <3>2 DEF NewTerminal
  <2> QED BY <1>5, <2>1 DEF NewTerminal, TypeOK, Bounds, disk, local
<1>6. CASE UNCHANGED vars
  BY <1>6 DEF vars, TypeOK, Bounds, disk, local
<1> QED BY <1>1, <1>2, <1>3, <1>4, <1>5, <1>6, InstallTypes, UninstallTypes DEF Next

\* A record appears only when a complete executable is in place, and the
\* executable is removed, never replaced, while there is a record.
LEMMA WholeKept ==
  ASSUME TypeOK, Whole, [Next]_vars
  PROVE  Whole'
<1> USE DEF Whole, InstallSteps, PlacedSteps, At, Goto, Return, Fails, Ignored
<1>1. CASE Install \/ AlreadyInstalled \/ Uninstall \/ Kill \/ NewTerminal
  BY <1>1 DEF Install, AlreadyInstalled, Uninstall, Kill, NewTerminal, Detect, disk
<1>2. CASE Extract \/ Place \/ SetExecutable
  BY <1>2 DEF Extract, Place, SetExecutable, disk
<1>3. CASE EnsurePath
  BY <1>3 DEF EnsurePath
<1>4. CASE AppendExport
  BY <1>4 DEF AppendExport
<1>5. CASE Verify \/ Undo
  BY <1>5 DEF Verify, Undo, disk
<1>6. CASE WriteRecord
  BY <1>6 DEF WriteRecord
<1>7. CASE RemoveCli \/ Forget \/ Tidy
  BY <1>7 DEF RemoveCli, Forget, Tidy
<1>8. CASE Reverse
  BY <1>8 DEF Reverse
<1>9. CASE UNCHANGED vars
  BY <1>9 DEF vars, disk
<1> QED BY <1>1, <1>2, <1>3, <1>4, <1>5, <1>6, <1>7, <1>8, <1>9
           DEF Next, InstallStep, UninstallStep

-----------------------------------------------------------------------------
(* The footprint of a history without faults.                              *)

LEMMA NoFault ==
  ASSUME TypeOK, faults' = 0
  PROVE  ~ Fails /\ \A label : ~ Ignored(label)
BY ConstantFacts DEF TypeOK, Fails, Ignored

LEMMA FaultsGrow ==
  ASSUME TypeOK, [Next]_vars, faults' = 0
  PROVE  faults = 0
<1>1. CASE UNCHANGED faults
  BY <1>1
<1>2. ~ UNCHANGED faults => Fails \/ \E label : Ignored(label)
  BY DEF Next, Install, AlreadyInstalled, Uninstall, InstallStep, UninstallStep,
         Kill, NewTerminal, Extract, Place, SetExecutable, EnsurePath,
         AppendExport, Verify, Undo, WriteRecord, RemoveCli, Reverse, Forget,
         Tidy, Goto, Return, vars
<1> QED BY <1>1, <1>2, NoFault

\* A step that moves nothing on the disk but the record, and is about the
\* same changes.
LEMMA SameFootprint ==
  ASSUME Footprint, UNCHANGED <<links, startup, found>>, Changed' = Changed,
         SavedOK'
  PROVE  Footprint'
<1>1. ASSUME NEW d \in Places PROVE LinkOK(d)'
  BY DEF Footprint, LinkOK
<1>2. ASSUME NEW p \in Profiles PROVE ProfileOK(p)'
  BY DEF Footprint, ProfileOK, Written
<1> QED BY <1>1, <1>2 DEF Footprint

\* A write of the startup file of one profile, which adds the export line to
\* it or takes it out again.
LEMMA ProfileWritten ==
  ASSUME TypeOK, Footprint, UNCHANGED <<links, found>>,
         NEW p \in Profiles, NEW lines, Text(lines) \in Written(p),
         \/ /\ Changed = {} /\ Changed' = {p} /\ ~ Present(lines)
            /\ startup' = [startup EXCEPT ![p] = Text(lines \cup {"added"})]
         \/ /\ Changed = {p} /\ Changed' = {}
            /\ startup' = [startup EXCEPT ![p] = Text(lines)],
         SavedOK'
  PROVE  Footprint'
<1>1. ASSUME NEW d \in Places PROVE LinkOK(d)'
  <2>1. d # p
    BY ConstantFacts
  <2> QED BY <2>1 DEF Footprint, LinkOK
<1>2. ASSUME NEW q \in Profiles PROVE ProfileOK(q)'
  <2>0. Written(q)' = Written(q)
    BY DEF Written
  <2>1. CASE q = p
    <3>1. startup'[q] = IF Changed' = {p} THEN Text(lines \cup {"added"}) ELSE Text(lines)
      BY <2>1 DEF TypeOK
    <3>2. Text(lines).lines = lines
      BY DEF Text
    <3> QED BY <2>0, <2>1, <3>1, <3>2 DEF ProfileOK
  <2>2. CASE q # p
    <3>1. startup'[q] = startup[q]
      BY <2>2 DEF TypeOK
    <3> QED BY <2>0, <2>2, <3>1 DEF Footprint, ProfileOK
  <2> QED BY <2>1, <2>2
<1> QED BY <1>1, <1>2 DEF Footprint

\* A link that is made in a directory of PATH, or removed again.
LEMMA LinkMoved ==
  ASSUME TypeOK, Footprint, UNCHANGED <<startup, found>>, NEW d \in Places,
         \/ /\ Changed = {} /\ Changed' = {d} /\ links[d] = "none"
            /\ links' = [links EXCEPT ![d] = "lexicon"]
         \/ /\ Changed = {d} /\ Changed' = {}
            /\ links' = [links EXCEPT ![d] = "none"],
         SavedOK'
  PROVE  Footprint'
<1>1. ASSUME NEW e \in Places PROVE LinkOK(e)'
  BY DEF Footprint, LinkOK, TypeOK
<1>2. ASSUME NEW p \in Profiles PROVE ProfileOK(p)'
  <2>1. d # p
    BY ConstantFacts
  <2> QED BY <2>1 DEF Footprint, ProfileOK, Written
<1> QED BY <1>1, <1>2 DEF Footprint

LEMMA RunsAround ==
  ASSUME IInv, faults = 0, faults' = 0,
         Install \/ AlreadyInstalled \/ Uninstall \/ Kill \/ NewTerminal
  PROVE  Steady' /\ Footprint'
<1>1. TypeOK /\ Steady /\ Footprint /\ ~ Kill /\ UNCHANGED <<links, startup, found>>
  BY NoFault DEF IInv, Install, AlreadyInstalled, Uninstall, Kill, NewTerminal,
                 Return, disk
<1>2. SavedOK' /\ pc = "idle"
  BY <1>1 DEF Install, AlreadyInstalled, Uninstall, NewTerminal, At, Return, SavedOK
<1>3. CASE Install
  <2>0. record = NoRecord
    BY <1>1, <1>2, <1>3 DEF Install, Steady, Detect
  <2>1. Steady' /\ record = NoRecord /\ pc' = "extract"
    BY <1>1, <1>2, <1>3, <2>0 DEF Install, Steady, disk
  <2>2. Changed = {} /\ Changed' = {}
    BY <1>2, <2>1, ConstantFacts DEF Changed, Recorded
  <2> QED BY <1>1, <1>2, <2>1, <2>2, SameFootprint
<1>4. CASE AlreadyInstalled \/ NewTerminal
  <2>1. UNCHANGED <<cli, record, library, change>> /\ pc' = "idle"
    BY <1>2, <1>4 DEF AlreadyInstalled, NewTerminal, Return, disk, local
  <2>2. Steady' /\ Changed' = Changed
    BY <1>1, <1>2, <2>1 DEF Steady, Changed
  <2> QED BY <1>1, <1>2, <2>2, SameFootprint
<1>5. CASE Uninstall
  <2>1. record # NoRecord /\ record # Torn
    BY <1>1, <1>2, <1>5 DEF Uninstall, Detect, Steady
  <2>2. UNCHANGED <<cli, record, library>> /\ pc' = "remove" /\ change' = record
    BY <1>5, <2>1 DEF Uninstall, disk
  <2>3. Steady'
    BY <1>1, <1>2, <2>1, <2>2 DEF Steady
  <2>4. Changed' = Changed
    BY <1>2, <2>2 DEF Changed
  <2> QED BY <1>1, <1>2, <2>3, <2>4, SameFootprint
<1> QED BY <1>1, <1>3, <1>4, <1>5

LEMMA ExecutablePlaced ==
  ASSUME IInv, faults = 0, faults' = 0, Extract \/ Place \/ SetExecutable
  PROVE  Steady' /\ Footprint'
<1>1. /\ TypeOK /\ Whole /\ Steady /\ Footprint
      /\ UNCHANGED <<links, startup, found, record, library, change>>
      /\ pc \in {"extract", "place", "chmod"} /\ pc' \in {"place", "chmod", "path"}
  BY NoFault DEF IInv, Extract, Place, SetExecutable, At, Goto, disk, local
<1>2. Steady' /\ SavedOK' /\ Changed' = Changed
  BY <1>1 DEF Steady, SavedOK, Changed
<1> QED BY <1>1, <1>2, SameFootprint

LEMMA PathEnsured ==
  ASSUME IInv, faults = 0, faults' = 0, EnsurePath
  PROVE  Steady' /\ Footprint'
<1>1. /\ TypeOK /\ Whole /\ Steady /\ Footprint /\ pc = "path"
      /\ UNCHANGED <<cli, record, library, startup>>
  BY DEF IInv, EnsurePath, At
<1>2. Changed = {} /\ record = NoRecord /\ cli = "ready"
  BY <1>1 DEF Changed, Whole, InstallSteps, PlacedSteps
<1>3. CASE /\ change' = [modified |-> FALSE, location |-> "path"]
           /\ Goto("record") /\ UNCHANGED <<links, next>>
  <2>1. change' # NoRecord /\ Recorded(change') = {}
    BY <1>3, NewModification, ConstantFacts
  <2>2. pc' = "record" /\ UNCHANGED found
    BY <1>3 DEF Goto
  <2>3. Steady' /\ SavedOK' /\ Changed' = {}
    BY <1>1, <1>2, <2>1, <2>2 DEF Steady, SavedOK, Changed
  <2> QED BY <1>1, <1>2, <1>3, <2>2, <2>3, SameFootprint
<1>4. ASSUME NEW i \in DOMAIN PathDirs, Serves(PathDirs[i]),
             links' = [links EXCEPT ![PathDirs[i]] = IF @ = "none" THEN "lexicon" ELSE @],
             change' = [modified |-> links[PathDirs[i]] = "none",
                        location |-> PathDirs[i]],
             Goto("record"), UNCHANGED next
      PROVE  Steady' /\ Footprint'
  <2> DEFINE d == PathDirs[i]
             free == links[d] = "none"
  <2>1. d \in Places /\ free \in BOOLEAN
    BY ConstantFacts
  <2>2. change' # NoRecord /\ Recorded(change') = IF free THEN {d} ELSE {}
    BY <1>4, <2>1, NewModification, ConstantFacts
  <2>3. pc' = "record" /\ UNCHANGED found
    BY <1>4 DEF Goto
  <2>4. Steady' /\ SavedOK' /\ Changed' = IF free THEN {d} ELSE {}
    BY <1>1, <1>2, <2>2, <2>3 DEF Steady, SavedOK, Changed
  <2>5. CASE free
    <3>1. links' = [links EXCEPT ![d] = "lexicon"]
      BY <1>4, <2>1, <2>5 DEF TypeOK
    <3> HIDE DEF d
    <3> QED BY <1>1, <1>2, <2>1, <2>3, <2>4, <2>5, <3>1, LinkMoved
  <2>6. CASE ~ free
    <3>1. links' = links
      BY <1>1, <1>4, <2>1, <2>6 DEF TypeOK
    <3> QED BY <1>1, <1>2, <2>3, <2>4, <2>6, <3>1, SameFootprint
  <2> QED BY <2>5, <2>6
<1>5. CASE next' = 1 /\ Goto("candidate") /\ UNCHANGED <<links, change>>
  <2>1. pc' = "candidate" /\ UNCHANGED found
    BY <1>5 DEF Goto
  <2>2. Steady' /\ SavedOK' /\ Changed' = {}
    BY <1>1, <1>2, <2>1 DEF Steady, SavedOK, Changed
  <2> QED BY <1>1, <1>2, <1>5, <2>1, <2>2, SameFootprint
<1> QED BY <1>3, <1>4, <1>5 DEF EnsurePath

LEMMA ExportAppended ==
  ASSUME IInv, faults = 0, faults' = 0, AppendExport
  PROVE  Steady' /\ Footprint'
<1> DEFINE p == Candidate
           existing == Read(startup[p])
<1>1. /\ TypeOK /\ Bounds /\ Whole /\ Steady /\ Footprint /\ pc = "candidate"
      /\ UNCHANGED <<cli, record, library, links, next>> /\ ~ Fails
  BY NoFault DEF IInv, AppendExport, At
<1>2. Changed = {} /\ record = NoRecord /\ cli = "ready"
  BY <1>1 DEF Changed, Whole, InstallSteps, PlacedSteps
<1>3. p \in Profiles
  BY <1>1, CandidateFacts DEF Bounds, Candidate
<1>4. Text(existing) \in Written(p)
  BY <1>1, <1>2, <1>3, LeftoverFacts DEF Footprint, ProfileOK
<1>5. CASE /\ change' = [modified |-> FALSE, location |-> p]
           /\ Goto("record") /\ UNCHANGED <<startup, saved>>
  <2>1. change' # NoRecord /\ Recorded(change') = {}
    BY <1>3, <1>5, NewModification, ConstantFacts
  <2>2. pc' = "record" /\ UNCHANGED found
    BY <1>5 DEF Goto
  <2>3. Steady' /\ SavedOK' /\ Changed' = {}
    BY <1>1, <1>2, <2>1, <2>2 DEF Steady, SavedOK, Changed
  <2> QED BY <1>1, <1>2, <1>5, <2>2, <2>3, SameFootprint
<1>6. CASE /\ ~ Present(existing)
           /\ startup' = [startup EXCEPT ![p] = Text(existing \cup {"added"})]
           /\ saved' = existing /\ Goto("verify") /\ UNCHANGED change
  <2>1. pc' = "verify" /\ UNCHANGED found
    BY <1>6 DEF Goto
  <2>2. Candidate' = p
    BY <1>1, <2>1 DEF Candidate, Candidates
  <2>3. Text(existing) \in {Rewritten(found.startup[p]), Restored(found.startup[p])}
    BY <1>4 DEF Written
  <2>4. SavedOK'
    <3> HIDE DEF p, existing
    <3> QED BY <1>6, <2>1, <2>2, <2>3 DEF SavedOK, Written
  <2>5. Steady' /\ Changed' = {p}
    BY <1>1, <1>2, <2>1, <2>2 DEF Steady, Changed
  <2> HIDE DEF p, existing
  <2> QED BY <1>1, <1>2, <1>3, <1>4, <1>6, <2>1, <2>4, <2>5, ProfileWritten
<1> QED BY <1>1, <1>5, <1>6 DEF AppendExport

LEMMA Verified ==
  ASSUME IInv, faults = 0, faults' = 0, Verify
  PROVE  Steady' /\ Footprint'
<1>1. /\ TypeOK /\ Bounds /\ Whole /\ Steady /\ Footprint /\ pc = "verify"
      /\ UNCHANGED <<cli, record, library, links, startup, next, saved, found>>
  BY DEF IInv, Verify, At, Goto, disk
<1>2. Changed = {Candidate} /\ Candidate' = Candidate /\ Candidate \in Profiles
  BY <1>1, CandidateFacts DEF Changed, Candidate, Candidates, Bounds
<1>3. CASE change' = [modified |-> TRUE, location |-> Candidate] /\ Goto("record")
  <2>1. change' # NoRecord /\ Recorded(change') = {Candidate}
    BY <1>2, <1>3, NewModification, ConstantFacts
  <2>2. pc' = "record"
    BY <1>3 DEF Goto
  <2>3. Steady' /\ SavedOK' /\ Changed' = {Candidate}
    BY <1>1, <2>1, <2>2 DEF Steady, SavedOK, Changed
  <2> QED BY <1>1, <1>2, <2>3, SameFootprint
<1>4. CASE Goto("undo")
  <2>1. pc' = "undo"
    BY <1>4 DEF Goto
  <2>2. Steady' /\ Changed' = {Candidate}
    BY <1>1, <1>2, <2>1 DEF Steady, Changed
  <2>3. SavedOK'
    BY <1>1, <1>2 DEF Footprint, SavedOK, Written
  <2> QED BY <1>1, <1>2, <2>2, <2>3, SameFootprint
<1> QED BY <1>3, <1>4 DEF Verify

LEMMA Undone ==
  ASSUME IInv, faults = 0, faults' = 0, Undo
  PROVE  Steady' /\ Footprint'
<1> DEFINE p == Candidate
<1>1. /\ TypeOK /\ Bounds /\ Whole /\ Steady /\ Footprint /\ pc = "undo"
      /\ UNCHANGED <<cli, record, library, links>> /\ ~ Fails
  BY NoFault DEF IInv, Undo, At
<1>2. startup' = [startup EXCEPT ![p] = Text(saved)] /\ Goto("candidate")
  BY <1>1 DEF Undo
<1>3. pc' = "candidate" /\ UNCHANGED found
  BY <1>2 DEF Goto
<1>4. Changed = {p} /\ p \in Profiles
  BY <1>1, CandidateFacts DEF Changed, Candidate, Bounds
<1>5. Steady' /\ SavedOK' /\ Changed' = {}
  BY <1>1, <1>3 DEF Steady, SavedOK, Changed
<1>6. Text(saved) \in Written(p)
  BY <1>1 DEF Footprint, SavedOK
<1> HIDE DEF p
<1> QED BY <1>1, <1>2, <1>3, <1>4, <1>5, <1>6, ProfileWritten

LEMMA RecordWritten ==
  ASSUME IInv, faults = 0, faults' = 0, WriteRecord
  PROVE  Steady' /\ Footprint'
<1>1. /\ TypeOK /\ Steady /\ Footprint /\ pc = "record" /\ cli # "none"
      /\ UNCHANGED <<cli, links, startup, change>> /\ ~ Fails
  BY NoFault DEF IInv, WriteRecord, At, local
<1>2. library' = TRUE /\ record' = change /\ Return("installed")
  BY <1>1 DEF WriteRecord
<1>3. pc' = "idle" /\ UNCHANGED found
  BY <1>2 DEF Return
<1>4. change # NoRecord /\ change # Torn
  BY <1>1, ConstantFacts DEF Steady, TypeOK
<1>5. Steady' /\ SavedOK'
  BY <1>1, <1>2, <1>3, <1>4 DEF Steady, SavedOK
<1>6. Changed' = Changed
  BY <1>1, <1>2, <1>3 DEF Changed
<1> QED BY <1>1, <1>3, <1>5, <1>6, SameFootprint

LEMMA CliRemoved ==
  ASSUME IInv, faults = 0, faults' = 0, RemoveCli
  PROVE  Steady' /\ Footprint'
<1>1. /\ TypeOK /\ Steady /\ Footprint /\ pc = "remove" /\ pc' = "reverse"
      /\ cli' = "none" /\ UNCHANGED <<record, library, links, startup, found, change>>
  BY NoFault DEF IInv, RemoveCli, At, Goto, local
<1>2. Steady' /\ SavedOK' /\ Changed' = Changed
  BY <1>1 DEF Steady, SavedOK, Changed
<1> QED BY <1>1, <1>2, SameFootprint

LEMMA Reversed ==
  ASSUME IInv, faults = 0, faults' = 0, Reverse
  PROVE  Steady' /\ Footprint'
<1> DEFINE at == change.location
<1>1. /\ TypeOK /\ Steady /\ Footprint /\ pc = "reverse"
      /\ UNCHANGED <<cli, record, library, change>> /\ ~ Ignored("forget")
  BY NoFault DEF IInv, Reverse, At, local
<1>2. Goto("forget")
  BY <1>1 DEF Reverse
<1>3. pc' = "forget" /\ UNCHANGED found
  BY <1>2 DEF Goto
<1>4. change \in Modifications /\ Changed = Recorded(change)
  BY <1>1 DEF Steady, TypeOK, Changed
<1>5. Steady' /\ SavedOK' /\ Changed' = {}
  BY <1>1, <1>3 DEF Steady, SavedOK, Changed
<1>6. CASE ~ change.modified
  <2>1. UNCHANGED <<links, startup>>
    BY <1>6, <1>4 DEF Reverse
  <2>2. Changed = {}
    BY <1>4, <1>6 DEF Recorded
  <2> QED BY <1>1, <1>3, <1>5, <2>1, <2>2, SameFootprint
<1>7. CASE change.modified
  <2>1. Changed = {at} /\ at \in Places \cup Profiles
    BY <1>1, <1>4, <1>7 DEF Recorded, Footprint
  <2>2. CASE at \in Places
    <3>1. links' = [links EXCEPT ![at] = "none"] /\ UNCHANGED startup
      BY <1>1, <1>4, <1>7, <2>2, ConstantFacts DEF Reverse
    <3> HIDE DEF at
    <3> QED BY <1>1, <1>3, <1>5, <2>1, <2>2, <3>1, LinkMoved
  <2>3. CASE at \in Profiles
    <3>1. startup' = [startup EXCEPT ![at] = Stripped(@)] /\ UNCHANGED links
      BY <1>1, <1>4, <1>7, <2>3, ConstantFacts DEF Reverse
    <3>2. PICK file \in Written(at) :
            ~ Present(file.lines) /\ startup[at] = Text(file.lines \cup {"added"})
      BY <1>1, <2>1, <2>3 DEF Footprint, ProfileOK
    <3>3. Stripped(startup[at]) \in Written(at)
      BY <2>3, <3>2, StrippedFacts
    <3>4. PICK lines : Stripped(startup[at]) = Text(lines)
      BY <3>3 DEF Written, Rewritten, Restored
    <3>5. startup' = [startup EXCEPT ![at] = Text(lines)] /\ Text(lines) \in Written(at)
      BY <3>1, <3>3, <3>4
    <3> HIDE DEF at
    <3> QED BY <1>1, <1>3, <1>5, <2>1, <2>3, <3>1, <3>5, ProfileWritten
  <2> QED BY <2>1, <2>2, <2>3
<1> QED BY <1>4, <1>6, <1>7 DEF Modifications

LEMMA RecordForgotten ==
  ASSUME IInv, faults = 0, faults' = 0, Forget \/ Tidy
  PROVE  Steady' /\ Footprint'
<1>1. /\ TypeOK /\ Steady /\ Footprint /\ ~ Ignored("tidy")
      /\ UNCHANGED <<cli, links, startup, change>>
  BY NoFault DEF IInv, Forget, Tidy, local
<1>2. CASE Forget
  <2>1. pc = "forget" /\ pc' = "tidy" /\ record' = NoRecord /\ UNCHANGED <<library, found>>
    BY <1>1, <1>2 DEF Forget, At, Goto
  <2>2. Steady' /\ SavedOK' /\ Changed' = Changed
    BY <1>1, <2>1, ConstantFacts DEF Steady, SavedOK, Changed
  <2> QED BY <1>1, <2>1, <2>2, SameFootprint
<1>3. CASE Tidy
  <2>1. /\ pc = "tidy" /\ pc' = "idle" /\ record' = record /\ UNCHANGED found
        /\ library' = (record # NoRecord /\ library)
    BY <1>3 DEF Tidy, At, Return
  <2>2. record = NoRecord /\ cli = "none"
    BY <1>1, <2>1 DEF Steady
  <2>3. Steady' /\ SavedOK'
    BY <1>1, <2>1, <2>2, ConstantFacts DEF Steady, SavedOK
  <2>4. Changed = {} /\ Changed' = {}
    BY <2>1, <2>2, ConstantFacts DEF Changed, Recorded
  <2> QED BY <1>1, <2>1, <2>3, <2>4, SameFootprint
<1> QED BY <1>2, <1>3

LEMMA FootprintKept ==
  ASSUME IInv, [Next]_vars, faults = 0, faults' = 0
  PROVE  Steady' /\ Footprint'
<1>1. CASE UNCHANGED vars
  <2>1. TypeOK /\ Steady /\ Footprint /\ UNCHANGED <<links, startup, found>>
    BY <1>1 DEF IInv, vars, disk
  <2>2. Steady' /\ SavedOK' /\ Changed' = Changed
    BY <1>1, <2>1 DEF vars, disk, local, Steady, Footprint, SavedOK, Changed,
                      Candidate, Candidates, Written
  <2> QED BY <2>1, <2>2, SameFootprint
<1>2. CASE InstallStep
  BY <1>2, ExecutablePlaced, PathEnsured, ExportAppended, Verified, Undone,
     RecordWritten DEF InstallStep
<1>3. CASE UninstallStep
  BY <1>3, CliRemoved, Reversed, RecordForgotten DEF UninstallStep
<1> QED BY <1>1, <1>2, <1>3, RunsAround DEF Next

-----------------------------------------------------------------------------
(* Theorems                                                                *)

THEOREM Invariance == Spec => []IInv
<1>1. IInv /\ [Next]_vars => IInv'
  BY TypesKept, WholeKept, FaultsGrow, FootprintKept DEF IInv
<1> QED BY <1>1, InitOK, PTL DEF Spec

\* Every variable keeps its type: the run knows at each step which modification
\* and which file it works on, and never runs out of candidates.
THEOREM TypeCorrectness == Spec => []TypeOK
<1>1. IInv => TypeOK
  BY DEF IInv
<1> QED BY <1>1, Invariance, PTL

\* Whatever failed or was killed and however often: where there are an
\* executable and a record, which is what detect_state calls installed, the
\* executable is complete and may be run.
THEOREM WholeInstallation == Spec => []InstalledIsWhole
<1>1. IInv => InstalledIsWhole
  BY DEF IInv, Whole, InstalledIsWhole, Detect
<1> QED BY <1>1, Invariance, PTL

\* As long as nothing failed, the links and the startup files are what they were
\* before the first run but for the one change the record names, in both
\* directions: nothing is left behind and nothing of the user's is taken away,
\* except by what Rewritten and Restored say a startup file loses
\* (ensure_linux_path, reverse_path_modification).
THEOREM ExactFootprint == Spec => []FootprintMatchesRecord
<1>1. ASSUME IInv, faults = 0, pc = "idle"
      PROVE  FootprintMatchesRecord
  <2> DEFINE changed(at) == record # NoRecord /\ record = [modified |-> TRUE, location |-> at]
  <2>1. TypeOK /\ Steady /\ Footprint
    BY <1>1 DEF IInv
  <2>2. record = NoRecord \/ record \in Modifications
    BY <2>1 DEF TypeOK, Steady
  <2>3. ASSUME NEW at PROVE changed(at) <=> at \in Changed
    <3>1. Changed = Recorded(record)
      BY <1>1 DEF Changed
    <3>2. CASE record = NoRecord
      BY <3>1, <3>2, ConstantFacts DEF Recorded
    <3>3. CASE record \in Modifications
      BY <3>1, <3>3, ConstantFacts DEF Recorded, Modifications
    <3> QED BY <2>2, <3>2, <3>3
  <2> HIDE DEF changed
  <2>4. library <=> record # NoRecord
    BY <1>1, <2>1 DEF Steady
  <2>5. \A d \in Places :
          IF changed(d) THEN links[d] = "lexicon" /\ found.links[d] = "none"
                        ELSE links[d] = found.links[d]
    BY <2>1, <2>3 DEF Footprint, LinkOK
  <2>6. \A p \in Profiles :
          IF changed(p) THEN \E file \in Written(p) :
                               startup[p] = Text(file.lines \cup {"added"})
                        ELSE startup[p] \in {found.startup[p]} \cup Written(p)
    BY <2>1, <2>3 DEF Footprint, ProfileOK
  <2> QED BY <2>4, <2>5, <2>6 DEF FootprintMatchesRecord, changed, Written
<1>2. IInv => FootprintMatchesRecord
  BY <1>1 DEF FootprintMatchesRecord, At
<1> QED BY <1>2, Invariance, PTL

=============================================================================
