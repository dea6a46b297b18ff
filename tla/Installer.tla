------------------------------ MODULE Installer ------------------------------
(***************************************************************************)
(* lexicon-bundle: one installer run after the other puts the lexicon      *)
(* executable in place, makes it reachable as a bare command (a symbolic   *)
(* link in a directory of PATH, else a line in a startup file of a shell)  *)
(* and writes down what it changed; an uninstallation reads that back.     *)
(* Any file operation may fail, a write may be cut short, and a run may be *)
(* killed.  Linux only; one run at a time.                                 *)
(***************************************************************************)
EXTENDS Naturals, Sequences

CONSTANTS
  PathDirs,    \* the directories of PATH, in its order
  Contents,    \* what a startup file may hold before the first run
  MaxFaults,   \* bound: failures and kills
  NoRecord, Torn   \* no installation record; one that does not parse

Profiles == {"bashrc", "zshrc", "profile"}
Places   == {PathDirs[i] : i \in DOMAIN PathDirs}

\* The lines of a startup file that matter: the user's own text; the export line
\* as the user wrote it, ended by a newline ("exact"; behind a # it does not
\* export, but counts); the same ended by the file, or by a blank or a CR
\* ("loose"); and what an installation appends, the marker and the line.
Lines       == {"text", "exact", "loose", "added"}
ExportLines == {"exact", "loose", "added"}

\* A startup file: whether it is UTF-8, and its lines.
Files ==
  {f \in [exists : BOOLEAN, utf8 : BOOLEAN, lines : SUBSET Lines] :
     f.lines # {} => f.exists}

\* A file as it is written.
Text(lines) == [exists |-> TRUE, utf8 |-> TRUE, lines |-> lines]

\* PathModification, what the record keeps; "path" when bin_dir was on PATH.
Modifications == [modified : BOOLEAN, location : Places \cup Profiles \cup {"path"}]

ASSUME InstallerAssumption ==
  /\ PathDirs \in Seq(Places) /\ MaxFaults \in Nat
  /\ Contents \subseteq Files
  /\ Places \cap (Profiles \cup {"path"}) = {}
  /\ NoRecord # Torn /\ {NoRecord, Torn} \cap Modifications = {}

VARIABLES
  pc,        \* what the run does next; "idle" between two runs
  cli,       \* ~/.local/bin/lexicon
  record,    \* installation-record.toml
  library,   \* whether the record's directory exists
  links,     \* per directory of PATH: what is called lexicon there
  startup,   \* per startup file: its content
  onPath,    \* whether PATH has ~/.local/bin in the user's terminal
  found,     \* history: the surroundings before the first run
  next,      \* index of the startup file tried
  saved,     \* its lines as read
  change,    \* the modification to be recorded, or to be reversed
  result,    \* what the last run reported
  faults     \* failures and kills so far

disk  == <<cli, record, library, links, startup>>
local == <<next, saved, change>>
vars  == <<pc, disk, onPath, found, local, result, faults>>

Init ==
  /\ pc = "idle" /\ cli = "none" /\ record = NoRecord /\ library = FALSE
  /\ links \in [Places -> {"none", "other", "lexicon"}]
  /\ startup \in [Profiles -> Contents]
  /\ onPath \in BOOLEAN
  /\ \E writable \in SUBSET Places, shell \in Profiles :
       found = [links |-> links, startup |-> startup, onPath |-> onPath,
                writable |-> writable, shell |-> shell]
  /\ next = 0 /\ saved = {}
  /\ change = NoRecord /\ result = "none" /\ faults = 0

-----------------------------------------------------------------------------
(* Steps of a run                                                          *)

At(label)   == pc = label
Goto(label) == pc' = label /\ UNCHANGED <<result, faults, onPath, found>>
Return(r)   == pc' = "idle" /\ result' = r /\ UNCHANGED <<faults, onPath, found>>

\* A run that fails reports it and undoes nothing.
Fails ==
  /\ faults < MaxFaults /\ faults' = faults + 1
  /\ pc' = "idle" /\ result' = "failed" /\ UNCHANGED <<onPath, found>>

\* An error the run ignores.
Ignored(label) ==
  /\ faults < MaxFaults /\ faults' = faults + 1
  /\ pc' = label /\ UNCHANGED <<result, onPath, found>>

\* detect_state: whether the two files exist, not what is in them.
Detect ==
  CASE cli = "none" /\ record = NoRecord -> "not installed"
    [] cli # "none" /\ record # NoRecord -> "installed"
    [] OTHER -> "damaged"

\* `install`, `--install`, or the menu.
Install ==
  /\ At("idle") /\ Detect = "not installed"
  /\ pc' = "extract" /\ result' = "none"
  /\ UNCHANGED <<disk, local, onPath, found, faults>>

\* `--install` otherwise: "Installation status: Installed. Nothing to do."
AlreadyInstalled ==
  /\ At("idle") /\ Detect # "not installed"
  /\ Return("already") /\ UNCHANGED <<disk, local>>

-----------------------------------------------------------------------------
(* Installation                                                            *)

\* validate_archive, extract_to_staging: the executable is in a staging
\* directory of this run, which nothing else ever looks at.
Extract ==
  /\ At("extract")
  /\ Goto("place") \/ Fails
  /\ UNCHANGED <<disk, local>>

\* atomic_install: a rename or, across file systems, a copy, which may end
\* half-way.
Place ==
  /\ At("place")
  /\ \/ cli' = "plain" /\ Goto("chmod")
     \/ cli' \in {"none", "part"} /\ Fails
  /\ UNCHANGED <<record, library, links, startup, local>>

\* A mutant: an installation goes on when this fails.
SetExecutableIgnored ==
  /\ At("chmod")
  /\ cli' \in {"plain", "ready"} /\ Goto("path")
  /\ UNCHANGED <<record, library, links, startup, local>>

\* set_executable
SetExecutable ==
  /\ At("chmod")
  /\ \/ cli' = "ready" /\ Goto("path")
     \/ UNCHANGED cli /\ Fails
  /\ UNCHANGED <<record, library, links, startup, local>>

\* try_symlink_into_path: the link is there, or it can be made.
Serves(d) == links[d] = "lexicon" \/ (links[d] = "none" /\ d \in found.writable)

\* ensure_linux_path: nothing to do, else the first directory that serves,
\* else the startup files.
EnsurePath ==
  /\ At("path")
  /\ \/ /\ onPath
        /\ change' = [modified |-> FALSE, location |-> "path"]
        /\ Goto("record") /\ UNCHANGED <<links, next>>
     \/ \E i \in DOMAIN PathDirs : LET d == PathDirs[i] IN
          /\ ~ onPath /\ Serves(d) /\ \A j \in 1 .. i - 1 : ~ Serves(PathDirs[j])
          /\ links' = [links EXCEPT ![d] = IF @ = "none" THEN "lexicon" ELSE @]
          /\ change' = [modified |-> links[d] = "none", location |-> d]
          /\ Goto("record") /\ UNCHANGED next
     \/ /\ ~ onPath /\ \A d \in Places : ~ Serves(d)
        /\ next' = 1 /\ Goto("candidate") /\ UNCHANGED <<links, change>>
  /\ UNCHANGED <<cli, record, library, startup, saved>>

\* candidate_profiles: the likely one first.
Candidates ==
  CASE found.shell = "zshrc"  -> <<"zshrc", "bashrc", "profile">>
    [] found.shell = "bashrc" -> <<"bashrc", "profile", "zshrc">>
    [] OTHER                  -> <<"profile", "bashrc", "zshrc">>
Candidate == Candidates[next]

\* read_to_string(..).unwrap_or_default(): what cannot be read is empty.
Read(file) == IF file.exists /\ file.utf8 THEN file.lines ELSE {}

\* existing.contains(&export_line), which ends with a newline.
Present(lines) == lines \cap {"exact", "added"} # {}

\* What a write of new contents can leave when it fails: the old file, or as
\* much as was written, perhaps with the newline that ends a loose line.
CutShort(old, lines) ==
  {old} \cup {Text(written) :
    written \in SUBSET (lines \cup IF "loose" \in lines THEN {"exact"} ELSE {})}

\* ensure_linux_path_via_profile, up to the write of one startup file.
AppendExport ==
  LET p == Candidate
      existing == Read(startup[p]) IN
  /\ At("candidate")
  /\ \/ /\ Present(existing)
        /\ change' = [modified |-> FALSE, location |-> p]
        /\ Goto("record") /\ UNCHANGED <<startup, saved>>
     \/ /\ ~ Present(existing)
        /\ startup' = [startup EXCEPT ![p] = Text(existing \cup {"added"})]
        /\ saved' = existing
        /\ Goto("verify") /\ UNCHANGED change
     \/ /\ ~ Present(existing)
        /\ \E rest \in CutShort(startup[p], existing) :
             startup' = [startup EXCEPT ![p] = rest]
        /\ Fails /\ UNCHANGED <<saved, change>>
  /\ UNCHANGED <<cli, record, library, links, next>>

\* verify_path_picked_up: a shell is asked; the last candidate is kept
\* whatever the answer.
Verify ==
  /\ At("verify")
  /\ \/ /\ change' = [modified |-> TRUE, location |-> Candidate]
        /\ Goto("record")
     \/ next < Len(Candidates) /\ Goto("undo") /\ UNCHANGED change
  /\ UNCHANGED <<disk, next, saved>>

\* The rejected candidate gets back what was read of it.
Undo ==
  /\ At("undo")
  /\ \/ /\ startup' = [startup EXCEPT ![Candidate] = Text(saved)]
        /\ next' = next + 1 /\ Goto("candidate")
     \/ /\ \E rest \in CutShort(startup[Candidate], saved) :
             startup' = [startup EXCEPT ![Candidate] = rest]
        /\ Fails /\ UNCHANGED next
  /\ UNCHANGED <<cli, record, library, links, saved, change>>

\* write_record, the last step: its directory is made first, and the file
\* is written in place.
WriteRecord ==
  /\ At("record") /\ cli # "none"
  /\ \/ library' = TRUE /\ record' = change /\ Return("installed")
     \/ UNCHANGED <<library, record>> /\ Fails
     \/ library' = TRUE /\ record' \in {NoRecord, Torn} /\ Fails
  /\ UNCHANGED <<cli, links, startup, local>>

-----------------------------------------------------------------------------
(* Uninstallation                                                          *)

\* `uninstall`, `--uninstall`, or the menu; what does not parse is no record.
Uninstall ==
  /\ At("idle") /\ Detect # "not installed"
  /\ change' = IF record = Torn THEN NoRecord ELSE record
  /\ pc' = "remove" /\ result' = "none"
  /\ UNCHANGED <<disk, next, saved, onPath, found, faults>>

\* do_uninstall: without its executable it goes on, else a failure ends it.
RemoveCli ==
  /\ At("remove")
  /\ \/ cli' = "none" /\ Goto("reverse")
     \/ UNCHANGED cli /\ cli # "none" /\ Fails
  /\ UNCHANGED <<record, library, links, startup, local>>

\* reverse_profile_append: every line goes that is the export line or the marker
\* when trimmed, whoever wrote it.
Stripped(file) ==
  IF file.exists /\ file.utf8 THEN Text(file.lines \ ExportLines) ELSE file

\* A mutant: what was found in place is reversed too.
ReverseUnmodified ==
  LET at == change.location
      recorded == change # NoRecord /\ at # "path" IN
  /\ At("reverse")
  /\ \/ /\ ~ recorded
        /\ Goto("forget") /\ UNCHANGED <<links, startup>>
     \/ /\ recorded /\ at \in Places
        /\ \/ links' = [links EXCEPT ![at] = "none"] /\ Goto("forget")
           \/ UNCHANGED links /\ Ignored("forget")
        /\ UNCHANGED startup
     \/ /\ recorded /\ at \in Profiles
        /\ \/ startup' = [startup EXCEPT ![at] = Stripped(@)] /\ Goto("forget")
           \/ /\ \E rest \in CutShort(startup[at], Stripped(startup[at]).lines) :
                   startup' = [startup EXCEPT ![at] = rest]
              /\ Ignored("forget")
        /\ UNCHANGED links
  /\ UNCHANGED <<cli, record, library, local>>

\* do_uninstall, reverse_path_modification: only what the record says was
\* modified; their errors are ignored.
Reverse ==
  LET recorded == change # NoRecord /\ change.modified
      at == change.location IN
  /\ At("reverse")
  /\ \/ /\ ~ recorded
        /\ Goto("forget") /\ UNCHANGED <<links, startup>>
     \/ /\ recorded /\ at \in Places
        /\ \/ links' = [links EXCEPT ![at] = "none"] /\ Goto("forget")
           \/ UNCHANGED links /\ Ignored("forget")
        /\ UNCHANGED startup
     \/ /\ recorded /\ at \in Profiles
        /\ \/ startup' = [startup EXCEPT ![at] = Stripped(@)] /\ Goto("forget")
           \/ /\ \E rest \in CutShort(startup[at], Stripped(startup[at]).lines) :
                   startup' = [startup EXCEPT ![at] = rest]
              /\ Ignored("forget")
        /\ UNCHANGED links
  /\ UNCHANGED <<cli, record, library, local>>

\* The record is removed after what it describes.
Forget ==
  /\ At("forget")
  /\ \/ record' = NoRecord /\ Goto("tidy")
     \/ record # NoRecord /\ UNCHANGED record /\ Ignored("tidy")
  /\ UNCHANGED <<cli, library, links, startup, local>>

\* remove_if_empty_and_lexicon_owned: of the two directories only the
\* record's is called lexicon.
Tidy ==
  /\ At("tidy")
  /\ library' = (record # NoRecord /\ library)
  /\ Return(IF cli = "none" /\ record = NoRecord THEN "uninstalled"
            ELSE "failed")
  /\ UNCHANGED <<cli, record, links, startup, local>>

-----------------------------------------------------------------------------
(* Around the runs                                                         *)

\* A run is killed.  In the middle of a write it leaves what a failing one
\* does.
Kill == ~ At("idle") /\ Fails /\ UNCHANGED <<disk, local>>

\* The user goes on in another terminal; its shell may read a startup file.
NewTerminal ==
  /\ At("idle")
  /\ onPath' \in {found.onPath,
                  found.onPath \/ \E p \in Profiles : startup[p].lines \cap ExportLines # {}}
  /\ UNCHANGED <<pc, disk, local, found, result, faults>>

InstallStep ==
  \/ Extract \/ Place \/ SetExecutable \/ EnsurePath \/ AppendExport
  \/ Verify \/ Undo \/ WriteRecord
UninstallStep == RemoveCli \/ Reverse \/ Forget \/ Tidy

Next ==
  \/ Install \/ AlreadyInstalled \/ Uninstall
  \/ InstallStep \/ UninstallStep
  \/ Kill \/ NewTerminal

Spec == Init /\ [][Next]_vars

-----------------------------------------------------------------------------
(* Properties                                                              *)

\* Every variable has its type.
TypeOK ==
  /\ pc \in {"idle", "extract", "place", "chmod", "path", "candidate",
             "verify", "undo", "record", "remove", "reverse", "forget", "tidy"}
  /\ cli \in {"none", "part", "plain", "ready"}
  /\ record \in Modifications \cup {NoRecord, Torn}
  /\ library \in BOOLEAN /\ onPath \in BOOLEAN
  /\ links \in [Places -> {"none", "other", "lexicon"}]
  /\ startup \in [Profiles -> Files]
  /\ next \in 0 .. 3 /\ saved \subseteq Lines
  /\ change \in Modifications \cup {NoRecord}
  /\ result \in {"none", "installed", "already", "uninstalled", "failed"}
  /\ faults \in 0 .. MaxFaults

\* What detect_state calls installed is a complete executable that may be
\* run, wherever earlier runs failed, were cut short or were killed
\* (install.rs: the record is written last and the executable removed first).
InstalledIsWhole == Detect = "installed" => cli = "ready"

\* What an installation leaves of a startup file when it takes a candidate back,
\* and when it is uninstalled: there is a file now, of what was not UTF-8 nothing
\* is left, and a line that only the trimmed comparison finds is gone.
Rewritten(file) == Text(Read(file))
Restored(file)  == Text(Read(file) \ {"loose"})

\* As long as nothing failed, the links and the startup files differ from those
\* before the first run by exactly what the record says, and not at all without
\* one, whatever the terminals of the runs: nothing of lexicon's is left behind,
\* and no link and no line of the user's is taken away, but for a loose export
\* line in the file lexicon appended to, which the reversal takes for its own,
\* for the contents of a file that is not UTF-8, and for a missing file, which is
\* left empty (envpath.rs: candidates, their undoing, the reversal; "something
\* else owns this name; don't clobber it").
FootprintMatchesRecord ==
  faults = 0 /\ At("idle") =>
    LET changed(at) ==
          record # NoRecord /\ record = [modified |-> TRUE, location |-> at] IN
    /\ library <=> record # NoRecord
    /\ \A d \in Places :
         IF changed(d) THEN links[d] = "lexicon" /\ found.links[d] = "none"
                       ELSE links[d] = found.links[d]
    /\ \A p \in Profiles :
         LET before  == found.startup[p]
             written == {Rewritten(before), Restored(before)} IN
         IF changed(p) THEN \E file \in written :
                              startup[p] = Text(file.lines \cup {"added"})
                       ELSE startup[p] \in {before} \cup written

=============================================================================
