----------------------------- MODULE ProjectTree -----------------------------
(***************************************************************************)
(* A project and its sources as directories (lib.rs): `lexicon init` and   *)
(* `lexicon source create` build a directory under a temporary name beside *)
(* its destination and rename it; `lexicon build` reads the sources root   *)
(* entry by entry and builds what it finds, if the workspaces in it are as *)
(* ManagedWorkspace says.  Several commands run at once, any may be        *)
(* killed, a temporary directory of a source lies among the sources, and   *)
(* users edit and copy sources, also while they are built.                 *)
(***************************************************************************)
EXTENDS ManagedWorkspace, Naturals

CONSTANTS
  Names,       \* source names
  Project,     \* the project directory
  Creators,    \* commands that create the project or a source
  Builders,    \* commands that build all sources or use one
  Spellings,   \* how users spell the protocol: "http" or "HTTP"
  Killable,    \* creators that may be killed
  FaultProne,  \* creators whose file operations or cargo may fail
  MaxEdits,    \* bound: edits and copies of a source by its users
  Absent       \* no directory

Destinations == Names \cup {Project}

\* How far a directory is filled: a source gets its http directory, then
\* source.toml, then the other files, then its lockfiles; a project is
\* complete with lexicon.toml.
Fill == {"empty", "layout", "manifest", "files", "complete"}

\* What a directory may hold: how far it is filled, name and protocol of its
\* source.toml, its creator and its workspaces.
Directories ==
  [fill : Fill, name : Destinations, protocol : Spellings, by : Creators,
   workspaces : [Operations -> Workspaces(Destinations)]]

ASSUME TreeAssumption ==
  /\ Project \notin Names
  /\ Creators \cap (Names \cup {Project}) = {}
  /\ Killable \subseteq Creators /\ FaultProne \subseteq Creators
  /\ Spellings \subseteq {"http", "HTTP"}
  /\ MaxEdits \in Nat
  /\ Absent \notin Directories

VARIABLES
  dir,       \* what lies at a destination, or at the temporary name of a creator
  sources,   \* whether the sources root exists
  create,    \* control state of each creator
  build,     \* control state of each builder
  edits      \* edits and copies so far

vars == <<dir, sources, create, build, edits>>

\* A mutant: source.toml names the temporary directory.
ContentMisnamed(fill, c) ==
  [fill |-> fill, name |-> c, protocol |-> create[c].protocol, by |-> c,
   workspaces |-> [o \in Operations |-> Scaffold(create[c].target, o)]]

\* The workspaces are there with the other files.
Content(fill, c) ==
  [fill |-> fill, name |-> create[c].target, protocol |-> create[c].protocol,
   by |-> c,
   workspaces |-> [o \in Operations |-> Scaffold(create[c].target, o)]]

Present(d) == dir[d] # Absent

\* find_project_root: one project around the working directory.
ProjectFound == Present(Project)

\* load_project_config: lexicon.toml is there and valid.
Configured == dir[Project].fill = "complete"

\* compiling is the target whose workspaces were found to fit; disturbed
\* (they were edited since) and published (the sources there when the command
\* listed them) are history.
Idle == [pc |-> "idle", todo |-> {}, targets |-> {}, compiling |-> {},
         disturbed |-> FALSE, succeeded |-> {}, failed |-> {},
         published |-> {}]

Init ==
  /\ dir = [d \in Destinations \cup Creators |-> Absent]
  /\ sources = FALSE
  /\ create \in [Creators -> [pc : {"check"}, target : Destinations,
                              protocol : Spellings]]
  /\ build = [b \in Builders |-> Idle]
  /\ edits = 0

-----------------------------------------------------------------------------
(* Creating a project or a source                                          *)

At(c, pc)   == create[c].pc = pc
Goto(c, pc) == create' = [create EXCEPT ![c].pc = pc]
IsSource(c) == create[c].target \in Names

\* An error: the temporary directory is removed, or at least that is tried.
Fails(c) ==
  /\ Goto(c, "failed")
  /\ \/ dir' = [dir EXCEPT ![c] = Absent]
     \/ c \in FaultProne /\ UNCHANGED dir

\* Any operation of a creator may fail before it did anything.
Fault(c) ==
  /\ c \in FaultProne
  /\ create[c].pc \notin {"done", "failed", "killed"}
  /\ Fails(c)
  /\ UNCHANGED <<sources, build, edits>>

\* The temporary directory of a killed creator stays.
Kill(c) ==
  /\ c \in Killable
  /\ create[c].pc \notin {"done", "failed", "killed"}
  /\ Goto(c, "killed")
  /\ UNCHANGED <<dir, sources, build, edits>>

\* A source needs a configured project around it and a free destination.
CheckSource(c) ==
  /\ At(c, "check")
  /\ IsSource(c)
  /\ IF ProjectFound /\ Configured /\ ~ Present(create[c].target)
       THEN Goto(c, "root")
       ELSE Goto(c, "failed")
  /\ UNCHANGED <<dir, sources, build, edits>>

\* A project needs a free destination (and no project around it).
CheckProject(c) ==
  /\ At(c, "check")
  /\ ~ IsSource(c)
  /\ Goto(c, IF Present(Project) THEN "failed" ELSE "stage")
  /\ UNCHANGED <<dir, sources, build, edits>>

\* create_dir_all of the sources root
MakeRoot(c) ==
  /\ At(c, "root")
  /\ sources' = TRUE
  /\ Goto(c, "stage")
  /\ UNCHANGED <<dir, build, edits>>

\* tempdir_in beside the destination; another creator's clean-up may have
\* removed the empty sources root meanwhile.
Stage(c) ==
  /\ At(c, "stage")
  /\ \/ /\ IsSource(c) => sources
        /\ dir' = [dir EXCEPT ![c] = Content("empty", c)]
        /\ Goto(c, "fill")
     \/ /\ IsSource(c) /\ ~ sources
        /\ Goto(c, "failed")
        /\ UNCHANGED dir
  /\ UNCHANGED <<sources, build, edits>>

\* A mutant: the lockfiles are left to the first build.
FillWithoutLockfiles(c) ==
  /\ At(c, "fill")
  /\ \E step \in {<<"empty", "layout">>, <<"layout", "manifest">>,
                  <<"manifest", "files">>} :
       /\ dir[c].fill = step[1]
       /\ dir' = [dir EXCEPT ![c].fill = step[2]]
       /\ Goto(c, IF step[2] = "files" THEN "finalize" ELSE "fill")
  /\ UNCHANGED <<sources, build, edits>>

\* Directories, source.toml, the other files, the lockfiles by cargo; sources
\* directory and lexicon.toml of a project.
FillStaging(c) ==
  /\ At(c, "fill")
  /\ \E step \in IF IsSource(c)
                   THEN {<<"empty", "layout">>, <<"layout", "manifest">>,
                         <<"manifest", "files">>, <<"files", "complete">>}
                   ELSE {<<"empty", "complete">>} :
       /\ dir[c].fill = step[1]
       /\ dir' = [dir EXCEPT ![c].fill = step[2]]
       /\ Goto(c, IF step[2] = "complete" THEN "finalize" ELSE "fill")
  /\ UNCHANGED <<sources, build, edits>>

\* The rename: what is there, and not empty, is never replaced.
Renames(c) ==
  /\ ~ Present(create[c].target)
  /\ dir' = [dir EXCEPT ![create[c].target] = dir[c], ![c] = Absent]

\* Nothing is left in the sources root.
RootEmptied ==
  \A d \in Names \cup {c \in Creators : IsSource(c)} : dir'[d] = Absent

FinalizeSource(c) ==
  /\ At(c, "finalize")
  /\ IsSource(c)
  /\ \/ Renames(c) /\ Goto(c, "done") /\ UNCHANGED sources
     \/ /\ Present(create[c].target) \/ c \in FaultProne
        /\ Fails(c)
        /\ sources' = (sources /\ ~ RootEmptied)
  /\ UNCHANGED <<build, edits>>

\* The project appears together with its sources root.
FinalizeProject(c) ==
  /\ At(c, "finalize")
  /\ ~ IsSource(c)
  /\ \/ Renames(c) /\ Goto(c, "done") /\ sources' = TRUE
     \/ /\ Present(Project) \/ c \in FaultProne
        /\ Fails(c)
        /\ UNCHANGED sources
  /\ UNCHANGED <<build, edits>>

-----------------------------------------------------------------------------
(* Building all sources, and resolving one                                 *)

Published == {n \in Names : Present(n)}

\* What lies in the sources root: sources, and temporary directories of sources.
Entries ==
  IF sources THEN Published \cup {c \in Creators : IsSource(c) /\ Present(c)}
             ELSE {}

\* The project is found and the entries of its sources root are listed.
List(b) ==
  /\ build[b].pc = "idle"
  /\ ProjectFound /\ Configured
  /\ build' = [build EXCEPT ![b] =
       [Idle EXCEPT !.pc = "discover", !.todo = Entries, !.published = Published]]
  /\ UNCHANGED <<dir, sources, create, edits>>

\* A mutant: the name in source.toml is not compared.
AcceptedAnyName(d) ==
  /\ Present(d)
  /\ dir[d].fill \notin {"empty", "layout"}
  /\ dir[d].protocol = "http"

\* An http directory with a source.toml that names this source and protocol.
Accepted(d) ==
  /\ Present(d)
  /\ dir[d].fill \notin {"empty", "layout"}
  /\ dir[d].name = d
  /\ dir[d].protocol = "http"

\* The sources root lies in the project, and the source, operation, data and
\* runtime directories are there.
LaidOut(d) == Present(d) /\ dir[d].fill # "empty"

\* A data command resolves the source it is given; any entry of the sources
\* root may be named.
Resolve(b) ==
  /\ build[b].pc = "idle"
  /\ ProjectFound /\ Configured
  /\ \E d \in Entries :
       build' = [build EXCEPT ![b] =
         IF LaidOut(d) /\ Accepted(d)
           THEN [Idle EXCEPT !.pc = "resolved", !.targets = {d}]
           ELSE [Idle EXCEPT !.pc = "refused"]]
  /\ UNCHANGED <<dir, sources, create, edits>>

\* One entry; an entry that is not accepted ends the command.
Visit(b) ==
  /\ build[b].pc = "discover"
  /\ \E d \in build[b].todo :
       \/ /\ Accepted(d)
          /\ build' = [build EXCEPT ![b].todo = @ \ {d}, ![b].targets = @ \cup {d}]
       \/ /\ ~ Accepted(d)
          /\ build' = [build EXCEPT ![b].pc = "refused"]
  /\ UNCHANGED <<dir, sources, create, edits>>

Attempted(b) == {x.source : x \in build[b].succeeded} \cup build[b].failed

\* The checks of build_source on a source's directory.
Fits(t) ==
  /\ Accepted(t) /\ dir[t].fill = "complete"
  /\ \A o \in Operations :
       /\ LayoutFits(dir[t].workspaces[o], t, o)
       /\ MetadataFits(dir[t].workspaces[o], t, o)

\* One target, one after the other: a source that does not fit fails, and
\* any may.
Validate(b) ==
  /\ build[b].pc = "discover" /\ build[b].todo = {} /\ build[b].compiling = {}
  /\ \E t \in build[b].targets \ Attempted(b) :
       \/ /\ Fits(t)
          /\ build' = [build EXCEPT ![b].compiling = {t},
                                    ![b].disturbed = FALSE]
       \/ build' = [build EXCEPT ![b].failed = @ \cup {t}]
  /\ UNCHANGED <<dir, sources, create, edits>>

\* cargo builds what is there by then, printing what it prints, and the runners
\* are selected and verified; with the publication of both (SourceBuild) that is a success.
Compile(b) ==
  /\ \E t \in build[b].compiling :
       \/ \E others \in SUBSET OtherMessages :
          \E x \in Runners(dir[t].workspaces["get-raw-data"],
                           t, "get-raw-data", others),
             y \in Runners(dir[t].workspaces["process-data"],
                           t, "process-data", others) :
            build' = [build EXCEPT ![b].compiling = {},
              ![b].succeeded = @ \cup
                {[source |-> t, runners |-> {x, y},
                  disturbed |-> build[b].disturbed]}]
       \/ build' = [build EXCEPT ![b].compiling = {}, ![b].failed = @ \cup {t}]
  /\ UNCHANGED <<dir, sources, create, edits>>

\* Every target is attempted, whatever became of the others.
Outcome(b) ==
  /\ build[b].pc = "discover" /\ build[b].todo = {}
  /\ build[b].targets = Attempted(b)
  /\ build' = [build EXCEPT ![b].pc = "ended"]
  /\ UNCHANGED <<dir, sources, create, edits>>

-----------------------------------------------------------------------------
(* The users of a source                                                   *)

Disturbed(n) ==
  build' = [b \in Builders |->
              IF n \in build[b].compiling
              THEN [build[b] EXCEPT !.disturbed = TRUE] ELSE build[b]]

\* A change of the managed files of one workspace.
Edit(n) ==
  /\ Present(n) /\ edits < MaxEdits
  /\ \E o \in Operations :
       \E w \in Edited(dir[n].workspaces[o], Names) :
         /\ w # dir[n].workspaces[o]
         /\ dir' = [dir EXCEPT ![n].workspaces[o] = w]
  /\ edits' = edits + 1
  /\ Disturbed(n)
  /\ UNCHANGED <<sources, create>>

\* cp -r of a source, with its new name put into source.toml.
CopySource(from, to) ==
  /\ Present(from) /\ ~ Present(to) /\ edits < MaxEdits
  /\ dir' = [dir EXCEPT ![to] = [dir[from] EXCEPT !.name = to]]
  /\ edits' = edits + 1
  /\ UNCHANGED <<sources, create, build>>

-----------------------------------------------------------------------------

Next ==
  \/ \E c \in Creators :
       \/ CheckSource(c) \/ CheckProject(c) \/ MakeRoot(c) \/ Stage(c) \/ FillStaging(c)
       \/ FinalizeSource(c) \/ FinalizeProject(c)
       \/ Fault(c) \/ Kill(c)
  \/ \E b \in Builders : Resolve(b) \/ List(b) \/ Visit(b) \/ Validate(b)
                          \/ Compile(b) \/ Outcome(b)
  \/ \E n \in Names : Edit(n)
  \/ \E from, to \in Names : CopySource(from, to)

Spec == Init /\ [][Next]_vars

-----------------------------------------------------------------------------
(* Properties                                                              *)

\* What lies at the destination of a source or a project is complete, whichever
\* creators raced for it, failed or were killed (specs.md: failure before
\* publication must not leave a partially created source there), and a creator
\* that reports success created it: of several that passed the early check for
\* the same name one publishes.
PublishedOnceAndWhole ==
  /\ \A d \in Destinations :
       Present(d) => dir[d].fill = "complete" /\ dir[d].name = d
  /\ \A c \in Creators :
       At(c, "done") =>
         Present(create[c].target) /\ dir[create[c].target].by = c

\* Only published sources are ever built or given to a data command, although
\* the temporary directories of sources lie among them with a source.toml of
\* their own.
TargetsAreSources == \A b \in Builders : build[b].targets \subseteq Published

\* A source that was created as "http" with success is, from then on and
\* whatever other commands do, one that every build accepts (source build and
\* the discovery read its source.toml again).  Another spelling of the protocol
\* is accepted by `source create`, written into source.toml, and refused by
\* every build.  As long as nobody edits anything the workspaces fit as well.
CreatedIsBuildable ==
  \A c \in Creators :
    At(c, "done") /\ IsSource(c) /\ create[c].protocol = "http"
      => /\ Accepted(create[c].target)
         /\ edits = 0 => Fits(create[c].target)

\* A build that succeeds ends up with executables that say they are the runners
\* of that very source, although sources are copied and edited, also between
\* the validation of a workspace and its compilation (build_source).  Unless
\* the workspaces were edited while they were being built, the runners are the
\* template as Lexicon wrote it, one for each operation, each with the
\* implementation that lies beside it (validate_managed_workspace_layout,
\* build_managed_runner).
RunnersAreOwn ==
  \A b \in Builders : \A x \in build[b].succeeded :
    /\ \A a \in x.runners : a.reports.source = x.source
    /\ ~ x.disturbed =>
         /\ \A a \in x.runners :
              a.reports.canonical /\ a.implementation = "implementation"
         /\ {a.reports.operation : a \in x.runners} = Operations

=============================================================================
