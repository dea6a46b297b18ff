-------------------------- MODULE ProjectTree_proofs --------------------------
(***************************************************************************)
(* Proofs about ProjectTree, for any number of sources, creators and       *)
(* builders, of which any may be killed or meet faults, and any number of  *)
(* edits: PublishedOnceAndWhole, TargetsAreSources, CreatedIsBuildable and *)
(* RunnersAreOwn.                                                          *)
(***************************************************************************)
EXTENDS ProjectTree, TLAPS

Places == Destinations \cup Creators

CreatePCs == {"check", "root", "stage", "fill", "finalize", "done", "failed", "killed"}

Creations == [pc : CreatePCs, target : Destinations, protocol : Spellings]

\* The fields of a builder's record.
IsBuild(r) ==
  r = [pc |-> r.pc, todo |-> r.todo, targets |-> r.targets,
       compiling |-> r.compiling, disturbed |-> r.disturbed,
       succeeded |-> r.succeeded, failed |-> r.failed, published |-> r.published]

TreeTypes ==
  /\ dir \in [Places -> Directories \cup {Absent}]
  /\ create \in [Creators -> Creations]
  /\ build = [b \in Builders |-> build[b]]
  /\ edits \in Nat

\* What lies at a destination is complete and names it.
Whole(d) == Present(d) => dir[d].fill = "complete" /\ dir[d].name = d

\* What a creator has under its temporary name, and left at its destination.
\* The protocol and, while nobody edited anything, the workspaces of what it
\* published are the ones it wrote.
Creation(c) ==
  /\ Present(c) => dir[c].name = create[c].target
  /\ create[c].pc \in {"fill", "finalize"} =>
       Present(c) /\ dir[c] = Content(dir[c].fill, c)
  /\ At(c, "finalize") => dir[c].fill = "complete"
  /\ At(c, "done") =>
       LET d == create[c].target
       IN  /\ Present(d) /\ dir[d].by = c
           /\ dir[d].protocol = create[c].protocol
           /\ edits = 0 =>
                dir[d].workspaces = [o \in Operations |-> Scaffold(d, o)]

\* The target whose workspaces were found to fit and were not edited since.
Undisturbed(b) ==
  ~ build[b].disturbed =>
    \A t \in build[b].compiling, o \in Operations :
      LayoutFits(dir[t].workspaces[o], t, o)

\* One success of RunnersAreOwn.
Own(x) ==
  /\ \A a \in x.runners : a.reports.source = x.source
  /\ ~ x.disturbed =>
       /\ \A a \in x.runners :
            a.reports.canonical /\ a.implementation = "implementation"
       /\ {a.reports.operation : a \in x.runners} = Operations

Building(b) ==
  /\ IsBuild(build[b])
  /\ build[b].todo \subseteq Names \cup Creators
  /\ build[b].targets \subseteq Published
  /\ build[b].compiling \subseteq build[b].targets
  /\ Undisturbed(b)
  /\ \A x \in build[b].succeeded : Own(x)

IInv ==
  /\ TreeTypes
  /\ \A d \in Destinations : Whole(d)
  /\ \A c \in Creators : Creation(c)
  /\ \A b \in Builders : Building(b)

-----------------------------------------------------------------------------
(* Workspaces                                                              *)

Called == Seq(Destinations \cup Operations \cup {"runner", "renamed", "second"})

LEMMA NamesTyped ==
  ASSUME NEW n \in Destinations, NEW o \in Operations
  PROVE  /\ ImplementationName(n, o) \in Called
         /\ BinaryName(n, o) \in Called
         /\ RunnerName(n, o) \in Called
  BY DEF ImplementationName, BinaryName, RunnerName, Called

LEMMA OtherNames == <<"renamed">> \in Called /\ <<"second">> \in Called
  BY DEF Called

Manifests == [members : Seq({"implementation", "runner", "extra"}), core : BOOLEAN]
Implementations == [package : Called, binaries : SUBSET Called]
Dependencies == [path : {"implementation", "elsewhere"}, package : Called]
RunnerPackages ==
  [package : Called, binaries : SUBSET Called, dependency : Dependencies]
Mains == [source : Destinations, operation : Operations, canonical : BOOLEAN]
Strays == SUBSET {"implementation", "runner"}

LEMMA WorkspaceTyped ==
  Workspaces(Destinations) =
    [manifest : Manifests, implementation : Implementations,
     runner : RunnerPackages, main : Mains, stray : Strays, helper : BOOLEAN]
  BY DEF Workspaces, Called, Manifests, Implementations, Dependencies,
         RunnerPackages, Mains, Strays

\* What `source create` writes is a workspace, ...
LEMMA ScaffoldTyped ==
  ASSUME NEW n \in Destinations, NEW o \in Operations
  PROVE  Scaffold(n, o) \in Workspaces(Destinations)
<1>1. WorkspaceManifest \in Manifests
  BY DEF WorkspaceManifest, Manifests
<1>2. ImplementationManifest(n, o) \in Implementations
  BY NamesTyped DEF ImplementationManifest, Implementations
<1>3. RunnerManifest(n, o) \in RunnerPackages
  BY NamesTyped DEF RunnerManifest, RunnerPackages, Dependencies
<1>4. RunnerMain(n, o) \in Mains
  BY DEF RunnerMain, Mains
<1>5. {} \in Strays
  BY DEF Strays
<1>6. QED
  BY <1>1, <1>2, <1>3, <1>4, <1>5, WorkspaceTyped DEF Scaffold

\* ... and what users make of one is.
LEMMA EditedTyped ==
  ASSUME NEW w \in Workspaces(Destinations), NEW e \in Edited(w, Names)
  PROVE  e \in Workspaces(Destinations)
<1>0. /\ w.manifest \in Manifests /\ w.implementation \in Implementations
      /\ w.runner \in RunnerPackages /\ w.main \in Mains /\ w.stray \in Strays
  BY WorkspaceTyped
<1>1. ASSUME NEW n \in Names,
             e = [w EXCEPT !.main = [source |-> n, operation |-> @.operation,
                                     canonical |-> FALSE]]
      PROVE  e \in Workspaces(Destinations)
  <2>1. PICK m \in Mains : e = [w EXCEPT !.main = m]
    <3>1. [source |-> n, operation |-> w.main.operation, canonical |-> FALSE]
            \in Mains
      BY <1>0 DEF Mains, Destinations
    <3>2. QED
      BY <1>1, <3>1
  <2>2. QED
    BY <2>1, WorkspaceTyped
<1>2. CASE e = [w EXCEPT !.implementation.package = <<"renamed">>,
                         !.runner.dependency.package = <<"renamed">>]
  <2>1. PICK i \in Implementations :
          i = [w.implementation EXCEPT !.package = <<"renamed">>]
    BY <1>0, OtherNames DEF Implementations
  <2>2. PICK d \in Dependencies :
          d = [w.runner.dependency EXCEPT !.package = <<"renamed">>]
    <3>1. w.runner.dependency \in Dependencies
      BY <1>0 DEF RunnerPackages
    <3>2. QED
      BY <3>1, OtherNames DEF Dependencies
  <2>3. PICK r \in RunnerPackages : r = [w.runner EXCEPT !.dependency = d]
    BY <1>0, <2>2 DEF RunnerPackages
  <2> DEFINE x == [w EXCEPT !.implementation = i]
             y == [x EXCEPT !.runner = r]
  <2>4. x \in Workspaces(Destinations)
    BY WorkspaceTyped
  <2>5. y \in Workspaces(Destinations)
    <3> HIDE DEF x
    <3> QED BY <2>4, WorkspaceTyped
  <2>6. r = [w.runner EXCEPT !.dependency.package = <<"renamed">>]
    BY <2>2, <2>3
  <2>7. e = [w EXCEPT !.implementation = i, !.runner = r]
    BY <1>2, <2>1, <2>6
  <2>8. e = y
    BY <2>7
  <2>9. QED
    BY <2>5, <2>8
<1>3. CASE e = [w EXCEPT !.runner.dependency.path = "elsewhere"]
  <2>1. PICK d \in Dependencies :
          d = [w.runner.dependency EXCEPT !.path = "elsewhere"]
    BY <1>0 DEF RunnerPackages, Dependencies
  <2>2. PICK r \in RunnerPackages : r = [w.runner EXCEPT !.dependency = d]
    BY <1>0, <2>1 DEF RunnerPackages
  <2>3. e = [w EXCEPT !.runner = r]
    BY <1>3, <2>1, <2>2, WorkspaceTyped
  <2>4. QED
    BY <2>3, WorkspaceTyped
<1>4. CASE e = [w EXCEPT !.runner.binaries = @ \cup {<<"second">>}]
  <2>1. PICK r \in RunnerPackages :
          r = [w.runner EXCEPT !.binaries = @ \cup {<<"second">>}]
    BY <1>0, OtherNames DEF RunnerPackages
  <2>2. e = [w EXCEPT !.runner = r]
    BY <1>4, <2>1, WorkspaceTyped
  <2>3. QED
    BY <2>2, WorkspaceTyped
<1>5. ASSUME NEW p \in {"implementation", "runner"},
             e = [w EXCEPT !.stray = @ \cup {p}]
      PROVE  e \in Workspaces(Destinations)
  <2>1. PICK x \in Strays : x = w.stray \cup {p}
    BY <1>0 DEF Strays
  <2>2. e = [w EXCEPT !.stray = x]
    BY <1>5, <2>1
  <2>3. QED
    BY <2>2, WorkspaceTyped
<1>6. CASE e = [w EXCEPT !.helper = TRUE]
  <2>1. PICK x \in BOOLEAN : e = [w EXCEPT !.helper = x]
    BY <1>6
  <2>2. QED
    BY <2>1, WorkspaceTyped
<1>7. CASE e = [w EXCEPT !.manifest.members = @ \o <<"extra">>]
  <2>1. PICK x \in Seq({"implementation", "runner", "extra"}) :
          x = w.manifest.members \o <<"extra">>
    <3> DEFINE Members == {"implementation", "runner", "extra"}
    <3>1. w.manifest.members \in Seq(Members)
      BY <1>0 DEF Manifests
    <3>2. <<"extra">> \in Seq(Members)
      OBVIOUS
    <3> HIDE DEF Members
    <3>3. w.manifest.members \o <<"extra">> \in Seq(Members)
      BY <3>1, <3>2
    <3>4. QED
      BY <3>3 DEF Members
  <2>2. PICK m \in Manifests : m = [w.manifest EXCEPT !.members = x]
    BY <1>0 DEF Manifests
  <2>3. e = [w EXCEPT !.manifest = m]
    BY <1>7, <2>1, <2>2, WorkspaceTyped
  <2>4. QED
    BY <2>3, WorkspaceTyped
<1>8. QED
  BY <1>1, <1>2, <1>3, <1>4, <1>5, <1>6, <1>7 DEF Edited

\* What `source create` writes is what a build demands.
LEMMA ScaffoldFits ==
  ASSUME NEW n, NEW o
  PROVE  LayoutFits(Scaffold(n, o), n, o) /\ MetadataFits(Scaffold(n, o), n, o)
<1> DEFINE w == Scaffold(n, o)
<1>1. /\ w.manifest = WorkspaceManifest
      /\ w.implementation = ImplementationManifest(n, o)
      /\ w.runner = RunnerManifest(n, o) /\ w.main = RunnerMain(n, o)
      /\ w.stray = {} /\ ~ w.helper
  BY DEF Scaffold
<1> HIDE DEF w
<1>2. MembersFit(w) /\ TemplateFits(w, n, o)
  BY <1>1 DEF MembersFit, TemplateFits, WorkspaceManifest
<1>3. ImplementationFits(w, n, o)
  BY <1>1 DEF ImplementationFits, ImplementationManifest
<1>4. RunnerFits(w, n, o)
  BY <1>1 DEF RunnerFits, RunnerManifest
<1>5. Packages(w) = {ImplementationName(n, o), RunnerName(n, o)}
  BY <1>1 DEF Packages, ImplementationManifest, RunnerManifest
<1>6. Binaries(w, "implementation") = {}
  BY <1>1 DEF Binaries, ImplementationManifest
<1>7. Binaries(w, "runner") = {BinaryName(n, o)}
  BY <1>1 DEF Binaries, RunnerManifest
<1>8. QED
  BY <1>2, <1>3, <1>4, <1>5, <1>6, <1>7 DEF LayoutFits, MetadataFits, w

\* The runner a build takes says it is the one of this source and operation,
\* and says what the main of the workspace says.
LEMMA RunnerSays ==
  ASSUME NEW w, NEW n, NEW o, NEW others \in SUBSET OtherMessages,
         NEW a \in Runners(w, n, o, others)
  PROVE  /\ a.reports.source = n /\ a.reports.operation = o
         /\ a.reports = w.main
         /\ a.implementation = w.runner.dependency.path
<1>1. /\ a \in Selected(Artifacts(w, n, o) \cup others, n, o)
      /\ Verified(a, n, o)
  BY DEF Runners
<1>2. /\ a \in Artifacts(w, n, o) \cup others
      /\ ~ Malformed(Artifacts(w, n, o) \cup others)
  BY <1>1 DEF Selected
<1>3. a.reason = "compiler-artifact"
  BY <1>2 DEF Malformed
<1>4. a \in Artifacts(w, n, o)
  BY <1>2, <1>3 DEF OtherMessages
<1>5. QED
  BY <1>1, <1>4 DEF Artifacts, Artifact, Verified

-----------------------------------------------------------------------------
(* The creators                                                            *)

LEMMA Apart ==
  /\ Absent \notin Directories
  /\ \A c \in Creators : c \notin Destinations
  /\ Project \in Destinations /\ Names \subseteq Destinations
  /\ \A d \in Destinations : d \in Names <=> d # Project
  BY TreeAssumption DEF Destinations

\* What a creator fills its directory with.
LEMMA ContentTyped ==
  ASSUME TreeTypes, NEW c \in Creators, NEW fill \in Fill
  PROVE  /\ Content(fill, c) \in Directories
         /\ Content(fill, c) # Absent
         /\ Content(fill, c).fill = fill
         /\ Content(fill, c).name = create[c].target
         /\ Content(fill, c).by = c
         /\ Content(fill, c).protocol = create[c].protocol
         /\ Content(fill, c).workspaces
              = [o \in Operations |-> Scaffold(create[c].target, o)]
<1>1. create[c].target \in Destinations /\ create[c].protocol \in Spellings
  BY DEF TreeTypes, Creations
<1>2. [o \in Operations |-> Scaffold(create[c].target, o)]
        \in [Operations -> Workspaces(Destinations)]
  BY <1>1, ScaffoldTyped
<1>3. Content(fill, c) \in Directories
  BY <1>1, <1>2 DEF Content, Directories
<1>4. QED
  BY <1>3, Apart DEF Content

\* A step of a creator that does not publish: it changes where it stands and
\* what lies under its temporary name.
LEMMA CreatorStep ==
  ASSUME IInv, NEW c \in Creators, NEW pc \in CreatePCs \ {"done"},
         NEW v \in Directories \cup {Absent},
         create' = [create EXCEPT ![c].pc = pc],
         dir' = [dir EXCEPT ![c] = v], build' = build, edits' = edits,
         v # Absent => v.name = create[c].target,
         pc \in {"fill", "finalize"} => v # Absent /\ v = Content(v.fill, c),
         pc = "finalize" => v.fill = "complete"
  PROVE  IInv'
<1>1. /\ create' \in [Creators -> Creations]
      /\ create'[c].pc = pc
      /\ \A x \in Creators : /\ create'[x].target = create[x].target
                             /\ create'[x].protocol = create[x].protocol
                             /\ x # c => create'[x].pc = create[x].pc
  BY DEF IInv, TreeTypes, Creations
<1>2. /\ dir' \in [Places -> Directories \cup {Absent}]
      /\ dir'[c] = v
      /\ \A x \in Places \ {c} : dir'[x] = dir[x]
  BY DEF IInv, TreeTypes, Places
<1>3. \A d \in Destinations : dir'[d] = dir[d]
  BY <1>2, Apart DEF Places
<1>4. TreeTypes'
  BY <1>1, <1>2 DEF IInv, TreeTypes
<1>5. \A d \in Destinations : Whole(d)'
  BY <1>3 DEF IInv, Whole, Present
<1>6. \A x \in Creators, f \in Fill : Content(f, x)' = Content(f, x)
  BY <1>1 DEF Content
<1>7. Creation(c)'
  <2>1. Present(c)' => dir'[c].name = create'[c].target
    BY <1>1, <1>2 DEF Present
  <2>2. create'[c].pc \in {"fill", "finalize"} =>
          Present(c)' /\ dir'[c] = Content(dir[c].fill, c)'
    <3>1. Content(v.fill, c) = Content(v.fill, c)'
      BY <1>1 DEF Content
    <3>2. QED
      BY <1>1, <1>2, <3>1 DEF Present, Content
  <2>3. QED
    BY <1>1, <1>2, <2>1, <2>2 DEF Creation, At
<1>8. ASSUME NEW x \in Creators \ {c}
      PROVE  Creation(x)'
  <2>1. /\ dir'[x] = dir[x] /\ create'[x].pc = create[x].pc
        /\ create'[x].target = create[x].target
        /\ create'[x].protocol = create[x].protocol
        /\ dir'[create[x].target] = dir[create[x].target]
    BY <1>1, <1>2, <1>3 DEF Places, IInv, TreeTypes, Creations
  <2>2. Content(dir[x].fill, x)' = Content(dir[x].fill, x)
    BY <2>1 DEF Content
  <2>3. Creation(x)
    BY DEF IInv
  <2>4. QED
    BY <2>1, <2>2, <2>3 DEF Creation, At, Present
<1>9. ASSUME NEW b \in Builders
      PROVE  Building(b)'
  <2>1. Building(b) /\ build'[b] = build[b]
    BY DEF IInv
  <2>2. Published' = Published
    BY <1>3, Apart DEF Published, Present
  <2>3. \A t \in build[b].compiling : t \in Names
    BY <2>1 DEF Building, Published
  <2>4. Undisturbed(b)'
    BY <1>3, <2>1, <2>3, Apart DEF Building, Undisturbed
  <2>5. QED
    BY <2>1, <2>2, <2>4 DEF Building
<1>10. QED
  BY <1>4, <1>5, <1>7, <1>8, <1>9 DEF IInv

\* Such a step that leaves the temporary directory alone, or removes it.
LEMMA CreatorStops ==
  ASSUME IInv, NEW c \in Creators, NEW pc \in CreatePCs \ {"fill", "finalize", "done"},
         Goto(c, pc), UNCHANGED dir \/ dir' = [dir EXCEPT ![c] = Absent],
         UNCHANGED <<build, edits>>
  PROVE  IInv'
<1>1. create' = [create EXCEPT ![c].pc = pc]
  BY DEF Goto
<1>2. CASE UNCHANGED dir
  <2>1. dir' = [dir EXCEPT ![c] = dir[c]] /\ dir[c] \in Directories \cup {Absent}
    BY <1>2 DEF IInv, TreeTypes, Places
  <2>2. dir[c] # Absent => dir[c].name = create[c].target
    BY DEF IInv, Creation, Present
  <2>3. QED
    BY <1>1, <2>1, <2>2, CreatorStep
<1>3. CASE dir' = [dir EXCEPT ![c] = Absent]
  BY <1>1, <1>3, CreatorStep
<1>4. QED
  BY <1>2, <1>3

\* A creator stops, goes on to stage, or fails.
LEMMA QuietCreators ==
  ASSUME IInv, NEW c \in Creators,
         \/ CheckSource(c) \/ CheckProject(c) \/ MakeRoot(c) \/ Kill(c) \/ Fault(c)
  PROVE  IInv'
<1> DEFINE Quiet == CreatePCs \ {"fill", "finalize", "done"}
<1>0. {"failed", "root", "stage", "killed"} \subseteq Quiet
  BY DEF CreatePCs
<1>1. PICK pc \in Quiet :
        Goto(c, pc) /\ (UNCHANGED dir \/ dir' = [dir EXCEPT ![c] = Absent])
  <2> HIDE DEF Quiet
  <2>1. CASE CheckSource(c)
    BY <1>0, <2>1 DEF CheckSource
  <2>2. CASE CheckProject(c)
    BY <1>0, <2>2 DEF CheckProject
  <2>3. CASE MakeRoot(c)
    BY <1>0, <2>3 DEF MakeRoot
  <2>4. CASE Kill(c)
    BY <1>0, <2>4 DEF Kill
  <2>5. CASE Fault(c)
    BY <1>0, <2>5 DEF Fault, Fails
  <2>6. QED
    BY <2>1, <2>2, <2>3, <2>4, <2>5
<1>2. UNCHANGED <<build, edits>>
  BY DEF CheckSource, CheckProject, MakeRoot, Kill, Fault
<1>3. QED
  BY <1>1, <1>2, CreatorStops

LEMMA StageStep ==
  ASSUME IInv, NEW c \in Creators, Stage(c)
  PROVE  IInv'
<1>1. UNCHANGED <<build, edits>>
  BY DEF Stage
<1>2. CASE dir' = [dir EXCEPT ![c] = Content("empty", c)] /\ Goto(c, "fill")
  <2>1. "empty" \in Fill /\ "fill" \in CreatePCs
    BY DEF Fill, CreatePCs
  <2>2. PICK v \in Directories :
          /\ v = Content("empty", c) /\ v # Absent /\ v.fill = "empty"
          /\ v.name = create[c].target
    BY <2>1, ContentTyped DEF IInv
  <2>3. create' = [create EXCEPT ![c].pc = "fill"] /\ dir' = [dir EXCEPT ![c] = v]
    BY <1>2, <2>2 DEF Goto
  <2>4. v = Content(v.fill, c)
    BY <2>2
  <2>5. QED
    BY <1>1, <2>1, <2>2, <2>3, <2>4, CreatorStep
<1>3. CASE Goto(c, "failed") /\ UNCHANGED dir
  <2>1. "failed" \in CreatePCs
    BY DEF CreatePCs
  <2>2. QED
    BY <1>1, <1>3, <2>1, CreatorStops
<1>4. QED
  BY <1>2, <1>3 DEF Stage

LEMMA FillStep ==
  ASSUME IInv, NEW c \in Creators, FillStaging(c)
  PROVE  IInv'
<1>1. PICK fill \in Fill, pc \in {"fill", "finalize"} :
        /\ dir' = [dir EXCEPT ![c].fill = fill]
        /\ Goto(c, pc)
        /\ pc = "finalize" => fill = "complete"
  <2>1. PICK step \in {<<"empty", "layout">>, <<"layout", "manifest">>,
                       <<"manifest", "files">>, <<"files", "complete">>,
                       <<"empty", "complete">>} :
          /\ dir' = [dir EXCEPT ![c].fill = step[2]]
          /\ Goto(c, IF step[2] = "complete" THEN "finalize" ELSE "fill")
    BY DEF FillStaging
  <2>2. step[2] \in Fill
    BY DEF Fill
  <2>3. QED
    BY <2>1, <2>2
<1>2. UNCHANGED <<build, edits>>
  BY DEF FillStaging
<1>3. /\ Creation(c) /\ At(c, "fill") /\ c \in Places
      /\ dir \in [Places -> Directories \cup {Absent}]
  BY DEF FillStaging, IInv, TreeTypes, Places
<1>4. dir[c] # Absent /\ dir[c] = Content(dir[c].fill, c)
  BY <1>3 DEF Creation, At, Present
<1>5. [dir[c] EXCEPT !.fill = fill] = Content(fill, c)
  BY <1>4 DEF Content
<1>6. dir' = [dir EXCEPT ![c] = [dir[c] EXCEPT !.fill = fill]]
  BY <1>1, <1>3
<1>7. PICK v \in Directories :
        /\ v = Content(fill, c) /\ v # Absent /\ v.fill = fill
        /\ v.name = create[c].target
  BY ContentTyped DEF IInv
<1>8. dir' = [dir EXCEPT ![c] = v]
  BY <1>5, <1>6, <1>7
<1>9. create' = [create EXCEPT ![c].pc = pc] /\ pc \in CreatePCs \ {"done"}
  BY <1>1 DEF Goto, CreatePCs
<1>10. v = Content(v.fill, c) /\ (pc = "finalize" => v.fill = "complete")
  BY <1>1, <1>7
<1>11. QED
  BY <1>2, <1>7, <1>8, <1>9, <1>10, CreatorStep

\* What is published is complete, and names its destination and its creator;
\* what others published is not replaced.
LEMMA RenameStep ==
  ASSUME IInv, NEW c \in Creators, At(c, "finalize"), Renames(c),
         Goto(c, "done"), UNCHANGED <<build, edits>>
  PROVE  IInv'
<1> DEFINE d == create[c].target
<1>1. /\ d \in Destinations /\ c \in Places /\ d \in Places /\ c # d
      /\ create[c].protocol \in Spellings
      /\ dir \in [Places -> Directories \cup {Absent}]
  BY Apart DEF IInv, TreeTypes, Creations, Places
<1>2. /\ dir[d] = Absent /\ dir[c] # Absent /\ dir[c] \in Directories
      /\ dir[c] = Content("complete", c)
      /\ dir' = [dir EXCEPT ![d] = dir[c], ![c] = Absent]
  <2>1. Creation(c)
    BY DEF IInv
  <2>2. dir[c] # Absent /\ dir[c] = Content(dir[c].fill, c)
        /\ dir[c].fill = "complete"
    BY <2>1 DEF Creation, At, Present
  <2>3. dir[c] \in Directories
    BY <1>1, <2>2
  <2>4. dir[c] = Content("complete", c)
    BY <2>2
  <2>5. dir[d] = Absent /\ dir' = [dir EXCEPT ![d] = dir[c], ![c] = Absent]
    BY DEF Renames, Present
  <2>6. QED
    BY <2>2, <2>3, <2>4, <2>5
<1>3. /\ dir[c].fill = "complete" /\ dir[c].name = d /\ dir[c].by = c
      /\ dir[c].protocol = create[c].protocol
      /\ dir[c].workspaces = [o \in Operations |-> Scaffold(d, o)]
  BY <1>2, ContentTyped DEF IInv, Fill
<1>4. /\ create' \in [Creators -> Creations]
      /\ create'[c].pc = "done"
      /\ \A x \in Creators : /\ create'[x].target = create[x].target
                             /\ create'[x].protocol = create[x].protocol
                             /\ x # c => create'[x].pc = create[x].pc
  BY DEF IInv, TreeTypes, Creations, CreatePCs, Goto
<1> HIDE DEF d
<1>5. /\ dir' \in [Places -> Directories \cup {Absent}]
      /\ dir'[d] = dir[c] /\ dir'[c] = Absent
      /\ \A x \in Places \ {c, d} : dir'[x] = dir[x]
  BY <1>1, <1>2
<1>6. TreeTypes'
  BY <1>4, <1>5 DEF IInv, TreeTypes
<1>7. \A x \in Destinations : Present(x) => dir'[x] = dir[x] /\ x # d
  BY <1>1, <1>2, <1>5, Apart DEF Places, Present
<1>8. ASSUME NEW x \in Destinations
      PROVE  Whole(x)'
  <2>1. CASE x = d
    BY <1>3, <1>5, <2>1 DEF Whole
  <2>2. CASE x # d
    <3>1. dir'[x] = dir[x]
      BY <1>5, <2>2, Apart DEF Places
    <3>2. QED
      BY <3>1 DEF IInv, Whole, Present
  <2>3. QED
    BY <2>1, <2>2
<1>9. Creation(c)'
  <2>1. create'[c].target = d /\ create'[c].pc = "done"
    BY <1>4 DEF d
  <2>2. dir'[d] # Absent
    BY <1>2, <1>5
  <2>3. QED
    BY <1>3, <1>4, <1>5, <2>1, <2>2 DEF Creation, At, Present
<1>10. ASSUME NEW x \in Creators \ {c}
       PROVE  Creation(x)'
  <2>1. /\ dir'[x] = dir[x] /\ create'[x].pc = create[x].pc
        /\ create'[x].target = create[x].target
        /\ create'[x].protocol = create[x].protocol
    BY <1>1, <1>4, <1>5, Apart DEF Places
  <2>2. Content(dir[x].fill, x)' = Content(dir[x].fill, x)
    BY <2>1 DEF Content
  <2>3. Creation(x) /\ create[x].target \in Destinations
    BY DEF IInv, TreeTypes, Creations
  <2>4. At(x, "done") =>
          dir'[create[x].target] = dir[create[x].target]
          /\ Present(create[x].target)
    BY <1>7, <2>3 DEF Creation
  <2>5. QED
    BY <2>1, <2>2, <2>3, <2>4 DEF Creation, At, Present
<1>11. ASSUME NEW b \in Builders
       PROVE  Building(b)'
  <2>1. Building(b) /\ build'[b] = build[b]
    BY DEF IInv
  <2>2. Published \subseteq Published'
    BY <1>7, Apart DEF Published, Present
  <2>3. \A t \in build[b].compiling : dir'[t] = dir[t]
    BY <1>7, <2>1, Apart DEF Building, Published
  <2>4. Undisturbed(b)'
    BY <2>1, <2>3 DEF Building, Undisturbed
  <2>5. QED
    BY <2>1, <2>2, <2>4 DEF Building
<1>12. QED
  BY <1>6, <1>8, <1>9, <1>10, <1>11 DEF IInv

LEMMA FinalizeStep ==
  ASSUME IInv, NEW c \in Creators, FinalizeSource(c) \/ FinalizeProject(c)
  PROVE  IInv'
<1>1. UNCHANGED <<build, edits>> /\ At(c, "finalize")
  BY DEF FinalizeSource, FinalizeProject
<1>2. CASE Renames(c) /\ Goto(c, "done")
  BY <1>1, <1>2, RenameStep
<1>3. CASE Fails(c)
  <2>1. "failed" \in CreatePCs \ {"fill", "finalize", "done"}
    BY DEF CreatePCs
  <2>2. QED
    BY <1>1, <1>3, <2>1, CreatorStops DEF Fails
<1>4. QED
  BY <1>2, <1>3 DEF FinalizeSource, FinalizeProject

-----------------------------------------------------------------------------
(* The builders                                                            *)

\* Only a source is taken for a target: the name in the source.toml of a
\* temporary directory is the one of its destination.
LEMMA AcceptedIsSource ==
  ASSUME IInv, NEW d \in Names \cup Creators, Accepted(d)
  PROVE  d \in Published
<1>1. CASE d \in Creators
  <2>1. Creation(d) /\ create[d].target \in Destinations
    BY <1>1 DEF IInv, TreeTypes, Creations
  <2>2. dir[d].name = create[d].target
    BY <2>1 DEF Creation, Accepted
  <2>3. QED
    BY <1>1, <2>1, <2>2, Apart DEF Accepted
<1>2. CASE d \in Names
  BY <1>2 DEF Accepted, Published
<1>3. QED
  BY <1>1, <1>2

LEMMA BuilderStep ==
  ASSUME IInv, NEW b \in Builders, NEW r, IsBuild(r),
         build' = [build EXCEPT ![b] = r], UNCHANGED <<dir, create, edits>>,
         r.todo \subseteq Names \cup Creators, r.targets \subseteq Published,
         r.compiling \subseteq r.targets,
         ~ r.disturbed => \A t \in r.compiling, o \in Operations :
                            LayoutFits(dir[t].workspaces[o], t, o),
         \A x \in r.succeeded : Own(x)
  PROVE  IInv'
<1>1. /\ build' = [x \in Builders |-> build'[x]]
      /\ build'[b] = r
      /\ \A x \in Builders \ {b} : build'[x] = build[x]
  BY DEF IInv, TreeTypes
<1>2. TreeTypes' /\ Published' = Published
  BY <1>1 DEF IInv, TreeTypes, Published, Present
<1>3. \A d \in Destinations : Whole(d)'
  BY DEF IInv, Whole, Present
<1>4. \A c \in Creators : Creation(c)'
  BY DEF IInv, Creation, Present, At, Content
<1>5. Building(b)'
  BY <1>1, <1>2 DEF Building, Undisturbed
<1>6. ASSUME NEW x \in Builders \ {b} PROVE Building(x)'
  BY <1>1, <1>2 DEF IInv, Building, Undisturbed
<1>7. QED
  BY <1>2, <1>3, <1>4, <1>5, <1>6 DEF IInv

LEMMA IdleIsBuild == IsBuild(Idle)
  BY DEF IsBuild, Idle

LEMMA ListStep ==
  ASSUME IInv, NEW b \in Builders, List(b)
  PROVE  IInv'
<1>1. PICK r : r = [Idle EXCEPT !.pc = "discover", !.todo = Entries,
                                !.published = Published]
  OBVIOUS
<1>2. /\ IsBuild(r) /\ r.todo = Entries /\ r.targets = {} /\ r.compiling = {}
      /\ r.succeeded = {}
  BY <1>1 DEF IsBuild, Idle
<1>3. Entries \subseteq Names \cup Creators
  BY DEF Entries, Published
<1>4. build' = [build EXCEPT ![b] = r] /\ UNCHANGED <<dir, create, edits>>
  BY <1>1 DEF List
<1>5. QED
  BY <1>2, <1>3, <1>4, BuilderStep

LEMMA ResolveStep ==
  ASSUME IInv, NEW b \in Builders, Resolve(b)
  PROVE  IInv'
<1>1. PICK d \in Entries :
        build' = [build EXCEPT ![b] =
          IF LaidOut(d) /\ Accepted(d)
            THEN [Idle EXCEPT !.pc = "resolved", !.targets = {d}]
            ELSE [Idle EXCEPT !.pc = "refused"]]
  BY DEF Resolve
<1>2. d \in Names \cup Creators
  BY DEF Entries, Published
<1>3. UNCHANGED <<dir, create, edits>>
  BY DEF Resolve
<1>4. CASE LaidOut(d) /\ Accepted(d)
  <2>1. PICK r : r = [Idle EXCEPT !.pc = "resolved", !.targets = {d}]
    OBVIOUS
  <2>2. /\ IsBuild(r) /\ r.todo = {} /\ r.targets = {d} /\ r.compiling = {}
        /\ r.succeeded = {}
    BY <2>1 DEF IsBuild, Idle
  <2>3. {d} \subseteq Published
    BY <1>2, <1>4, AcceptedIsSource
  <2>4. build' = [build EXCEPT ![b] = r]
    BY <1>1, <1>4, <2>1
  <2>5. QED
    BY <1>3, <2>2, <2>3, <2>4, BuilderStep
<1>5. CASE ~ (LaidOut(d) /\ Accepted(d))
  <2>1. PICK r : r = [Idle EXCEPT !.pc = "refused"]
    OBVIOUS
  <2>2. /\ IsBuild(r) /\ r.todo = {} /\ r.targets = {} /\ r.compiling = {}
        /\ r.succeeded = {}
    BY <2>1 DEF IsBuild, Idle
  <2>3. build' = [build EXCEPT ![b] = r]
    BY <1>1, <1>5, <2>1
  <2>4. QED
    BY <1>3, <2>2, <2>3, BuilderStep
<1>6. QED
  BY <1>4, <1>5

\* What of a builder's record the invariant is about.
LEMMA BuildingOf ==
  ASSUME IInv, NEW b \in Builders
  PROVE  /\ IsBuild(build[b]) /\ build = [x \in Builders |-> build[x]]
         /\ build[b].todo \subseteq Names \cup Creators
         /\ build[b].targets \subseteq Published
         /\ build[b].compiling \subseteq build[b].targets
         /\ ~ build[b].disturbed =>
              \A t \in build[b].compiling, o \in Operations :
                LayoutFits(dir[t].workspaces[o], t, o)
         /\ \A x \in build[b].succeeded : Own(x)
  BY DEF IInv, TreeTypes, Building, Undisturbed

LEMMA BuildIsRecord ==
  ASSUME IInv, NEW b \in Builders
  PROVE  IsBuild(build[b]) /\ build = [x \in Builders |-> build[x]]
  BY BuildingOf

LEMMA VisitStep ==
  ASSUME IInv, NEW b \in Builders, Visit(b)
  PROVE  IInv'
<1>1. PICK d \in build[b].todo :
        \/ /\ Accepted(d)
           /\ build' = [build EXCEPT ![b].todo = @ \ {d},
                                     ![b].targets = @ \cup {d}]
        \/ /\ ~ Accepted(d)
           /\ build' = [build EXCEPT ![b].pc = "refused"]
  BY DEF Visit
<1>2. UNCHANGED <<dir, create, edits>>
  BY DEF Visit
<1>3. CASE Accepted(d)
  <2>1. PICK r : r = [build[b] EXCEPT !.todo = @ \ {d}, !.targets = @ \cup {d}]
    OBVIOUS
  <2>2. /\ IsBuild(r) /\ r.todo = build[b].todo \ {d}
        /\ r.targets = build[b].targets \cup {d}
        /\ r.compiling = build[b].compiling /\ r.succeeded = build[b].succeeded
        /\ r.disturbed = build[b].disturbed
    <3>1. IsBuild(build[b])
      BY BuildIsRecord
    <3>2. QED
      BY <2>1, <3>1 DEF IsBuild
  <2>3. d \in Published
    BY <1>3, AcceptedIsSource, BuildingOf
  <2>4. build' = [build EXCEPT ![b] = r]
    BY <1>1, <1>3, <2>1, BuildIsRecord
  <2>5. r.todo \subseteq Names \cup Creators /\ r.targets \subseteq Published
        /\ r.compiling \subseteq r.targets
    BY <2>2, <2>3, BuildingOf
  <2>6. QED
    BY <1>2, <2>2, <2>4, <2>5, BuildingOf, BuilderStep
<1>4. CASE ~ Accepted(d)
  <2>1. PICK r : r = [build[b] EXCEPT !.pc = "refused"]
    OBVIOUS
  <2>2. /\ IsBuild(r) /\ r.todo = build[b].todo /\ r.targets = build[b].targets
        /\ r.compiling = build[b].compiling /\ r.succeeded = build[b].succeeded
        /\ r.disturbed = build[b].disturbed
    <3>1. IsBuild(build[b])
      BY BuildIsRecord
    <3>2. QED
      BY <2>1, <3>1 DEF IsBuild
  <2>3. build' = [build EXCEPT ![b] = r]
    BY <1>1, <1>4, <2>1, BuildingOf
  <2>4. QED
    BY <1>2, <2>2, <2>3, BuildingOf, BuilderStep
<1>5. QED
  BY <1>3, <1>4

LEMMA ValidateStep ==
  ASSUME IInv, NEW b \in Builders, Validate(b)
  PROVE  IInv'
<1>1. PICK t \in build[b].targets :
        \/ /\ Fits(t)
           /\ build' = [build EXCEPT ![b].compiling = {t}, ![b].disturbed = FALSE]
        \/ build' = [build EXCEPT ![b].failed = @ \cup {t}]
  BY DEF Validate
<1>2. UNCHANGED <<dir, create, edits>>
  BY DEF Validate
<1>3. CASE /\ Fits(t)
           /\ build' = [build EXCEPT ![b].compiling = {t}, ![b].disturbed = FALSE]
  <2>1. PICK r : r = [build[b] EXCEPT !.compiling = {t}, !.disturbed = FALSE]
    OBVIOUS
  <2>2. /\ IsBuild(r) /\ r.todo = build[b].todo /\ r.targets = build[b].targets
        /\ r.compiling = {t} /\ r.succeeded = build[b].succeeded
    <3>1. IsBuild(build[b])
      BY BuildIsRecord
    <3>2. QED
      BY <2>1, <3>1 DEF IsBuild
  <2>3. build' = [build EXCEPT ![b] = r]
    BY <1>3, <2>1, BuildingOf
  <2>4. \A o \in Operations : LayoutFits(dir[t].workspaces[o], t, o)
    BY <1>3 DEF Fits
  <2>5. QED
    BY <1>2, <2>2, <2>3, <2>4, BuildingOf, BuilderStep
<1>4. CASE build' = [build EXCEPT ![b].failed = @ \cup {t}]
  <2>1. PICK r : r = [build[b] EXCEPT !.failed = @ \cup {t}]
    OBVIOUS
  <2>2. /\ IsBuild(r) /\ r.todo = build[b].todo /\ r.targets = build[b].targets
        /\ r.compiling = build[b].compiling /\ r.succeeded = build[b].succeeded
        /\ r.disturbed = build[b].disturbed
    <3>1. IsBuild(build[b])
      BY BuildIsRecord
    <3>2. QED
      BY <2>1, <3>1 DEF IsBuild
  <2>3. build' = [build EXCEPT ![b] = r]
    BY <1>4, <2>1, BuildingOf
  <2>4. QED
    BY <1>2, <2>2, <2>3, BuildingOf, BuilderStep
<1>5. QED
  BY <1>1, <1>3, <1>4

LEMMA OutcomeStep ==
  ASSUME IInv, NEW b \in Builders, Outcome(b)
  PROVE  IInv'
<1>1. PICK r : r = [build[b] EXCEPT !.pc = "ended"]
  OBVIOUS
<1>2. /\ IsBuild(r) /\ r.todo = build[b].todo /\ r.targets = build[b].targets
      /\ r.compiling = build[b].compiling /\ r.succeeded = build[b].succeeded
      /\ r.disturbed = build[b].disturbed
  <2>1. IsBuild(build[b])
    BY BuildIsRecord
  <2>2. QED
    BY <1>1, <2>1 DEF IsBuild
<1>3. build' = [build EXCEPT ![b] = r] /\ UNCHANGED <<dir, create, edits>>
  BY <1>1, BuildingOf DEF Outcome
<1>4. QED
  BY <1>2, <1>3, BuildingOf, BuilderStep

\* Both runners say they are this source's; what was found to fit, and was not
\* edited since, makes them the template with the implementation beside it.
LEMMA CompileStep ==
  ASSUME IInv, NEW b \in Builders, Compile(b)
  PROVE  IInv'
<1>1. PICK t \in build[b].compiling :
       \/ \E others \in SUBSET OtherMessages :
          \E x \in Runners(dir[t].workspaces["get-raw-data"],
                           t, "get-raw-data", others),
             y \in Runners(dir[t].workspaces["process-data"],
                           t, "process-data", others) :
            build' = [build EXCEPT ![b].compiling = {},
              ![b].succeeded = @ \cup
                {[source |-> t, runners |-> {x, y},
                  disturbed |-> build[b].disturbed]}]
       \/ build' = [build EXCEPT ![b].compiling = {}, ![b].failed = @ \cup {t}]
  BY DEF Compile
<1>2. UNCHANGED <<dir, create, edits>>
  BY DEF Compile
<1>3. ASSUME NEW others \in SUBSET OtherMessages,
             NEW x \in Runners(dir[t].workspaces["get-raw-data"],
                               t, "get-raw-data", others),
             NEW y \in Runners(dir[t].workspaces["process-data"],
                               t, "process-data", others),
             build' = [build EXCEPT ![b].compiling = {},
               ![b].succeeded = @ \cup
                 {[source |-> t, runners |-> {x, y},
                   disturbed |-> build[b].disturbed]}]
      PROVE  IInv'
  <2>1. PICK s : s = [source |-> t, runners |-> {x, y},
                      disturbed |-> build[b].disturbed]
    OBVIOUS
  <2>2. PICK r : r = [build[b] EXCEPT !.compiling = {}, !.succeeded = @ \cup {s}]
    OBVIOUS
  <2>3. /\ IsBuild(r) /\ r.todo = build[b].todo /\ r.targets = build[b].targets
        /\ r.compiling = {} /\ r.succeeded = build[b].succeeded \cup {s}
    <3>1. IsBuild(build[b])
      BY BuildIsRecord
    <3>2. QED
      BY <2>2, <3>1 DEF IsBuild
  <2>4. build' = [build EXCEPT ![b] = r]
    BY <1>3, <2>1, <2>2, BuildingOf
  <2>5. /\ x.reports.source = t /\ y.reports.source = t
        /\ x.reports.operation = "get-raw-data"
        /\ y.reports.operation = "process-data"
        /\ x.reports = dir[t].workspaces["get-raw-data"].main
        /\ y.reports = dir[t].workspaces["process-data"].main
        /\ x.implementation
             = dir[t].workspaces["get-raw-data"].runner.dependency.path
        /\ y.implementation
             = dir[t].workspaces["process-data"].runner.dependency.path
    BY RunnerSays
  <2>6. ASSUME ~ build[b].disturbed, NEW o \in Operations
        PROVE  /\ dir[t].workspaces[o].main.canonical
               /\ dir[t].workspaces[o].runner.dependency.path = "implementation"
    <3>1. LayoutFits(dir[t].workspaces[o], t, o)
      BY <2>6, BuildingOf
    <3>2. QED
      BY <3>1 DEF LayoutFits, TemplateFits, RunnerFits, RunnerMain
  <2>7. "get-raw-data" \in Operations /\ "process-data" \in Operations
    BY DEF Operations
  <2>8. ~ build[b].disturbed =>
          \A a \in {x, y} :
            a.reports.canonical /\ a.implementation = "implementation"
    BY <2>5, <2>6, <2>7
  <2>9. {a.reports.operation : a \in {x, y}} = Operations
    BY <2>5 DEF Operations
  <2>10. /\ s.runners = {x, y} /\ s.source = t
         /\ s.disturbed = build[b].disturbed
    BY <2>1
  <2>11. Own(s)
    BY <2>5, <2>8, <2>9, <2>10 DEF Own
  <2>12. QED
    BY <1>2, <2>3, <2>4, <2>11, BuildingOf, BuilderStep
<1>4. CASE build' = [build EXCEPT ![b].compiling = {}, ![b].failed = @ \cup {t}]
  <2>1. PICK r : r = [build[b] EXCEPT !.compiling = {}, !.failed = @ \cup {t}]
    OBVIOUS
  <2>2. /\ IsBuild(r) /\ r.todo = build[b].todo /\ r.targets = build[b].targets
        /\ r.compiling = {} /\ r.succeeded = build[b].succeeded
    <3>1. IsBuild(build[b])
      BY BuildIsRecord
    <3>2. QED
      BY <2>1, <3>1 DEF IsBuild
  <2>3. build' = [build EXCEPT ![b] = r]
    BY <1>4, <2>1, BuildingOf
  <2>4. QED
    BY <1>2, <2>2, <2>3, BuildingOf, BuilderStep
<1>5. QED
  BY <1>1, <1>3, <1>4

-----------------------------------------------------------------------------
(* The users                                                               *)

\* An edit changes workspaces, and only of a source; a build that is compiling
\* it is disturbed.
LEMMA EditStep ==
  ASSUME IInv, NEW n \in Names, Edit(n)
  PROVE  IInv'
<1>0. PICK o \in Operations :
        \E w \in Edited(dir[n].workspaces[o], Names) :
          dir' = [dir EXCEPT ![n].workspaces[o] = w]
  BY DEF Edit
<1>1. PICK w \in Edited(dir[n].workspaces[o], Names) :
        dir' = [dir EXCEPT ![n].workspaces[o] = w]
  BY <1>0
<1>2. /\ dir[n] # Absent /\ edits' = edits + 1 /\ Disturbed(n)
      /\ create' = create
  BY DEF Edit, Present
<1>3. /\ n \in Places /\ n \in Destinations
      /\ dir \in [Places -> Directories \cup {Absent}]
      /\ dir[n] \in Directories
  BY <1>2, Apart DEF IInv, TreeTypes, Places
<1>4. dir[n].workspaces \in [Operations -> Workspaces(Destinations)]
  BY <1>3 DEF Directories
<1>5. w \in Workspaces(Destinations)
  BY <1>4, EditedTyped
<1>6. PICK ws \in [Operations -> Workspaces(Destinations)] :
        ws = [dir[n].workspaces EXCEPT ![o] = w]
  BY <1>4, <1>5
<1>7. PICK v \in Directories :
        /\ v = [dir[n] EXCEPT !.workspaces = ws]
        /\ v.fill = dir[n].fill /\ v.name = dir[n].name
        /\ v.by = dir[n].by /\ v.protocol = dir[n].protocol
  <2>1. PICK q \in Directories : q = dir[n]
    BY <1>3
  <2>2. PICK v : v = [q EXCEPT !.workspaces = ws]
    OBVIOUS
  <2>3. /\ v \in Directories /\ v.fill = q.fill /\ v.name = q.name
        /\ v.by = q.by /\ v.protocol = q.protocol
    BY <2>2 DEF Directories
  <2>4. QED
    BY <2>1, <2>2, <2>3
<1>8. dir' = [dir EXCEPT ![n] = v]
  BY <1>1, <1>6, <1>7
<1>9. /\ dir' \in [Places -> Directories \cup {Absent}]
      /\ dir'[n] = v
      /\ \A x \in Places \ {n} : dir'[x] = dir[x]
  BY <1>3, <1>8
<1>10. edits' \in Nat /\ edits' # 0
  BY <1>2 DEF IInv, TreeTypes
<1>11. v # Absent
  BY Apart
<1>12. \A x \in Destinations :
         /\ Present(x)' <=> Present(x)
         /\ dir'[x].fill = dir[x].fill /\ dir'[x].name = dir[x].name
         /\ dir'[x].by = dir[x].by /\ dir'[x].protocol = dir[x].protocol
  <2>1. ASSUME NEW x \in Destinations, x # n
        PROVE  dir'[x] = dir[x]
    BY <1>9, <2>1 DEF Places
  <2>2. QED
    BY <1>2, <1>7, <1>9, <1>11, <2>1 DEF Present
<1>13. /\ build' = [b \in Builders |-> build'[b]]
       /\ \A b \in Builders :
            build'[b] = IF n \in build[b].compiling
                        THEN [build[b] EXCEPT !.disturbed = TRUE] ELSE build[b]
  BY <1>2 DEF Disturbed
<1>14. TreeTypes'
  BY <1>2, <1>9, <1>10, <1>13 DEF IInv, TreeTypes
<1>15. \A d \in Destinations : Whole(d)'
  BY <1>12 DEF IInv, Whole
<1>16. ASSUME NEW c \in Creators
       PROVE  Creation(c)'
  <2>1. Creation(c) /\ create[c].target \in Destinations /\ dir'[c] = dir[c]
    BY <1>3, <1>9, Apart DEF IInv, TreeTypes, Creations, Places
  <2>2. Content(dir[c].fill, c)' = Content(dir[c].fill, c)
    BY <1>2, <2>1 DEF Content
  <2>3. QED
    BY <1>2, <1>10, <1>12, <2>1, <2>2 DEF Creation, At, Present
<1>17. ASSUME NEW b \in Builders
       PROVE  Building(b)'
  <2>1. Published' = Published
    BY <1>12, Apart DEF Published
  <2>2. CASE n \in build[b].compiling
    <3>1. PICK r : r = [build[b] EXCEPT !.disturbed = TRUE]
      OBVIOUS
    <3>2. IsBuild(build[b])
      BY BuildIsRecord
    <3>3. /\ IsBuild(r) /\ r.todo = build[b].todo /\ r.targets = build[b].targets
          /\ r.compiling = build[b].compiling /\ r.succeeded = build[b].succeeded
          /\ r.disturbed = TRUE
      BY <3>1, <3>2 DEF IsBuild
    <3>4. build'[b] = r
      BY <1>13, <2>2, <3>1
    <3>5. QED
      BY <2>1, <3>3, <3>4, BuildingOf DEF Building, Undisturbed
  <2>3. CASE n \notin build[b].compiling
    <3>1. build'[b] = build[b]
      BY <1>13, <2>3
    <3>2. \A t \in build[b].compiling : dir'[t] = dir[t]
      BY <1>9, <2>3, BuildingOf, Apart DEF Published, Places
    <3>3. QED
      BY <2>1, <3>1, <3>2, BuildingOf DEF Building, Undisturbed
  <2>4. QED
    BY <2>2, <2>3
<1>18. QED
  BY <1>14, <1>15, <1>16, <1>17 DEF IInv

\* A copy takes a free name and carries it.
LEMMA CopyStep ==
  ASSUME IInv, NEW from \in Names, NEW to \in Names, CopySource(from, to)
  PROVE  IInv'
<1>1. /\ dir[from] # Absent /\ dir[to] = Absent
      /\ dir' = [dir EXCEPT ![to] = [dir[from] EXCEPT !.name = to]]
      /\ edits' = edits + 1 /\ create' = create /\ build' = build
  BY DEF CopySource, Present
<1>2. /\ from \in Places /\ from \in Destinations
      /\ to \in Places /\ to \in Destinations
      /\ dir \in [Places -> Directories \cup {Absent}]
      /\ dir[from] \in Directories /\ dir[from].fill = "complete"
  BY <1>1, Apart DEF IInv, TreeTypes, Places, Whole, Present
<1>3. PICK v \in Directories :
        v = [dir[from] EXCEPT !.name = to] /\ v.fill = "complete" /\ v.name = to
  <2>1. PICK q \in Directories : q = dir[from] /\ q.fill = "complete"
    BY <1>2
  <2>2. PICK v : v = [q EXCEPT !.name = to]
    OBVIOUS
  <2>3. v \in Directories /\ v.fill = "complete" /\ v.name = to
    BY <1>2, <2>1, <2>2 DEF Directories
  <2>4. QED
    BY <2>1, <2>2, <2>3
<1>4. /\ dir' \in [Places -> Directories \cup {Absent}]
      /\ dir'[to] = v
      /\ \A x \in Places \ {to} : dir'[x] = dir[x]
  BY <1>1, <1>2, <1>3
<1>5. edits' \in Nat /\ edits' # 0
  BY <1>1 DEF IInv, TreeTypes
<1>6. \A x \in Destinations : Present(x) => dir'[x] = dir[x] /\ x # to
  BY <1>1, <1>4 DEF Present, Places
<1>7. TreeTypes'
  BY <1>1, <1>4, <1>5 DEF IInv, TreeTypes
<1>8. ASSUME NEW d \in Destinations
      PROVE  Whole(d)'
  <2>1. CASE d = to
    BY <1>3, <1>4, <2>1 DEF Whole
  <2>2. CASE d # to
    <3>1. dir'[d] = dir[d]
      BY <1>4, <2>2 DEF Places
    <3>2. QED
      BY <3>1 DEF IInv, Whole, Present
  <2>3. QED
    BY <2>1, <2>2
<1>9. ASSUME NEW c \in Creators
      PROVE  Creation(c)'
  <2>1. Creation(c) /\ create[c].target \in Destinations /\ dir'[c] = dir[c]
    BY <1>2, <1>4, Apart DEF IInv, TreeTypes, Creations, Places
  <2>2. Content(dir[c].fill, c)' = Content(dir[c].fill, c)
    BY <1>1, <2>1 DEF Content
  <2>3. At(c, "done") =>
          Present(create[c].target)
          /\ dir'[create[c].target] = dir[create[c].target]
    BY <1>6, <2>1 DEF Creation
  <2>4. QED
    BY <1>1, <1>5, <2>1, <2>2, <2>3 DEF Creation, At, Present
<1>10. ASSUME NEW b \in Builders
       PROVE  Building(b)'
  <2>1. Published \subseteq Published'
    BY <1>6, Apart DEF Published, Present
  <2>2. \A t \in build[b].compiling : dir'[t] = dir[t]
    BY <1>6, BuildingOf, Apart DEF Published
  <2>3. QED
    BY <1>1, <2>1, <2>2, BuildingOf DEF Building, Undisturbed
<1>11. QED
  BY <1>7, <1>8, <1>9, <1>10 DEF IInv

-----------------------------------------------------------------------------
(* The invariant                                                           *)

LEMMA InitInv == Init => IInv
<1> SUFFICES ASSUME Init PROVE IInv
  OBVIOUS
<1>1. \A d \in Places : ~ Present(d)
  BY DEF Init, Places, Present
<1>2. TreeTypes
  <2>1. create \in [Creators -> Creations]
    BY DEF Init, Creations, CreatePCs
  <2>2. QED
    BY <2>1 DEF Init, TreeTypes, Places
<1>3. \A d \in Destinations : Whole(d)
  BY <1>1 DEF Whole, Places
<1>4. \A c \in Creators : create[c].pc = "check"
  BY DEF Init
<1>5. \A c \in Creators : Creation(c)
  BY <1>1, <1>4 DEF Creation, At, Places
<1>6. \A b \in Builders : Building(b)
  <2>1. /\ Idle.todo = {} /\ Idle.targets = {} /\ Idle.compiling = {}
        /\ Idle.succeeded = {}
    BY DEF Idle
  <2>2. \A b \in Builders : build[b] = Idle
    BY DEF Init
  <2>3. QED
    BY <2>1, <2>2, IdleIsBuild DEF Building, Undisturbed
<1>7. QED
  BY <1>2, <1>3, <1>5, <1>6 DEF IInv

LEMMA InductiveStep == IInv /\ [Next]_vars => IInv'
<1> SUFFICES ASSUME IInv, [Next]_vars PROVE IInv'
  OBVIOUS
<1>1. ASSUME NEW c \in Creators,
             \/ CheckSource(c) \/ CheckProject(c) \/ MakeRoot(c) \/ Stage(c)
             \/ FillStaging(c) \/ FinalizeSource(c) \/ FinalizeProject(c)
             \/ Fault(c) \/ Kill(c)
      PROVE  IInv'
  BY <1>1, QuietCreators, StageStep, FillStep, FinalizeStep
<1>2. ASSUME NEW b \in Builders,
             \/ Resolve(b) \/ List(b) \/ Visit(b) \/ Validate(b) \/ Compile(b)
             \/ Outcome(b)
      PROVE  IInv'
  BY <1>2, ResolveStep, ListStep, VisitStep, ValidateStep, CompileStep, OutcomeStep
<1>3. ASSUME NEW n \in Names, Edit(n) PROVE IInv'
  BY <1>3, EditStep
<1>4. ASSUME NEW from \in Names, NEW to \in Names, CopySource(from, to) PROVE IInv'
  BY <1>4, CopyStep
<1>5. CASE UNCHANGED vars
  BY <1>5 DEF vars, IInv, TreeTypes, Whole, Creation, Building, Undisturbed,
              Present, Published, At, Content
<1>6. QED
  BY <1>1, <1>2, <1>3, <1>4, <1>5 DEF Next

LEMMA Invariance == Spec => []IInv
  BY InitInv, InductiveStep, PTL DEF Spec

\* Whichever creators raced for a destination, failed or were killed: what lies
\* there is complete, and who reports success created it
\* (finalize_source_staging, initialize_project).
THEOREM DestinationsAreWhole == Spec => []PublishedOnceAndWhole
<1>1. IInv => PublishedOnceAndWhole
  BY DEF IInv, PublishedOnceAndWhole, Whole, Creation
<1>2. QED
  BY <1>1, Invariance, PTL

\* Only published sources are built or given to a data command
\* (discover_build_targets, resolve_project_layout).
THEOREM OnlySourcesAreTargets == Spec => []TargetsAreSources
<1>1. IInv => TargetsAreSources
  BY DEF IInv, TargetsAreSources, Building
<1>2. QED
  BY <1>1, Invariance, PTL

\* Every build accepts what `source create` created with success, and finds
\* that its workspaces fit as long as nobody edited anything
\* (generate_source_scaffold against discover_build_targets and build_source).
THEOREM CreatedIsAccepted == Spec => []CreatedIsBuildable
<1>1. ASSUME IInv, NEW c \in Creators, At(c, "done"), IsSource(c),
             create[c].protocol = "http"
      PROVE  /\ Accepted(create[c].target)
             /\ edits = 0 => Fits(create[c].target)
  <2>1. PICK d \in Destinations : d = create[c].target
    BY <1>1 DEF IInv, TreeTypes, Creations
  <2>2. /\ Present(d) /\ dir[d].fill = "complete" /\ dir[d].name = d
        /\ dir[d].protocol = "http"
        /\ edits = 0 =>
             dir[d].workspaces = [o \in Operations |-> Scaffold(d, o)]
    BY <1>1, <2>1 DEF IInv, Creation, Whole
  <2>3. Accepted(d)
    BY <2>2 DEF Accepted
  <2>4. ASSUME edits = 0 PROVE Fits(d)
    <3>1. \A o \in Operations : dir[d].workspaces[o] = Scaffold(d, o)
      BY <2>2, <2>4
    <3>2. QED
      BY <2>2, <2>3, <3>1, ScaffoldFits DEF Fits
  <2>5. QED
    BY <2>1, <2>3, <2>4
<1>2. IInv => CreatedIsBuildable
  BY <1>1 DEF CreatedIsBuildable
<1>3. QED
  BY <1>2, Invariance, PTL

\* The executables of a successful build are the runners of that source, and,
\* unless it was edited meanwhile, the template for each operation with the
\* implementation beside it (build_source).
THEOREM BuildsTakeTheirOwn == Spec => []RunnersAreOwn
<1>1. IInv => RunnersAreOwn
  BY DEF IInv, RunnersAreOwn, Building, Own
<1>2. QED
  BY <1>1, Invariance, PTL
=============================================================================
