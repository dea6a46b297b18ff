-------------------------- MODULE ManagedWorkspace --------------------------
(***************************************************************************)
(* The two cargo workspaces of a source (lexicon-framework lib.rs): what   *)
(* `lexicon source create` writes, what `lexicon build` demands of the     *)
(* text of the manifests and of the runner's main, what it demands of      *)
(* cargo's own view of them, and which of cargo's artifacts it takes.      *)
(* The files belong to the user, who may change any of them or copy a      *)
(* whole source; a build must not take what it finds for the runner of     *)
(* this source because it compiles.                                        *)
(***************************************************************************)
EXTENDS FiniteSets, Sequences

Operations == {"get-raw-data", "process-data"}

\* The implementation and the binary of an operation share a name.
ImplementationName(n, o) == <<n, o>>
BinaryName(n, o)         == <<n, o>>
RunnerName(n, o)         == <<n, o, "runner">>

-----------------------------------------------------------------------------
(* What is written                                                         *)

\* Members, and whether lexicon_core is a dependency of the workspace.
WorkspaceManifest == [members |-> <<"implementation", "runner">>, core |-> TRUE]

ImplementationManifest(n, o) ==
  [package |-> ImplementationName(n, o), binaries |-> {}]

RunnerManifest(n, o) ==
  [package |-> RunnerName(n, o), binaries |-> {BinaryName(n, o)},
   dependency |-> [path |-> "implementation",
                   package |-> ImplementationName(n, o)]]

\* The template with the source's name in it: what its probe will report.
RunnerMain(n, o) == [source |-> n, operation |-> o, canonical |-> TRUE]

\* The workspaces of sources with these names, as written or edited.
Workspaces(names) ==
  LET called == Seq(names \cup Operations \cup {"runner", "renamed", "second"})
  IN  [manifest : [members : Seq({"implementation", "runner", "extra"}),
                   core : BOOLEAN],
       implementation : [package : called, binaries : SUBSET called],
       runner : [package : called, binaries : SUBSET called,
                 dependency : [path : {"implementation", "elsewhere"},
                               package : called]],
       main : [source : names, operation : Operations, canonical : BOOLEAN],
       stray : SUBSET {"implementation", "runner"}, helper : BOOLEAN]

\* Without a file in src/bin, and without further packages.
Scaffold(n, o) ==
  [manifest |-> WorkspaceManifest,
   implementation |-> ImplementationManifest(n, o),
   runner |-> RunnerManifest(n, o), main |-> RunnerMain(n, o),
   stray |-> {}, helper |-> FALSE]

\* What a user may do to a workspace that still compiles: edit the main, or
\* make it another source's, rename the implementation, build with some other
\* implementation, name a second binary or put it into src/bin of either
\* package, add a package.
Edited(w, names) ==
  {[w EXCEPT !.main = [source |-> n, operation |-> @.operation,
                       canonical |-> FALSE]] : n \in names}
  \cup {[w EXCEPT !.implementation.package = <<"renamed">>,
                  !.runner.dependency.package = <<"renamed">>],
        [w EXCEPT !.runner.dependency.path = "elsewhere"],
        [w EXCEPT !.runner.binaries = @ \cup {<<"second">>}],
        [w EXCEPT !.stray = @ \cup {"implementation"}],
        [w EXCEPT !.stray = @ \cup {"runner"}],
        [w EXCEPT !.helper = TRUE],
        [w EXCEPT !.manifest.members = @ \o <<"extra">>]}

-----------------------------------------------------------------------------
(* What a build demands                                                    *)

\* The members are these, in this order; the files of both are there.
MembersFit(w) == w.manifest.members = <<"implementation", "runner">>

ImplementationFits(w, n, o) ==
  w.implementation = [package |-> ImplementationName(n, o), binaries |-> {}]

RunnerFits(w, n, o) ==
  /\ w.runner.package = RunnerName(n, o)
  /\ w.runner.binaries = {BinaryName(n, o)}
  /\ w.runner.dependency = [path |-> "implementation",
                            package |-> ImplementationName(n, o)]

\* lexicon_core comes from the workspace, and the main is the template,
\* letter by letter.
TemplateFits(w, n, o) == w.manifest.core /\ w.main = RunnerMain(n, o)

LayoutFits(w, n, o) ==
  /\ MembersFit(w)
  /\ ImplementationFits(w, n, o) /\ RunnerFits(w, n, o)
  /\ TemplateFits(w, n, o)

\* cargo metadata: a package inside the workspace that either depends on is a
\* member too, and what lies in src/bin is a binary.
Packages(w) ==
  {w.implementation.package, w.runner.package}
  \cup (IF w.helper THEN {<<"helper">>} ELSE {})
Binaries(w, package) ==
  w[package].binaries
  \cup (IF package \in w.stray THEN {<<"stray">>} ELSE {})

\* validate_managed_workspace_metadata
MetadataFits(w, n, o) ==
  /\ Packages(w) = {ImplementationName(n, o), RunnerName(n, o)}
  /\ Binaries(w, "implementation") = {}
  /\ Binaries(w, "runner") = {BinaryName(n, o)}

-----------------------------------------------------------------------------
(* What cargo makes of it, and what is taken                               *)

\* A line cargo prints about a target it built; kind and crate type of these
\* targets are the same, and the executable says what its main says.
Artifact(w, package, kind, name, executable) ==
  [reason |-> "compiler-artifact", package |-> package, kind |-> kind,
   name |-> name, test |-> FALSE, executable |-> executable,
   reports |-> w.main, implementation |-> w.runner.dependency.path]

\* The artifacts of cargo build --package <runner> --bin <binary>: none if the
\* workspace has no such target.
Artifacts(w, n, o) ==
  IF RunnerName(n, o) \in Packages(w) /\ BinaryName(n, o) \in Binaries(w, "runner")
  THEN {Artifact(w, w.implementation.package, "lib",
                 ImplementationName(n, o), "none"),
        Artifact(w, w.runner.package, "bin", BinaryName(n, o), "target")}
  ELSE {}

\* What else cargo may print among them: records with a reason only.
OtherMessages ==
  {[reason |-> r] : r \in {"build-script-executed", "build-finished"}}

\* A line that is not an artifact has not the fields of CompilerArtifact: it is
\* malformed, whatever its reason.
Malformed(messages) == \E m \in messages : m.reason # "compiler-artifact"

\* resolve_managed_package_id: cargo metadata is read once more, when cargo has
\* built (it may fail there; then the build fails, as any may).
PackageResolves(w, n, o) == RunnerName(n, o) \in Packages(w)

\* select_artifact_from_cargo_output: the one executable of that package and
\* name, not built for tests, and if every match has one in the target
\* directory of this build.
Selected(messages, n, o) ==
  LET matches == {m \in messages : /\ m.package = RunnerName(n, o)
                                   /\ m.kind = "bin"
                                   /\ m.name = BinaryName(n, o)
                                   /\ ~ m.test}
      located == {m \in matches : m.executable # "none"}
  IN  IF /\ ~ Malformed(messages)
         /\ \A m \in located : m.executable = "target"
         /\ Cardinality(located) = 1
      THEN located ELSE {}

\* A mutant: of the identity the probe reports the operation is compared.
MutVerified(a, n, o) == a.reports.operation = o

\* The probe of the executable reports this source and operation.
Verified(a, n, o) == a.reports.source = n /\ a.reports.operation = o

\* The runner a build of the operation ends up with, if any, where cargo
\* prints these other messages too.
Runners(w, n, o, others) ==
  {a \in Selected(Artifacts(w, n, o) \cup others, n, o) :
     PackageResolves(w, n, o) /\ Verified(a, n, o)}
=============================================================================
