---------------------------- MODULE RuntimeLaunch ----------------------------
(***************************************************************************)
(* How a runtime makes sure it is the one the session was prepared for.    *)
(* Its identity reaches it by four ways: compiled into it                  *)
(* (runtime/identity.rs), as an envelope in its arguments                  *)
(* (runtime/invocation.rs, runtime/invocation_transport.rs), as a context  *)
(* document in its environment (session/context.rs) and as the durable     *)
(* session record (session/binding.rs).  Between the moments these are     *)
(* written a source may be rebuilt, the project renamed, a source          *)
(* directory copied, Lexicon upgraded, and in a background execution       *)
(* another process resolves everything again; and anyone may start a       *)
(* runtime with arguments and an environment seen before.  The hand-over   *)
(* protocol itself is in BackgroundExecution, the session's life in        *)
(* DataExecution: here a record is who it is for and its state.            *)
(***************************************************************************)
EXTENDS Naturals, Sequences

CONSTANTS
  Names,         \* names lexicon.toml can give the project
  Sources,       \* source directories
  Versions,      \* contract versions, of a Lexicon or of what it built
  Sessions,      \* session identities
  Launches,      \* command invocations, each with the host that may follow it
  Runtimes,      \* runtime processes
  Capabilities,  \* HTTP capabilities a source can require
  Offered,       \* those the runner template compiles in
  Arguments,     \* source arguments of a command
  Built,         \* directories with a published runtime to begin with
  MaxChanges,    \* bound: rebuilds, renames, copies and upgrades
  None           \* no bundle, record, document, owner or launch

Operations == {"acquisition", "processing"}
Modes      == {"run", "resume"}

\* RuntimeIdentity; every protocol is http.
Identities == [source : Sources, operation : Operations, version : Versions]

\* The identity in session.json, and how far the session is.
Records ==
  [project : Names, runtime : Identities, mode : Modes,
   supervision : {"foreground", "background"},
   state : {"prepared", "running", "ended"}]

\* What a context document can say; its paths are those of an operation root
\* and a session, and of a source-state directory if there is one.
Contexts ==
  [project : Names, runtime : Identities, session : Sessions,
   paths : [root : [source : Sources, operation : Operations],
            session : Sessions, state : BOOLEAN]]

\* What occurs in source arguments.
Words == UNION {{a[i] : i \in DOMAIN a} : a \in Arguments}

ASSUME LaunchAssumption ==
  /\ Arguments \subseteq Seq(Words)
  /\ Offered \subseteq Capabilities
  /\ Versions \subseteq Nat \ {0}
  /\ MaxChanges \in Nat
  /\ Built \subseteq [source : Sources,
                      operation : {"acquisition", "processing"}]
  /\ None \notin Launches \cup Sessions \cup Records \cup Contexts
  /\ None \notin [runtime : Identities, required : SUBSET Capabilities,
                 resume : BOOLEAN]

VARIABLES
  name,      \* the project's name in lexicon.toml
  core,      \* contract version of the installed Lexicon
  bundles,   \* per directory: the runtime published there
  records,   \* per directory and session: session.json
  leases,    \* per directory and session: the launch holding the lease
  launches,  \* per launch: what it resolved, and how far it is
  children,  \* per runtime process: its inputs and how far it is
  sent,      \* history: argument vectors and context documents handed out
  changes    \* number of changes made behind the launches' backs

vars == <<name, core, bundles, records, leases, launches, children, sent,
          changes>>

\* sources/<source>/http/<operation>, an operation root.
Directories == [source : Sources, operation : Operations]
Directory(identity) ==
  [source |-> identity.source, operation |-> identity.operation]

\* The mains of the two runners, as compiled: an identity, what the source
\* requires, and whether it registers a resume handler.
AcquisitionRunner(identity, required, resume) ==
  [runtime |-> identity, required |-> required, resume |-> resume]
ProcessingRunner(identity) ==
  [runtime |-> identity, required |-> {}, resume |-> FALSE]

Runner(identity, required, resume) ==
  IF identity.operation = "acquisition"
  THEN AcquisitionRunner(identity, required, resume)
  ELSE ProcessingRunner(identity)

Executables ==
  {Runner(i, required, resume) :
     i \in Identities, required \in SUBSET Capabilities, resume \in BOOLEAN}

\* RuntimeContextPaths: the session directory, and whether there is a
\* source-state directory.
PathsOf(d, s) ==
  [root |-> d, session |-> s, state |-> d.operation = "acquisition"]

\* RuntimeContextPaths::new on the paths of a context document.
PathsAgree(paths, operation, s) ==
  /\ paths.root.operation = operation
  /\ paths.session = s
  /\ paths.state <=> operation = "acquisition"

\* RuntimeInvocationEnvelopeV1::new: only an acquisition can be resumed.
Constructible(e) ==
  /\ e.runtime.version # 0
  /\ e.runtime.operation = "processing" => e.mode = "run"

\* encode_runtime_invocation
Encoded(e, arguments) == <<"invocation", e, "delimiter">> \o arguments

\* parse_runtime_invocation: neither a probe nor anything else.
Parses(argv) ==
  /\ Len(argv) >= 3
  /\ argv[1] = "invocation" /\ argv[3] = "delimiter"
  /\ Constructible(argv[2])
SourceArguments(argv) == SubSeq(argv, 4, Len(argv))

\* What the host is started with: its role, OperatorHostInvocationV1, the
\* delimiter and the arguments of the source.
HostArgv(d, s, arguments) ==
  <<"operator-host",
    [source |-> d.source, operation |-> d.operation, session |-> s],
    "delimiter">> \o arguments

\* A mutant: the delimiter is handed on as well.
MutHostArguments(argv) == SubSeq(argv, 3, Len(argv))
\* OperatorHostCommand: one delimiter is the host's own, all that follows it
\* is forwarded as it is.
HostArguments(argv) == SubSeq(argv, 4, Len(argv))

\* RuntimeInformationV1, what the probe of an executable reports of it and
\* the manifest keeps.
Information(x) ==
  [identity |-> x.runtime, descriptor |-> x.runtime.version,
   required |-> x.required, available |-> Offered, resume |-> x.resume]

\* RuntimeInformationV1::from_json: a version is not zero.
Decodes(info) == info.identity.version # 0 /\ info.descriptor # 0

\* RuntimeInformationV1::validate_compatibility_owned
Compatible(info, identity) ==
  /\ info.identity = identity /\ info.descriptor = info.identity.version
  /\ info.required \subseteq info.available

\* ProcessingRuntimeInformationV1, the same for a processing runtime.
ProcessingInformation(x) ==
  [identity |-> x.runtime, descriptor |-> x.runtime.version]

\* ProcessingRuntimeInformationV1::from_json
ProcessingDecodes(info) ==
  /\ info.identity.version # 0 /\ info.descriptor # 0
  /\ info.identity.operation = "processing"

\* ProcessingRuntimeInformationV1::validate_compatibility_owned
ProcessingCompatible(info, identity) ==
  info.identity = identity /\ info.descriptor = identity.version

\* The probe of a runtime just built: what it printed, one line, decodes and
\* is compatible (admit_http_runtime_information_probe_owned; and
\* admit_processing_runtime_information_probe_owned).
HttpProbeAdmits(info, identity) ==
  Decodes(info) /\ Compatible(info, identity)
ProcessingProbeAdmits(info, identity) ==
  ProcessingDecodes(info) /\ ProcessingCompatible(info, identity)

\* The identity a runtime of directory d has under contract version v.
IdentityAt(d, v) ==
  [source |-> d.source, operation |-> d.operation, version |-> v]

\* RuntimeManifestV1 and ProcessingRuntimeManifestV1 of a build: what its
\* probe reported, and the digest of what was probed.
Manifest(x)           == [sha256 |-> x, information |-> Information(x)]
ProcessingManifest(x) == [sha256 |-> x, information |-> ProcessingInformation(x)]

\* The manifest decodes, is about the executable beside it, and is compatible.
ManifestAdmits(m, x, identity) ==
  /\ Decodes(m.information) /\ m.sha256 = x
  /\ Compatible(m.information, identity)
ProcessingManifestAdmits(m, x, identity) ==
  /\ ProcessingDecodes(m.information) /\ m.sha256 = x
  /\ ProcessingCompatible(m.information, identity)

\* admit_bundle: the bundle of directory d, under contract version v.
Admits(x, d, v) ==
  /\ x # None
  /\ IF d.operation = "acquisition"
     THEN ManifestAdmits(Manifest(x), x, IdentityAt(d, v))
     ELSE ProcessingManifestAdmits(ProcessingManifest(x), x, IdentityAt(d, v))

-----------------------------------------------------------------------------
(* What happens behind a launch's back                                     *)

Change ==
  /\ changes < MaxChanges
  /\ changes' = changes + 1
  /\ UNCHANGED <<leases, launches, children, sent>>

Rename(n) ==
  /\ Change /\ n # name /\ name' = n
  /\ UNCHANGED <<core, bundles, records>>

Upgrade ==
  /\ Change /\ \E v \in Versions : v > core /\ core' = v
  /\ UNCHANGED <<name, bundles, records>>

\* A build compiles the directory's own identity into the runner and
\* publishes only what its probe shows compatible.
Build(d, required, resume) ==
  LET identity == IdentityAt(d, core)
      x == Runner(identity, required, resume) IN
  /\ Change
  /\ IF d.operation = "acquisition"
     THEN HttpProbeAdmits(Information(x), identity)
     ELSE ProcessingProbeAdmits(ProcessingInformation(x), identity)
  /\ bundles' = [bundles EXCEPT ![d] = x]
  /\ UNCHANGED <<name, core, records>>

\* cp -r of a source with its bundles and its sessions.
Copy(from, to) ==
  /\ Change
  /\ \A d \in Directories : d.source = to =>
       bundles[d] = None /\ \A s \in Sessions : records[d][s] = None
  /\ LET original(d) ==
           IF d.source = to THEN [d EXCEPT !.source = from] ELSE d
     IN  /\ bundles' = [d \in Directories |-> bundles[original(d)]]
         /\ records' = [d \in Directories |-> records[original(d)]]
  /\ UNCHANGED <<name, core>>

-----------------------------------------------------------------------------
(* The command, and the operator host                                      *)

At(l, pc)   == launches[l].pc = pc
Idle ==
  [pc |-> "idle", supervision |-> "foreground", directory |-> None,
   project |-> None, bundle |-> None, session |-> None, arguments |-> <<>>,
   lexicon |-> None, asked |-> None]
Goto(l, pc) == launches' = [launches EXCEPT ![l].pc = pc]
Leave(l)    == launches' = [launches EXCEPT ![l] = [Idle EXCEPT !.pc = "gone"]]
Outside     == UNCHANGED <<name, core, bundles, changes>>

SetRecord(d, s, r) == records' = [records EXCEPT ![d][s] = r]
Release(d, s)      == leases' = [leases EXCEPT ![d][s] = None]
Own(l)             == records[launches[l].directory][launches[l].session]

\* Resolve the project and admit the bundle; nothing is changed when that
\* fails.  What the command is asked for, and how many changes came before it,
\* is kept for the properties.
Resolve(l, d, supervision, arguments) ==
  /\ At(l, "idle")
  /\ Admits(bundles[d], d, core)
  /\ launches' = [launches EXCEPT ![l] =
       [pc |-> "prepare", supervision |-> supervision, directory |-> d,
        project |-> name, bundle |-> bundles[d], session |-> None,
        arguments |-> arguments, lexicon |-> None,
        asked |-> [directory |-> d, session |-> None, arguments |-> arguments,
                   supervision |-> supervision, began |-> changes]]]
  /\ UNCHANGED <<records, leases, children, sent>> /\ Outside

\* A mutant: the executable need not have a handler to resume with.
ResumableAnyway(l) ==
  \E s \in Sessions : records[launches[l].directory][s] # None

\* A resumption follows a failed acquisition and needs the handler.
Resumable(l) ==
  /\ launches[l].bundle.resume
  /\ \E s \in Sessions : records[launches[l].directory][s] # None

\* create_prepared_launch, when no session there is unfinished.  In the
\* background the host is started next: Lexicon as it is installed then.
Prepare(l, s, mode) ==
  LET at == launches[l]
      d  == at.directory IN
  /\ At(l, "prepare")
  /\ \A e \in Directories : records[e][s] = None
  /\ \A t \in Sessions : records[d][t] # None => records[d][t].state = "ended"
  /\ mode = "resume" => Resumable(l)
  /\ SetRecord(d, s,
       [project |-> at.project, runtime |-> at.bundle.runtime, mode |-> mode,
        supervision |-> at.supervision, state |-> "prepared"])
  /\ leases' = [leases EXCEPT ![d][s] = l]
  /\ launches' = [launches EXCEPT ![l].session = s, ![l].asked.session = s,
       ![l].lexicon = IF at.supervision = "background" THEN core ELSE None,
       ![l].pc = IF at.supervision = "background" THEN "host" ELSE "check"]
  /\ UNCHANGED <<children, sent>> /\ Outside

\* The host has source, operation, session and arguments from what it was
\* started with; project and bundle it resolves anew, then it acknowledges.
\* When it cannot, it exits and the initiator, if alive, fails the launch.
HostResolves(l) ==
  LET at   == launches[l]
      argv == HostArgv(at.directory, at.session, at.arguments)
      d    == [source |-> argv[2].source, operation |-> argv[2].operation] IN
  /\ At(l, "host")
  /\ IF Admits(bundles[d], d, at.lexicon)
     THEN /\ launches' = [launches EXCEPT ![l] =
               [at EXCEPT !.pc = "resume", !.directory = d,
                          !.session = argv[2].session,
                          !.arguments = HostArguments(argv),
                          !.project = name, !.bundle = bundles[d]]]
          /\ UNCHANGED <<records, leases>>
     ELSE /\ Leave(l)
          /\ IF leases[at.directory][at.session] = l
             THEN /\ SetRecord(at.directory, at.session,
                               [Own(l) EXCEPT !.state = "ended"])
                  /\ Release(at.directory, at.session)
             ELSE UNCHANGED <<records, leases>>
  /\ UNCHANGED <<children, sent>> /\ Outside

\* The initiator lets go of the lease: once the host has acknowledged, or when
\* it dies.
ReleaseForHost(l) ==
  LET at == launches[l] IN
  /\ At(l, "resume") \/ At(l, "host")
  /\ leases[at.directory][at.session] = l
  /\ Release(at.directory, at.session)
  /\ UNCHANGED <<records, launches, children, sent>> /\ Outside

\* resume_prepared_launch: of the record only the state is looked at.
HostResumes(l) ==
  LET at == launches[l] IN
  /\ At(l, "resume")
  /\ leases[at.directory][at.session] = None
  /\ IF Own(l).state = "prepared"
     THEN /\ leases' = [leases EXCEPT ![at.directory][at.session] = l]
          /\ Goto(l, "check")
     ELSE Leave(l) /\ UNCHANGED leases
  /\ UNCHANGED <<records, children, sent>> /\ Outside

\* build_invocation_envelope
Envelope(l) ==
  [project |-> launches[l].project, runtime |-> launches[l].bundle.runtime,
   session |-> launches[l].session, mode |-> Own(l).mode,
   supervision |-> launches[l].supervision]

\* encode_runtime_context
Context(l) ==
  [project |-> launches[l].project, runtime |-> launches[l].bundle.runtime,
   session |-> launches[l].session,
   paths |-> PathsOf(launches[l].directory, launches[l].session)]

\* spawn_and_supervise up to the integrity recheck: the executable is still
\* the one admitted, else the session fails.
Check(l) ==
  LET at == launches[l] IN
  /\ At(l, "check")
  /\ IF Constructible(Envelope(l)) /\ bundles[at.directory] = at.bundle
     THEN Goto(l, "spawn") /\ UNCHANGED <<records, leases>>
     ELSE /\ Leave(l)
          /\ SetRecord(at.directory, at.session,
                       [Own(l) EXCEPT !.state = "ended"])
          /\ Release(at.directory, at.session)
  /\ UNCHANGED <<children, sent>> /\ Outside

Started(l, x, argv, env, asked) ==
  [pc |-> "admit", launch |-> l, executable |-> x, argv |-> argv,
   env |-> env, seen |-> None, asked |-> asked]

\* What runs is what lies at the path by then.
Spawn(l, r) ==
  LET d    == launches[l].directory
      argv == Encoded(Envelope(l), launches[l].arguments) IN
  /\ At(l, "spawn") /\ children[r] = None
  /\ children' = [children EXCEPT ![r] =
                    Started(l, bundles[d], argv, Context(l), launches[l].asked)]
  /\ sent' = [argv |-> sent.argv \cup {argv},
              env  |-> sent.env \cup {Context(l)}]
  /\ Goto(l, "wait")
  /\ UNCHANGED <<records, leases>> /\ Outside

\* The child is gone: whatever it left unfinished has ended.
Reconcile(l) ==
  LET at == launches[l] IN
  /\ At(l, "wait")
  /\ \A r \in Runtimes : children[r] # None => children[r].launch # l
  /\ SetRecord(at.directory, at.session, [Own(l) EXCEPT !.state = "ended"])
  /\ Release(at.directory, at.session)
  /\ Leave(l)
  /\ UNCHANGED <<children, sent>> /\ Outside

\* The command or the host dies with its lease; a child lives on.
Die(l) ==
  /\ \E d \in Directories, s \in Sessions : leases[d][s] = l
  /\ leases' = [d \in Directories |-> [s \in Sessions |->
                  IF leases[d][s] = l THEN None ELSE leases[d][s]]]
  /\ Leave(l)
  /\ UNCHANGED <<records, children, sent>> /\ Outside

\* reconcile_stale_current_session of a later command.
ReconcileStale(d, s) ==
  /\ records[d][s] # None /\ records[d][s].state # "ended"
  /\ leases[d][s] = None
  /\ SetRecord(d, s, [records[d][s] EXCEPT !.state = "ended"])
  /\ UNCHANGED <<leases, launches, children, sent>> /\ Outside

-----------------------------------------------------------------------------
(* The runtime                                                             *)

Child(r, pc) == children[r] # None /\ children[r].pc = pc
Ends(r)        == children' = [children EXCEPT ![r] = None]
Advance(r, pc) == children' = [children EXCEPT ![r].pc = pc]
RuntimeOnly == UNCHANGED <<records, leases, launches, sent>> /\ Outside

\* try_write_runtime_information_probe: what the first argument decides; a
\* runtime that is probed does nothing else.
Probed(argv) == argv # <<>> /\ argv[1] = "probe"

\* admit_http_runtime_invocation, admit_processing_runtime_invocation
Admitted(c) ==
  /\ Parses(c.argv)
  /\ c.argv[2].runtime = c.executable.runtime
  /\ c.executable.required \subseteq Offered
  /\ c.argv[2].mode = "resume" => c.executable.resume

\* decode_runtime_context
ContextAgrees(env, e) ==
  /\ env # None
  /\ env.project = e.project /\ env.runtime = e.runtime
  /\ env.session = e.session
  /\ PathsAgree(env.paths, e.runtime.operation, e.session)

\* What a runtime looks at first is its own and no other process can change
\* it, so that this is one step.
AcceptsInputs(c) ==
  /\ ~ Probed(c.argv)
  /\ Admitted(c)
  /\ ContextAgrees(c.env, c.argv[2])

Admit(r) ==
  /\ Child(r, "admit")
  /\ IF AcceptsInputs(children[r]) THEN Advance(r, "bind") ELSE Ends(r)
  /\ RuntimeOnly

\* Someone starts a runtime with arguments and an environment that were
\* handed out to any, with nothing, or to probe it.  One that turns its inputs
\* away has come and gone without an effect.
StartByHand(r, d, argv, env) ==
  LET c == Started(None, bundles[d], argv, env, None) IN
  /\ children[r] = None /\ bundles[d] # None
  /\ argv \in sent.argv \cup {<<>>, <<"probe">>}
  /\ env \in sent.env \cup {None}
  /\ AcceptsInputs(c)
  /\ children' = [children EXCEPT ![r] = [c EXCEPT !.pc = "bind"]]
  /\ UNCHANGED <<records, leases, launches, sent>> /\ Outside

\* A mutant: the project's name is not compared.
MutRecordAgrees(rec, e) ==
  /\ rec # None /\ rec.state = "prepared"
  /\ rec.runtime = e.runtime
  /\ rec.mode = e.mode /\ rec.supervision = e.supervision

\* bind_runtime_session
RecordAgrees(rec, e) ==
  /\ rec # None /\ rec.state = "prepared"
  /\ rec.project = e.project /\ rec.runtime = e.runtime
  /\ rec.mode = e.mode /\ rec.supervision = e.supervision

Target(c) == [directory |-> c.env.paths.root, session |-> c.argv[2].session]
RecordOf(t) == records[t.directory][t.session]

Bind(r) ==
  LET t == Target(children[r]) IN
  /\ Child(r, "bind")
  /\ IF /\ RecordAgrees(RecordOf(t), children[r].argv[2])
        /\ leases[t.directory][t.session] # None
     THEN children' = [children EXCEPT ![r].pc = "enter",
                         ![r].seen = RecordOf(t)]
     ELSE Ends(r)
  /\ RuntimeOnly

\* enter_running: the record is still at the revision that was bound.
EnterRunning(r) ==
  LET t == Target(children[r]) IN
  /\ Child(r, "enter")
  /\ IF RecordOf(t) = children[r].seen
     THEN /\ SetRecord(t.directory, t.session,
                       [RecordOf(t) EXCEPT !.state = "running"])
          /\ Advance(r, "handler")
     ELSE Ends(r) /\ UNCHANGED records
  /\ UNCHANGED <<leases, launches, sent>> /\ Outside

\* The handler returns and the session ends, unless that was done already.
HandlerReturns(r) ==
  LET t == Target(children[r]) IN
  /\ Child(r, "handler")
  /\ SetRecord(t.directory, t.session, [RecordOf(t) EXCEPT !.state = "ended"])
  /\ Ends(r)
  /\ UNCHANGED <<leases, launches, sent>> /\ Outside

Killed(r) ==
  /\ children[r] # None
  /\ Ends(r)
  /\ RuntimeOnly

-----------------------------------------------------------------------------
NoRecords == [d \in Directories |-> [s \in Sessions |-> None]]

\* Some operations were built by the installed Lexicon.
Init ==
  /\ name \in Names
  /\ core \in Versions /\ \A v \in Versions : core <= v
  /\ bundles \in [Directories -> Executables \cup {None}]
  /\ \A d \in Directories :
       IF d \in Built THEN Admits(bundles[d], d, core) ELSE bundles[d] = None
  /\ records = NoRecords /\ leases = NoRecords
  /\ launches = [l \in Launches |-> Idle]
  /\ children = [r \in Runtimes |-> None]
  /\ sent = [argv |-> {}, env |-> {}]
  /\ changes = 0

Environment ==
  \/ \E n \in Names : Rename(n)
  \/ Upgrade
  \/ \E d \in Directories, required \in SUBSET Capabilities,
        resume \in BOOLEAN : Build(d, required, resume)
  \/ \E from, to \in Sources : from # to /\ Copy(from, to)

LaunchStep(l) ==
  \/ \E d \in Directories, supervision \in {"foreground", "background"},
        arguments \in Arguments : Resolve(l, d, supervision, arguments)
  \/ \E s \in Sessions, mode \in Modes : Prepare(l, s, mode)
  \/ HostResolves(l) \/ ReleaseForHost(l) \/ HostResumes(l)
  \/ Check(l) \/ (\E r \in Runtimes : Spawn(l, r))
  \/ Reconcile(l) \/ Die(l)

RuntimeStep(r) ==
  \/ \E d \in Directories, argv \in sent.argv \cup {<<>>, <<"probe">>},
        env \in sent.env \cup {None} : StartByHand(r, d, argv, env)
  \/ Admit(r) \/ Bind(r) \/ EnterRunning(r)
  \/ HandlerReturns(r) \/ Killed(r)

Next ==
  \/ Environment
  \/ \E l \in Launches : LaunchStep(l)
  \/ \E d \in Directories, s \in Sessions : ReconcileStale(d, s)
  \/ \E r \in Runtimes : RuntimeStep(r)

Spec == Init /\ [][Next]_vars

-----------------------------------------------------------------------------
(* Properties                                                              *)

\* Whenever a source's handler runs, the executable, the arguments, the
\* environment and the session record are about the same project, source,
\* operation, contract version and session, mode and supervision are those
\* recorded, and it works in the directories of its own source: whatever was
\* rebuilt, renamed, copied or upgraded since the session was prepared, and
\* whoever started the runtime (run_http_runtime_invocation).
HandlerAgrees ==
  \A r \in Runtimes : Child(r, "handler") =>
    LET c   == children[r]
        e   == c.argv[2]
        rec == RecordOf(Target(c))
    IN  /\ e.runtime = c.executable.runtime
        /\ e.project = c.env.project /\ e.runtime = c.env.runtime
        /\ e.session = c.env.session
        /\ rec # None
        /\ e.project = rec.project /\ e.runtime = rec.runtime
        /\ e.mode = rec.mode /\ e.supervision = rec.supervision
        /\ Target(c).directory = Directory(c.executable.runtime)

\* The two sides agree: as long as nothing has changed since a command resolved
\* its project, the runtime that it or its host starts passes every check it
\* makes of its arguments, its environment and its own executable, and those it
\* makes of the session record unless that session has ended meanwhile; the
\* checks turn away what was changed or replayed and nothing else
\* (admit_http_runtime_invocation, decode_runtime_context,
\* bind_runtime_session).
LaunchAccepted ==
  \A r \in Runtimes : children[r] # None /\ children[r].launch # None =>
    LET c   == children[r]
        rec == RecordOf(Target(c))
    IN  changes = c.asked.began =>
          /\ AcceptsInputs(c)
          /\ rec.state # "prepared" \/ RecordAgrees(rec, c.argv[2])

\* A handler that runs for a command runs the operation of the source the
\* command was asked for, in the session it prepared, with the arguments it was
\* given, whichever process started it in the end: the arguments cross one
\* command line, or two (execute_operator_host, parse_runtime_invocation).
LaunchServed ==
  \A r \in Runtimes : Child(r, "handler") /\ children[r].launch # None =>
    LET c == children[r] IN
    /\ Directory(c.executable.runtime) = c.asked.directory
    /\ Target(c) = [directory |-> c.asked.directory,
                    session |-> c.asked.session]
    /\ SourceArguments(c.argv) = c.asked.arguments
    /\ c.argv[2].supervision = c.asked.supervision

=============================================================================
