# A verification development of lexicon

TLA+ models of lexicon (`src/`, Rust), TLC runs on small instances, and TLAPS
proofs for every size of instance. Modules are translated from the source;
`PROJECT.json` maps every definition to the lines it stands for.

## 1. Inventory

lexicon keeps *sources* in a project. For a source it builds two *runtimes*
(acquisition and processing), publishes them as bundles, and runs them as child
processes. Every execution is a *session* with a durable record. What the parts
keep, do and must guarantee:

| Part | State | Operations | What makes it correct |
| --- | --- | --- | --- |
| Session record, transitions (`lexicon-core/src/session/model.rs`, `transition.rs`) | `session.json`: state, revision, start/finish time, failure | new, apply a transition, `from_json` | the transition table; every record written can be loaded |
| Session store (`session/store.rs`) | one `session.json` per session, root `session_status.json` | create, load, transition, rebuild the summary, reconcile a stale session | no lost update; the summary never runs ahead of the record |
| Session lease (`session/lease.rs`) | a `flock` per session | acquire, inspect, drop (also by process death) | held while somebody may write; free once the owner is gone |
| Selection and coordinator (`lexicon-framework/src/session/`, `data/session.rs`) | none of its own | assess, `prepare_run`, `prepare_resume`, abandon, create, `resume_prepared_launch` | a live session is neither stolen nor abandoned; a dead one does not block |
| Foreground supervision (`data/foreground.rs`) | child handle, lease | spawn, wait, recover from a failed wait, reconcile exit and record | success is reported only for success; each session ends in a terminal record |
| Runtime binding and runners (`session/binding.rs`, `protocols/http/runner.rs`, `processing/runner.rs`) | the runtime's view of its record | bind, enter running, complete, fail | the handler runs only for the bound session under a live lease |
| Background hand-over (`data/background.rs`, `supervision/`) | intent and acknowledgement files, host process | initiate, acknowledge, release, re-acquire, time out | exactly one supervisor after the hand-over, or a failed launch |
| Process supervision (`process/`) | cancellation slot, child | wait, graceful and forced shutdown | a child is reaped; a cancellation is delivered once |
| HTTP engine (`protocols/http/context.rs`, `policy.rs`) | attempt counters, progress document | execute with retries and redirects | every attempt is recorded before it is reported; limits hold |
| Transaction recorder, checkpoints (`protocols/http/transaction/`, `checkpoint/`) | staging and final directories, checkpoint files | record, publish without replacing, commit, admit | nothing partial is admitted; one checkpoint per key and session |
| Processing (`processing/`) | SQLite transaction, catalogue of transactions | discover, begin, handler, commit, roll back | no success without a durable commit |
| Build, staging, admission (`build/`) | staging directories, manifests | run cargo, probe, stage, admit | only the verified bytes are admitted |
| Publication (`publication/`) | destination, backup, staged bundle, twice | replace, commit, roll back, clean up | both bundles are replaced or both restored |
| Launch (`runtime/`, `data/runtime.rs`, `session/context.rs`) | envelope, arguments, context document, manifest | probe, encode, spawn, parse, admit, bind | a handler runs only where executable, arguments, environment and record agree |
| Scaffolding and configuration (`lexicon-framework/src/lib.rs`) | the project's directories, `source.toml`, managed workspaces | `init`, `source create`, discovery of targets, `build --all`, resolution of a source | destinations are complete or absent; only sources are built; what is built is the source's own runner |
| Bundle installer (`lexicon-bundle/src/`) | the installed executable, the installation record, links in PATH directories, lines in startup files | install, uninstall, `--install`, `--uninstall` | what counts as installed is whole; the record names exactly what was added; what belongs to others stays |
| Names, file primitives, command line, automation | files, arguments | sequential | see section 6 |

The parts interact through files and locks, not messages: any number of
`lexicon data` processes and the source runtimes they spawn share the store of an
operation, and the only mutual exclusion is the lease of one session. There is no
lock over the *operation*, and the store's operations are sequences of reads and
renames. Builds and creators of sources share the directories of the project, also without
a lock; acquisitions share the raw root, processing runs the database.

Hence what is hard: two invocations interleaved in those sequences; invocations and
runtimes killed anywhere; a document write that fails after an earlier one took effect;
an exit status and a record that disagree; a failed `wait`; deadlines; readers that must
tell what a killed process left behind from what it published. `PROJECT.json`,
`hazards`, lists them at their lines.

## 2. Modules

| Module | Models |
| --- | --- |
| `SessionRecord` | record, transition table `Legal`, `ApplyTransition`, load-time invariants `ValidRecord` |
| `SessionStore` | EXTENDS `SessionRecord`: documents and leases; `transition` and `reconcile_stale_current_session` step by step, as routines any process may be in |
| `DataExecution` | EXTENDS `SessionStore`: overlapping foreground invocations of one operation, their runtimes, crashes, kills and faults |
| `BackgroundExecution` | EXTENDS `DataExecution`: background invocations, which hand their session over to an operator host, beside foreground ones |
| `SessionLedger` | what the sessions of an operation promise, whoever acts for them: the abstract specification that `BackgroundExecution` implements |
| `HttpExchange` | the pure part of the HTTP engine: policies, answers, protected headers, the request after a redirect, the verdict on an answer |
| `TransactionStore` | EXTENDS `HttpExchange`: the documents of an acquisition and what every reader demands of them, as operators |
| `HttpAcquisition` | EXTENDS `TransactionStore`: `execute`, the recorder, progress and checkpoints, with sessions that end, die and are reconciled around them |
| `ProcessingContract` | what a processing run promises about the database: the abstract specification |
| `ProcessingRun` | processing runs on one SQLite database; implements `ProcessingContract` |
| `RuntimePair` | the replacement of two bundles, rename by rename, with roll-back and clean-up |
| `SourceBuild` | EXTENDS `RuntimePair`: `lexicon build` of one source from lockfiles to publication, several at once, and launches beside them |
| `ManagedWorkspace` | the cargo workspaces of a source: what is written, what a build demands, which artifact it takes |
| `ProjectTree` | EXTENDS `ManagedWorkspace`: creators, builders and users of one project |
| `ChildSupervision` | one child under the information probe or under the wait loop |
| `RuntimeLaunch` | the identity of a runtime on its four ways to the handler |
| `Installer` | the bundle installer: runs one after the other, their failures and kills |
| `MC*` | values, symmetry and bounds for TLC; one `.cfg` per run |
| `*_proofs` | theorems, section 5 |

The modules meet at narrow places, and each says in its header what it leaves to the
other. `DataExecution` has the whole life of a session; `HttpAcquisition` and
`ProcessingRun` start where it says "the handler runs" and keep of the session only
what the engine checks (its state, its stamps, who may end it). `RuntimeLaunch` is what
`DataExecution` calls "the launch fails or the runtime binds". `SourceBuild` is what
`ProjectTree` calls "compile" and what `RuntimeLaunch` calls "rebuild".

Names `Mut...` and definitions whose comment begins with "A mutant" are the
slips of the code each property is tried against (`PROJECT.json`, `mutants`); no
specification uses them.

## 3. State and code

**Sessions.** A *process* is `<<"cli", s>>`, `<<"host", s>>` or `<<"runtime", s>>`: session ids are
fresh and an invocation creates at most one session, so one name `s` stands for the
invocation, the session it may create, its operator host and its runtime. A process has a
program counter `pc[p]` whose values name the next read, rename, lock or decision;
`cur`, `snap`, `job`, `back`, `want`, `fresh` are the local variables of
the Rust functions it is inside of. `record`, `summary` and `lease` are the disk.

* `transition` (store.rs 235) is `TransitionLoad` (load, revision check,
  `validate_transition`), `TransitionWrite` (rename of `session.json`),
  `TransitionSummary` (rename of `session_status.json`). Its caller says in
  `job` where to go on success and on error. A failed summary write is
  `PartialCommit`: an error although the record is written.
* `reconcile_stale_current_session` is `ReconcileLoad`, `ReconcileLock`, a
  transition, `ReconcileDrop`.
* `select_and_prepare_session` is `Start`, `Select`, `Classify`; `prepare_run`,
  `prepare_resume` and `abandon_current_failure` are `Assess`, `AssessLoad`,
  `Assessed` with `Admits` and `Decide`; `create_prepared_launch` is
  `CreateRecord`, `CreateSummary`, `AcquireLease`.
* `spawn_and_supervise` is `Spawn` or `FailLaunch`, then `ObserveExit` or
  `WaitFails`, `ReconcileExit` / `RecoverExit` / `BestEffort`, the summary repair
  `ValidateSummary`, `RebuildLoad`, `RebuildWrite`, `Revalidate`, and `Exit`.
* the runtime is `Bind`, `BindLease`, a transition, `HandlerInspects`*,
  `HandlerReturns` and a transition, or `RuntimeExits`. The processing runner has
  the same protocol towards the store; it does not catch panics, which is
  `RuntimeExits`.
* a background invocation takes the selection steps and then, at `launch`, those of
  the initiator (`WriteIntent` ... `RemoveIntent`, background.rs 133-343). The host
  (`HostStart` ... `HostLock`, background.rs 356-443) arrives at `launch` too and from
  there is a supervisor like any other. `intent` and `ack` are its two files;
  `fs::write` of the acknowledgement is two steps.
* `Crash` (an invocation, or a host) and `RuntimeKilled` may come at any step. The kernel drops
  the locks of the dead process; a runtime outlives its supervisor.

**The ledger.** `SessionLedger` forgets processes, leases and steps. Per session it has the
list of the states it went through, and whether its handler waits, works or is over; it has
what is told of the sessions, and which of them were reported as successful. The mapping
(`Ledger` in `BackgroundExecution`) reads the list from the record alone (`History`: one
state per revision), what is told from `session_status.json`, the handler from the
control state of the runtime, the reports from exit codes of supervisors. A rename of
`session.json` is `Move` or `Open`; a rename of the summary is `Tell`, or, for the
transition that starts the handler, `Begin`; an end with zero is `Confirm`; a runtime that
loses its supervisor's lease is `Disown`; everything else shows nothing. A summary may be
told late, out of order or again, but it was the state of its session once.

`orphaned` is a history variable: the sessions whose runtime was alive when their
supervisor's lease ended. For these the code gives no guarantee (section 4), and the
properties about records exclude them.

Abstractions: documents are records with the fields the protocol tests; times are
"set or not". A handler is any sequence of lease inspections and an end. Admission,
envelope and integrity failures are one action here (`FailLaunch`, `Bind`'s failing
branch). Left out: failing reads, a failing `open` of the lock file, and path or
encoding errors between acquiring the lease and launching. `write_atomic` renames
after writing a temporary file, and its directory sync is best effort, so a write
error means the old file is still there.

**Acquisition.** `engine[s]` is the control state of the runtime and the locals of
`execute_impl`. One attempt is `Stage` (a staging directory), `Exchange` (the request,
its answer and their recording), `Publish` (the no-replace rename), `ReadProgress`,
`RevalidateProgress`, `WriteProgress`, and `Decide`, whose `Verdict` (`HttpExchange`)
retries, follows a redirect or returns. A commit of a checkpoint is `BeginCommit`,
`RevalidateCommit`, `StoreCheckpoint`. Around them a session is opened, finished, loses
its runtime or its supervisor, and is reconciled. Readers are operators on the disk:
`Admitted`, `LatestTransaction`, `LookupFails`, `CheckpointAdmitted`, `HasCheckpoint`,
and `Discoverable`, which is all processing discovery asks of a transaction. Headers are
names, URLs have three parts; bodies and header values are left out; a file is what
the recorder wrote or it is not there. Every session has a clock of its own, and it does
not step back: a wall clock that is set back makes the code refuse its own stamps,
which is outside the model.

**Processing.** `run[s]` goes through `Discover`, `DerivePath`, `OpenDatabase`, the
handler's steps, `CheckBoundary`, `CommitDatabase`, `SyncDatabase`, `CheckSidecars`,
`RollbackDatabase`, `Complete` or `FailSession`. SQLite is external: one writer, a
journal from the first write on, rolled back by the next opener once its writer is
gone. A handler may end Core's transaction and write after it. The report of a run and
the write of its record are one step. A handler that ends Core's transaction and begins
another of its own passes `require_transaction_active`; the code does not claim to
notice, and the model leaves it out.

**Build and publication.** In `RuntimePair` a directory has an identity that survives a
rename; `dest`, `backup` and `stage` say which directory stands under which path. The
steps are those of `PreparedRuntimeBundleReplacement` in the order `publish_runtime_pair`
takes them, and every one may fail or be the last. `remove_dir_all` acts on whatever
directory then stands at the path. Syncs that end a roll-back or a clean-up are left
out: their results are ignored. `SourceBuild` puts the rest of `build_source` before
them (lockfile snapshots, cargo, hash, probe, hash, copy, manifest), and beside them
users who edit lockfiles or swap artifacts and may put the old contents back at any moment,
and launches that read the manifest, hash the executable, look again, and run it by its path.
What is compared is contents, as in the code; `undone` is a history of what was changed and
put back while a build relied on it. Functions that exist once per operation
are modelled once, with the operation as a parameter; the map names one of the copies.

**Project.** A creator is `CheckSource` or `CheckProject`, `MakeRoot`, `Stage`,
`FillStaging`, `FinalizeSource` or `FinalizeProject`; its temporary directory lies among
the sources. A builder is `List` and one `Visit` per entry, then `Validate` and `Compile`
for each target. These two are steps of their own, each atomic: users may edit
in between. A data command is `Resolve`. Users make one `Edit` or `CopySource`; a copy comes with
its `source.toml` corrected, since otherwise it is refused at once. A workspace is its
manifests, main and stray packages, with the fields `LayoutFits` and `MetadataFits`
compare; `Runners` is what cargo then makes and `Selected`, `Verified` choose. Cargo prints
the artifacts and, as it likes, other messages (`OtherMessages`), each of which makes the
selection fail; the reading of the metadata that follows the build is `PackageResolves`.

**Supervision of a child.** A behaviour of `ChildSupervision` is one supervision of one
child with a helper in its process group that shares its pipes. `boss` is the
supervising thread, `streams` are the pipes with their drainer threads, `cancel` is the
slot and its flag. The wait loop has tests but no production caller: foreground
supervision waits for its child directly, as in `DataExecution`. A failed kill or wait
of the loop is only noted, and a second cancellation in the grace period stays in
the slot, as in the code. Recorders are threads that may wait for the lock of the slot: that
is what `record` does, whatever its comment says (section 4).

**Launch.** The identity of a runtime is compiled into it, written into the envelope, into
the context document and into `session.json`. `launches[l]` is a command or the host
after it (`Resolve`, `Prepare`, `HostResolves`, `ReleaseForHost`, `HostResumes`, `Check`,
`Spawn`). The host learns source, operation, session and arguments from a command line of its
own (`HostArgv`, `HostArguments`), and resolves project and bundle anew before it
acknowledges, so before the initiator lets go of the lease;
`children[r]` a runtime (`Admit`, `DecodeContext`, `Bind`, `EnterRunning`). `Change` is
one rename, upgrade, rebuild or copy behind their backs, and `StartByHand` starts a
runtime with any arguments and environment that were handed out to any, with none, or to
probe it; one that turns its inputs away has come and gone. `Build` publishes what the probe of
a new runtime admits; the same executable, asked for information (`Probed`), starts no
handler. The runner template compiles in
no capability, hence `Offered = {}` in the run; the proofs allow any. Two things the code
does not do and the properties do not say: `RuntimeContextPaths` does not tie the
protocol root to the project and source of the document (`Bind` compares it with the
executable's own), and nothing keeps replayed arguments from reaching a record that is
still prepared a second time.

**Installer.** One run at a time. An installation is `Extract`, `Place`, `SetExecutable`,
`EnsurePath` (nothing to do, a link, or else the startup files one by one: `AppendExport`,
`Verify`, `Undo`), `WriteRecord`; an uninstallation is `RemoveCli`, `Reverse`, `Forget`,
`Tidy`. A startup file is whether it exists, is UTF-8, and which lines it holds: text of the
user, the export line as the installer would write it, the same as only a trimmed comparison
finds it, and what the installer appended. The two tests of the code, the line with its
newline when looking (`Read`, `AppendExport`) and trimmed equality when removing
(`Reverse`), are two operators here; what `verify_path_picked_up` answers is open, since it
asks a shell. `Init` is any surroundings the first run may meet, and `found` remembers them;
`Kill` may come at any step and `NewTerminal` between two runs. Left out: Windows and its
registry, staging directories a killed run leaves (nothing looks at them), blank lines of a
startup file, and users who edit links or startup files between two runs.

## 4. Properties and runs

Every passing run exhausts its state space (`faults` and `publication` within the constraints
named below). Deadlock is checked in `installer` only:
elsewhere invocations, runs, builds and creators end.

| Run | Instance and faults | Distinct states | Properties |
| --- | --- | --- | --- |
| `faults` | 2 overlapping invocations; one of them or of their runtimes killed anywhere (what a second kill leads to at once is checked, not followed), every write and every `wait` may fail | 1.1 M | `RecordsLoadable`, `SummaryNeverAhead`, `SuccessOutcomeSound`, `DurableTransitionsLegal`, `SuccessOnlyByHandler`, `StaleOnlyUnsupervised` |
| `liveness` | 2 invocations, one killed anywhere | 93 k | `InvocationsEnd`, `SupervisedSessionsTerminate`, `StaleIsReconciled` |
| `handoff` | a background invocation beside a foreground one; initiator and host killed, handlers that exit, both deadlines at any moment | 0.5 M | `FailedHandoffRunsNothing`, `OneSupervisor`, `KeepsLedger` |
| `handoff_liveness` | the handshake of one session; runtime killed, `wait` and `try_wait` fail | 1.2 k | `HandoffEnds`, `HandoffResolves` |
| `publication` | 2 builds, the first fails or is killed anywhere; 1 launch; 2 edits or swaps, the second possibly back | 2.2 M | `PreviousBundleKept`, `PublicationAllOrNothing`, `LeftoversHarmless`, `LaunchRunsVerifiedBytes` |
| `execution` | 1 runtime, 2 attempts per URL, 2 redirects, 4 URLs, every kind of answer | 0.2 M | `ExchangesBounded`, `SecretsStayHome`, `AttemptsChained` |
| `acquisition` | 2 sessions on one raw root, 3 transactions, 1 commit each; one with failing file operations, its runtime and supervisor killed anywhere | 1.4 M | `ProgressTruthful`, `LeftoversPassedOver`, `CheckpointVouched`, `SupervisedEvidenceAvailable` |
| `processing` | 2 runs, both killed anywhere, one with failing operations | 42 k | `LeftoversRolledBack`, `KeepsContract`, `ProcessingEnds` |
| `project` | 3 creators for the project and 2 names, one fails or is killed; 1 builder, any other messages of cargo; 1 edit or copy | 1.3 M | `PublishedOnceAndWhole`, `TargetsAreSources`, `CreatedIsBuildable`, `RunnersAreOwn` |
| `supervision` | 1 child, 1 helper, 2 streams, 2 signal handlers; reads, waits and kills fail | 34 k | `CaptureComplete`, `NoCancellationLost`, `SupervisionEnds` |
| `handshake` | 2 commands with hosts, 1 runtime at a time, 2 sessions, 1 change | 0.44 M | `HandlerAgrees`, `LaunchAccepted`, `LaunchServed` |
| `installer` | 2 directories of PATH, 3 startup files of 4 kinds each, runs without end; 1 failure or kill | 9.3 M | `InstalledIsWhole`, `FootprintMatchesRecord` |

Each property is stated in words before its definition. Every property of a passing run has
a mutant: one definition of the model changed as a slip in that code would change it,
with which TLC finds the property violated in the run's own instance.

**Why these bounds.** Interference through the store, the raw root, the database or a
destination is pairwise: one process between two steps of another. With two processes every
such interleaving occurs, a chain of three needs no new kind of step, and where a theorem
exists it covers every number. A third creator in `project` is there because one must make
the project before two can race for a name. Attempts and redirects are two each so that a
retry after a redirect and a redirect after a retry both occur; of four URLs two share an
origin, one is another host and one another scheme. Three transactions give one session a
published transaction, one that failed and one left in staging. One edit or change is enough
to come between any two steps, and a second one to take it back (`publication`); the proofs
allow any number. Session revisions need no bound. `FewKills` ends `faults` at the second
kill: after one, the other invocation is what can go wrong, and `handoff` kills two
processes of one session. What either leaves out, the theorems about all kills cover. The
constraint `Focus` of `MCSourceBuild` starts the second build and the launch only when the
first is about to publish; up to there it touches only what is its own, so that no behaviour
is lost. `handoff_liveness` has one session because the handshake is between the initiator
and the host of that session; interference by others is the subject of `handoff`. In
`installer` a second failure adds nothing: a run after a failed one starts from the disk
alone, and only `InstalledIsWhole` speaks of such runs; two directories and three startup
files are needed for a candidate that is passed over before one that is taken.

A remark the mutants taught: dropping the *revision* check alone breaks nothing as
long as the lease is respected. The lease does the work; the revision check is a second
line that does not cover the case it looks made for (an orphaned runtime, below).

**Fairness.** `FairSpec` of `DataExecution`: processes are scheduled. Weak fairness for the
steps of a CLI and for the steps of a runtime outside the handler, strong fairness for the
end of the handler, since it is enabled again and again between lease inspections: a handler
that makes infinitely many Core calls is excluded, an assumption on source code.
`FairBackgroundSpec` adds that deadlines pass: strong fairness for `DeadlinePasses` and
`HostGivesUp`, whose loops look at a clock that does not stop. `FairSpec` of
`ProcessingRun`: runtimes take their steps (the handler returns), and a session whose
runtime is gone is reconciled, by its supervisor or by the next invocation. `Fairness` of
`ChildSupervision`: threads run, a signal handler that holds the lock lets go of it, and
time passes. Neither the child nor what it has started need end by itself: `SupervisionEnds`
names the one behaviour that then has no end. Crashes, kills and faults are never forced.
`liveness` excludes write and wait faults: a supervisor that cannot write, or cannot tell
whether its child lives, leaves its session to the next invocation.

### Findings

Met while modelling. The models contain the behaviour and the properties are stated around
it. `specs.md` is `src/workspace/specs/specs.md`, `core`, `framework` and `bundle` are the
`src` directories of the crates.

* Between the initiator's release of the lease and the host's acquisition another
  invocation can fail the session as stale (`framework/data/background.rs:335`); the host then
  finds it failed, or, if it had loaded the record before, launches a runtime that refuses to
  bind. No record is lost. `specs.md:939` says the hand-over must avoid such a gap.
* A startup file that cannot be read as UTF-8 counts as empty (`bundle/envpath.rs:91`); the
  append overwrites it, and the undo that the comment at line 133 speaks of leaves it empty.
  `FootprintMatchesRecord` names the loss (`Rewritten`).
* The export line is looked for with its newline (`bundle/envpath.rs:92`) and removed by trimmed
  equality (line 216). A user's own export line at the end of a file without a newline, or with a
  blank or a carriage return after it, is not found, so that another is appended, and the
  uninstallation removes both. `FootprintMatchesRecord` names the loss (`Restored`).
* The same test takes a line behind a `#` for an export line, and then nothing is
  appended; and undoing the append to a missing startup file leaves an empty one
  (`bundle/envpath.rs:92`, `134`).
* After an installation that failed half-way `--install` says "Installed. Nothing to do."
  (`bundle/cli.rs:87`); line 82 calls it a no-op if lexicon is already installed.
* A run of the installer that ends between the change of PATH and the record leaves a link or
  a line that no record names, and the next installation does not claim it; nothing
  removes it (`bundle/install.rs:119`).
* Two invocations can both find no current session and both run a handler; the check
  in `framework/session/coordinator.rs:150` is not atomic with the creation
  (`specs.md:401`).
* After its supervisor's death a running runtime and a stale reconciliation can overwrite
  each other: check and rename in `core/session/store.rs` are not atomic (`orphaned`).
* A new session is visible before its lease is held and can be reconciled as stale while
  its owner is alive (`store.rs:333`, `specs.md:815`). The owner launches anyway, and
  its runtime refuses to bind.
* The supervisor of a finished session can rewrite the root summary over a newer live
  session, which then is invisible to selection (`framework/data/session.rs:441`,
  `specs.md:896`).
* The acknowledgement of a hand-over confirms that the host has started, not that it owns
  the session; a hand-over may be reported that nobody carries out. `HandoffResolves`
  exempts only a host that waited for the lease until its deadline.
* An initiator that gives up ignores errors of `kill` and `wait` (`background.rs:245-265`).
  `KillHost` is one step that succeeds: the signal is SIGKILL to a child not yet reaped, which
  the system does not refuse, and the standard library repeats an interrupted `wait`.
* A bundle replacement whose parent sync fails after the rename is not rolled back with its
  pair (`framework/publication/runtime_bundle_replacement.rs:550`, `specs.md:652`);
  `damage` names these builds,
  and those whose undoing failed.
* A runtime that outlives its supervisor can publish a transaction after its session was
  reconciled; discovery then refuses the whole raw root for every later processing run
  (`core/protocols/http/transaction/recorder.rs:396`, `core/processing/transactions.rs:636`,
  `specs.md:851`). `SupervisedEvidenceAvailable` excludes those sessions.
* `source create` accepts "HTTP" and writes it to `source.toml`
  (`framework/lib.rs:1951`); every build compares with "http" and refuses the source, and
  with it `build --all` (`lib.rs:1335`). `CreatedIsBuildable` names the exception.
* The probe joins its drainers without a deadline (`framework/build/runtime_probe.rs:640`): a
  runtime that ends in time and leaves behind a process that keeps a pipe blocks the
  build for as long as that process lives, although `specs.md:748` bounds the probe.
  `SupervisionEnds` exempts exactly this.
* `record` of a cancellation "never allocates or blocks" (`framework/process/cancellation.rs:29`)
  and takes a mutex, as `poll` does: a handler that interrupts a `poll` on its own thread would
  wait for itself. The model has recorders on threads of their own.
* The lockfiles are compared by content (`framework/lib.rs:1549`) and the executable is hashed
  before and after its probe (`framework/build/runtime_verification.rs:341`). A lockfile edited for
  cargo and restored, or an executable swapped for the probe and restored, is not seen:
  what is published was resolved with, or probed as, something else.
  `PublicationAllOrNothing` and `LaunchRunsVerifiedBytes` exempt these by `undone`, and nothing else.
* Every line cargo prints must be a whole artifact record, also those whose reason is then
  passed over (`framework/lib.rs:1795-1802`). With `--message-format=json-render-diagnostics`
  (line 3184) cargo ends with a `build-finished` record, which has no `package_id`: as far as
  the source shows, every build that cargo ends with it fails as `MalformedJsonLine`.
  In the model builds succeed where cargo prints no other message.
* A graceful end of the wait loop speaks of the direct child only, although the module's
  first lines speak of the process tree (`framework/process/mod.rs:10`);
  `OutcomeMatchesTree` asks more of a forced end alone.

Two further situations of the code have no property: processing discovers the
catalogue before it begins its transaction, so that transactions published meanwhile are
not in it; and a session whose summary could not be written at its creation stays in the
store without anybody referring to it.

## 5. Proofs

Every proved theorem holds for arbitrary sets of sessions, invocations, runtimes, sources
and so on, and for any choice of who may fail and be killed; the assumptions are the named
`ASSUME`s of the modules, which say that the constants fit together (a "none" value is not
an element, a fault set is a subset).

`SessionSafety_proofs`. `TypeOK` is not inductive: whether a transition writes
something well-typed depends on what the process is writing. `IInv` adds per
process (`ProcessOK`) that a process inside an operation knows its session, that a
pending job is one some operation starts and returns to a step that can take it, that a
record about to be written is valid and in the job's target state, and that `back` is
set where it is needed. From `IInv`:
`TypeCorrectness`, `EveryRecordLoads`, `SuccessByHandler`.

`LInv` says who holds which lease at which step (`HoldOK`,
`ReconcilerOK`), how a supervisor, its runtime and its lease go together (`BossOK`), of
which of four kinds each transition is (reconciling, abandoning, supervising, running),
and what a pending write was computed from (`WriteOK`). The key lemma is `OneWriter`: of
two processes inside a transition of one session that is not orphaned, one is abandoning a
failure. So a rename replaces exactly the record it was computed from, or repeats an
abandonment already written. From `LInv`: `RevisionStaysCurrent`, `DurablyLegal`,
`SummaryBehindRecord`, `SuccessIsReal`, `StaleIsUnsupervised`, and `LiveNeverAbandoned`
(`OnlyFailuresAbandoned`, which no run checks by itself: `KeepsLedger` says it too). All
six properties of the run `faults` are thus proved.

`LInv` speaks of `Boss(s)`, the process responsible for session `s`: the invocation, or its
operator host from the moment that has started. The same invariant therefore holds of
`BackgroundSpec`, and each lemma about a step that foreground invocations, hosts and
runtimes share is proved once. What a hand-over adds is `HandoffOK`: while the initiator is
under way with a host it holds the lease or has released it after the acknowledgement;
once it fails the launch its host has ended; and a host is past the lease, or has a
runtime, only if its initiator left the session to it. The last part is what the lease
gives: a host that finds it free meets an initiator that holds it no more, and of those that
do not, the ones that failed had seen their host end first. `HostsFirst` (no runtime before
its host) completes the argument. From them `NothingLeftRunning` and
`NeverTwoSupervisors`, invariants of the run `handoff`, and beyond them
`SupervisorSuccessIsReal` (`SupervisorOutcomeSound`, for hosts too) and `HandoverKeepsDocuments`.

`SessionsKeepLedger` is the refinement: `BackgroundSpec => KeepsLedger`. The lease
discipline says who may write; the ledger also needs to know *what* the documents and the
pending writes mean, which is `HistoryInv`. `Shape`: a record that is not orphaned has the
revision and the start time that its transitions give it, so that its history can be read from
it; an unstarted record goes 0, 1, 2, a started one reaches 3. `EntryOK`: a summary about to
be written, be it a transition's, the creator's or a repair's, tells a state its session was
in, which holds on because histories only grow. `WorkOK`: from the rename that makes the
record running to the end of the handler the record stays running and, until the summary
is written, is the one the runtime holds; `HandlerJobOK`: that transition, and no other,
leads to the handler. The steps are sorted first (`StoreSteps`, `SelectionSteps`,
`SuperviseSteps`, ...): nearly all write no document (`Quiet`) and are shown once to
keep `HistoryInv` and to be a `Finish` or nothing; the rest is a `Renames`, `Tells`,
`Creates`, `Announces`, `Rebuilds`, an end, or one of the four steps that move two processes.
`RenameFollows` is the heart: the rename of a session that is not orphaned moves it as
`Follows` allows, its handler not at work if the writer is another, or repeats what is
there. `WhoOrphans` shows that a session is disowned only by its supervisor and before
that has reported anything. Two consequences are theorems of their own, with definitions no run
checks by itself: `SummaryTellsHistory` (`SummaryWasTrue`; derived from the steps of the ledger
alone) and `HandlersOwnTheirSession` (`HandlerOnlyWhileRunning`).

`ProcessingRun_proofs`. `IInv` is the type invariant and, per run, that the transaction is
open exactly in the steps that need it, that a run which can still promise "nothing of me is
in the database" (`Untouched`) is right, that the steps after the commit find the output
there and, after the sync, durable, and that a pending failure is one that promise allows.
`Owned` adds whose the journal is. From them `LeftoversAreRolledBack` (`JournalIsOwn`, the
safety part of `LeftoversRolledBack`: a run that works has the journal of the dead behind
it), `SuccessIsDurable`, and `RunsKeepContract`: every step of `ProcessingRun` is, under
`KeepsContract`'s mapping, an `Apply`, a `Report` or a stutter of `ProcessingContract`.

`RuntimeLaunch_proofs`. `LaunchInv` says what a launch knows at each step (the directory and
bundle it resolved belong together, its session's record is its own), `ChildInv` what a
runtime has checked so far. Both rest on `Kept`: whatever changes, a record stays with its
identity and every bundle in a directory is a possible build of a source. From it
`HandlersAgree`, and with the count of changes since a command began `LaunchesAccepted`.
`LaunchesServed` needs `ServedInv` as well (a runtime started for a command has that
command's directory, session and arguments in its argument vector) and the lemma
`EncodingIsFaithful`: what `Encoded` writes into the argument vector `Parses` and gives
back, also if an argument equals the delimiter, and the same of the host's own command line.

`HttpAcquisition_proofs`. Per session, `IInv` says how view, lease and clock go together
(`Life`), that every attempt is a child of a finished one of its session and key
(`Attempts`), that the request at hand descends from the caller's (`Policies`) and what has
been sent so far is within them (`Sent`), where the transaction in hand stands (`Current`),
what the progress document counts (`Counts`), and what registry, checkpoints and answers
stand for (`Registered`, `Commits`, `Committed`, `Answer`). All seven properties of
`execution` and `acquisition` follow. The newest transaction of a key is a greatest element
of a finite set; its existence is proved from the least-element principle of the naturals,
without induction over data. The theorems assume what types would: the requests of the
sources are `HttpRequests`, the answers `HttpAnswers`.

`ProjectTree_proofs`. `Whole` (what lies at a destination is complete and names it),
`Creation` (what a creator has under its temporary name, and left at its destination) and
`Building` (targets are sources; what was found to fit still fits unless it was
edited). The four properties of `project` follow, for any number of creators, builders and edits.

`SourceBuild_proofs`. `IInv` is one conjunct per build (`BuildInv`) and per launch
(`Launched`). A build's part says what its hashes and probes were about (`Artifact`),
what it has staged (`Staging`), that nobody else touches its own paths (`Sole`), in
which order it undoes (`Undoing`), and, as long as it is the only one publishing
(`Alone`), where the previous and the new bundle of each runtime are at every step
(`Publication`, by `Position`: untouched, moved away, installed, removed again, settled).
The four properties of `publication` follow, for any number of builds, launches and
edits; what an edit that was taken back may have done is accounted for in `undone`.

`ChildSupervision_proofs`. `StreamInv` is the conservation of output (kept and unread is
what was written, unless it was cut or could not be read), `Answered` that a capture came after
the end of every stream, `Pending` that a cancellation in the slot is the last one and
will be looked for. The safety properties of `supervision` follow, and `OutcomeMatchesTree`,
which no run checks.

`Installer_proofs`. `Whole` holds whatever fails: an installation runs without a
record, and from the decision about PATH on its executable is complete. What was changed
is harder to say, because at most steps neither the record nor the run names it:
`Changed` gives it for every step, and `Footprint` says that links and startup files differ
from what the first run `found` there in exactly that and in the losses the property names
(`Kept`, also for the copy held for an undo, `SavedOK`). Both need what a faultless history
relies on (`Steady`). From them `WholeInstallation` and `ExactFootprint`, the properties of
`installer`, for any PATH, any startup files and any number of failures and kills.

What the attempts found. `PublicationAllOrNothing` was false with three builds: an empty
directory that another build had just made counts as "as it was", and a removal that fails
where nothing stood before leaves the new bundle; the property now says both (`AsBefore`,
`damage`). Invariants that TLC confirms and that still are not inductive: that the
processing side is still staged while the acquisition side is synced, that there is no
backup before the publication, that an absent destination was absent when it was inspected.
Assumptions that had to be named: the "none" values of transactions, directories, outcomes
and cancellations are none of their kinds; a probe has at least one stream.

Only model-checked: every liveness property and the liveness half of `LeftoversRolledBack`,
since fairness and ENABLED are outside the prover's reach. Every other property of a run is a theorem. Type invariants are stated
where a proof uses them.

## 6. Not modelled

* Managed names, URL parsing and redaction: validation of text character by character.
* The durable file primitives: sequences of write, sync and rename without decisions;
  their outcomes are the fault branches of every module.
* `cargo_executor`, `cargo_adapter`, `core_dependency`: they assemble command lines
  for an external program; what comes back is in `SourceBuild` and `ManagedWorkspace`.
* The command line: parsing and printing. Its dispatch is the choice of a command.
* Of the bundle installer: the format of the archive, its embedding at build time, the menu.
* The conformance matrix automation: test automation outside the product.
* Windows: job objects, handle inheritance, its file replacement, the registry.
* Reads that fail in the session store; documents that are not well formed.

## 7. Plan

Done: sessions and hand-over with the ledger they implement, publication and build, HTTP
execution and evidence, processing with its contract, project, supervision, launch,
installer; every invariant, action property and refinement of the runs as a theorem. What
would come next:

1. An abstract raw root (transactions appear whole, in the order of their chain, and
   checkpoints vouch for one of them), which `HttpAcquisition` implements.
2. An abstract pair of bundles that changes in one step, which `SourceBuild` implements as
   long as nothing fails and builds do not overlap.
