------------------------ MODULE RuntimeLaunch_proofs ------------------------
(***************************************************************************)
(* Proofs about RuntimeLaunch, for any number of sources, sessions,        *)
(* launches, runtimes and changes behind their backs: a handler only runs  *)
(* where executable, arguments, environment and record agree, it serves    *)
(* what its command was asked for, and the checks on the way turn nothing  *)
(* away that has not been changed or replayed.                             *)
(***************************************************************************)
EXTENDS RuntimeLaunch, TLAPS

LaunchPCs ==
  {"idle", "prepare", "host", "resume", "check", "spawn", "wait", "gone"}
Resolved  == LaunchPCs \ {"idle", "gone"}
Prepared  == Resolved \ {"prepare"}
Supervisions == {"foreground", "background"}

\* What a command was asked for, and when.
Askings ==
  [directory : Directories, session : Sessions \cup {None},
   arguments : Arguments, supervision : Supervisions, began : Nat]

LaunchRecords ==
  [pc : LaunchPCs, supervision : Supervisions,
   directory : Directories \cup {None}, project : Names \cup {None},
   bundle : Executables \cup {None}, session : Sessions \cup {None},
   arguments : Arguments \cup {<<>>}, lexicon : Versions \cup {None},
   asked : Askings \cup {None}]

\* Context documents are written for the directory of the runtime they name.
OwnContexts == {c \in Contexts : c.paths.root = Directory(c.runtime)}

ChildRecords ==
  [pc : {"admit", "bind", "enter", "handler"},
   launch : Launches \cup {None}, executable : Executables,
   argv : sent.argv \cup {<<>>, <<"probe">>}, env : OwnContexts \cup {None},
   seen : Records \cup {None}, asked : Askings \cup {None}]

Types ==
  /\ name \in Names
  /\ core \in Versions
  /\ changes \in Nat
  /\ bundles \in [Directories -> Executables \cup {None}]
  /\ records \in [Directories -> [Sessions -> Records \cup {None}]]
  /\ launches \in [Launches -> LaunchRecords]
  /\ children \in [Runtimes -> ChildRecords \cup {None}]
  /\ sent.env \subseteq OwnContexts

\* A launch does what it was asked for.
Faithful(at) ==
  /\ at.asked \in Askings
  /\ at.asked.directory = at.directory
  /\ at.asked.arguments = at.arguments
  /\ at.asked.supervision = at.supervision
  /\ at.asked.began <= changes

\* Nothing has changed since.
Fresh(asked) == asked.began = changes

\* What a launch has resolved is about one directory, where there is still a
\* bundle, and the record it prepared is still there; as long as nothing has
\* changed, what it resolved and recorded is how things are.
LaunchInv(l) ==
  LET at  == launches[l]
      rec == records[at.directory][at.session]
  IN
  /\ at.pc \in Resolved =>
       /\ at.directory \in Directories
       /\ at.project \in Names
       /\ at.bundle \in Executables
       /\ at.bundle.required \subseteq Offered
       /\ Directory(at.bundle.runtime) = at.directory
       /\ bundles[at.directory] # None
       /\ Faithful(at)
       /\ Fresh(at.asked) =>
            at.project = name /\ at.bundle = bundles[at.directory]
  /\ at.pc \in Prepared =>
       /\ at.session \in Sessions
       /\ at.asked.session = at.session
       /\ rec # None
       /\ rec.supervision = at.supervision
       /\ Fresh(at.asked) =>
            /\ rec.project = at.project
            /\ rec.runtime = at.bundle.runtime
            /\ rec.mode = "resume" => at.bundle.resume
  /\ at.pc = "host" => at.lexicon \in Versions

\* The record is there and is the one envelope e describes.
Identified(rec, e) ==
  /\ rec # None
  /\ rec.project = e.project /\ rec.runtime = e.runtime
  /\ rec.mode = e.mode /\ rec.supervision = e.supervision

\* A runtime that a launch started was given what the launch was asked for, and
\* has what its own checks want as long as nothing has changed.
Served(c) ==
  /\ c.asked \in Askings
  /\ c.asked.began <= changes
  /\ c.asked.session \in Sessions
  /\ c.env # None
  /\ c.env.paths.root = c.asked.directory
  /\ c.argv[2].session = c.asked.session
  /\ c.argv[2].supervision = c.asked.supervision
  /\ SourceArguments(c.argv) = c.asked.arguments
  /\ Fresh(c.asked) =>
       AcceptsInputs(c) /\ Identified(RecordOf(Target(c)), c.argv[2])

\* Every check a runtime has made still holds of its inputs, and of the record.
ChildOK(c) ==
  /\ c.pc # "admit" => AcceptsInputs(c)
  /\ c.pc = "enter" => Identified(c.seen, c.argv[2])
  /\ c.pc = "handler" => Identified(RecordOf(Target(c)), c.argv[2])
  /\ c.launch # None => Served(c)
ChildInv(r) == children[r] # None => ChildOK(children[r])

IInv ==
  /\ Types
  /\ \A l \in Launches : LaunchInv(l)
  /\ \A r \in Runtimes : ChildInv(r)

LEMMA InitInv == Init => IInv
  BY LaunchAssumption
  DEF Init, IInv, Types, LaunchInv, ChildInv, NoRecords, Idle, LaunchRecords,
      LaunchPCs, Resolved, Prepared, Supervisions

-----------------------------------------------------------------------------
(* The helpers                                                             *)

\* An admitted bundle was built for its directory (admit_bundle).
LEMMA AdmittedBundle ==
  ASSUME NEW x \in Executables \cup {None}, NEW d \in Directories,
         NEW v \in Versions, Admits(x, d, v)
  PROVE  /\ x \in Executables /\ Directory(x.runtime) = d
         /\ x.required \subseteq Offered
<1>1. x \in Executables /\ x.runtime = IdentityAt(d, v)
  BY DEF Admits, ManifestAdmits, ProcessingManifestAdmits, Manifest,
         ProcessingManifest, Compatible, ProcessingCompatible, Information,
         ProcessingInformation
<1>2. x.required \subseteq Offered
  <2>1. CASE d.operation = "acquisition"
    BY <2>1 DEF Admits, ManifestAdmits, Manifest, Compatible, Information
  <2>2. CASE d.operation # "acquisition"
    <3>1. x.runtime.operation # "acquisition"
      BY <1>1, <2>2 DEF IdentityAt
    <3>2. QED
      BY <1>1, <3>1 DEF Executables, Runner, AcquisitionRunner, ProcessingRunner
  <2>3. QED
    BY <2>1, <2>2
<1>3. QED
  BY <1>1, <1>2 DEF Directory, Directories, IdentityAt

\* Executables are records with an identity, requirements and a handler flag,
\* and no processing runtime has a handler to resume with.
LEMMA ExecutableFields ==
  ASSUME NEW x \in Executables
  PROVE  /\ x.runtime \in Identities
         /\ x.resume => x.runtime.operation # "processing"
  BY DEF Executables, Runner, AcquisitionRunner, ProcessingRunner

LEMMA RunnerIsExecutable ==
  ASSUME NEW d \in Directories, NEW v \in Versions,
         NEW required \in SUBSET Capabilities, NEW resume \in BOOLEAN
  PROVE  Runner(IdentityAt(d, v), required, resume) \in Executables
<1>1. IdentityAt(d, v) \in Identities
  BY DEF IdentityAt, Identities, Directories
<1>2. QED
  BY <1>1 DEF Executables

\* What a step may do to the durable records: they stay, with their identity.
Kept ==
  /\ records' \in [Directories -> [Sessions -> Records \cup {None}]]
  /\ \A d \in Directories, s \in Sessions : records[d][s] # None =>
       /\ records'[d][s] # None
       /\ records'[d][s].project = records[d][s].project
       /\ records'[d][s].runtime = records[d][s].runtime
       /\ records'[d][s].mode = records[d][s].mode
       /\ records'[d][s].supervision = records[d][s].supervision
  /\ bundles' \in [Directories -> Executables \cup {None}]
  /\ \A d \in Directories : bundles[d] # None => bundles'[d] # None

LEMMA UnchangedKept ==
  ASSUME Types, UNCHANGED <<records, bundles>>
  PROVE  Kept
  BY DEF Types, Kept

\* A record moves to another state.
LEMMA MovedKept ==
  ASSUME Types, UNCHANGED bundles, NEW d \in Directories, NEW s \in Sessions,
         records[d][s] # None, NEW state \in {"prepared", "running", "ended"},
         SetRecord(d, s, [records[d][s] EXCEPT !.state = state])
  PROVE  Kept
<1> DEFINE old == records[d][s]
           new == [old EXCEPT !.state = state]
<1>1. old \in Records
  BY DEF Types
<1>2. /\ new \in Records
      /\ new.project = old.project /\ new.runtime = old.runtime
      /\ new.mode = old.mode /\ new.supervision = old.supervision
  BY <1>1 DEF Records
<1>3. new # None
  BY <1>2, LaunchAssumption
<1>4. /\ records' \in [Directories -> [Sessions -> Records \cup {None}]]
      /\ records'[d][s] = new
      /\ \A e \in Directories, t \in Sessions :
           e # d \/ t # s => records'[e][t] = records[e][t]
  BY <1>2 DEF Types, SetRecord
<1>5. QED
  <2> HIDE DEF new
  <2> QED BY <1>2, <1>3, <1>4 DEF Types, Kept

-----------------------------------------------------------------------------
(* Records and bundles stay                                                *)

LEMMA EnvironmentKept ==
  ASSUME IInv, Environment
  PROVE  Kept
<1>1. ASSUME NEW n \in Names, Rename(n) PROVE Kept
  BY <1>1, UnchangedKept DEF IInv, Rename
<1>2. CASE Upgrade
  BY <1>2, UnchangedKept DEF IInv, Upgrade
<1>3. ASSUME NEW d \in Directories, NEW required \in SUBSET Capabilities,
             NEW resume \in BOOLEAN, Build(d, required, resume)
      PROVE  Kept
  <2>1. Runner(IdentityAt(d, core), required, resume) \in Executables
    BY RunnerIsExecutable DEF IInv, Types
  <2>2. Runner(IdentityAt(d, core), required, resume) # None
    <3>1. IdentityAt(d, core) \in Identities
      BY DEF IInv, Types, IdentityAt, Identities, Directories
    <3> DEFINE shapes == [runtime : Identities, required : SUBSET Capabilities,
                          resume : BOOLEAN]
    <3>2. /\ AcquisitionRunner(IdentityAt(d, core), required, resume) \in shapes
          /\ ProcessingRunner(IdentityAt(d, core)) \in shapes
      BY <3>1 DEF AcquisitionRunner, ProcessingRunner
    <3>3. None \notin shapes
      BY LaunchAssumption
    <3> HIDE DEF shapes
    <3>4. QED
      BY <3>2, <3>3 DEF Runner
  <2>3. /\ bundles' = [bundles EXCEPT ![d] = Runner(IdentityAt(d, core), required, resume)]
        /\ records' = records
    BY <1>3 DEF Build
  <2>4. QED
    BY <2>1, <2>2, <2>3 DEF IInv, Types, Kept
<1>4. ASSUME NEW from \in Sources, NEW to \in Sources, Copy(from, to)
      PROVE  Kept
  <2> DEFINE original(d) ==
        IF d.source = to THEN [d EXCEPT !.source = from] ELSE d
  <2>1. \A d \in Directories : original(d) \in Directories
    BY DEF Directories
  <2>2. /\ bundles' = [d \in Directories |-> bundles[original(d)]]
        /\ records' = [d \in Directories |-> records[original(d)]]
        /\ \A d \in Directories : d.source = to =>
             bundles[d] = None /\ \A s \in Sessions : records[d][s] = None
    BY <1>4 DEF Copy
  <2>3. \A d \in Directories : d.source # to => original(d) = d
    OBVIOUS
  <2>4. QED
    <3> HIDE DEF original
    <3>1. /\ bundles' \in [Directories -> Executables \cup {None}]
          /\ records' \in [Directories -> [Sessions -> Records \cup {None}]]
      BY <2>1, <2>2 DEF IInv, Types
    <3>2. \A d \in Directories : d.source # to =>
            bundles'[d] = bundles[d] /\ records'[d] = records[d]
      BY <2>2, <2>3
    <3>3. QED
      BY <2>2, <3>1, <3>2 DEF Kept
<1>5. QED
  BY <1>1, <1>2, <1>3, <1>4 DEF Environment

LEMMA LaunchKept ==
  ASSUME IInv, NEW l \in Launches, LaunchStep(l)
  PROVE  Kept
<1> DEFINE at == launches[l]
<1>1. ASSUME NEW d, NEW supervision, NEW arguments,
             Resolve(l, d, supervision, arguments)
      PROVE  Kept
  BY <1>1, UnchangedKept DEF IInv, Resolve, Outside
<1>2. ASSUME NEW s \in Sessions, NEW mode \in Modes, Prepare(l, s, mode)
      PROVE  Kept
  <2> DEFINE d   == at.directory
             new == [project |-> at.project, runtime |-> at.bundle.runtime,
                     mode |-> mode, supervision |-> at.supervision,
                     state |-> "prepared"]
  <2>1. /\ d \in Directories /\ at.project \in Names
        /\ at.bundle \in Executables /\ at.supervision \in Supervisions
    BY <1>2 DEF IInv, Types, LaunchInv, Prepare, At, Resolved, LaunchPCs,
                LaunchRecords
  <2>2. new \in Records
    BY <2>1, ExecutableFields DEF Records, Modes, Supervisions
  <2>3. new # None
    BY <2>2, LaunchAssumption
  <2>4. /\ records' = [records EXCEPT ![d][s] = new]
        /\ bundles' = bundles
        /\ \A e \in Directories : records[e][s] = None
    BY <1>2 DEF Prepare, SetRecord, Outside
  <2>5. QED
    <3> HIDE DEF new, d
    <3> QED BY <2>1, <2>2, <2>3, <2>4 DEF IInv, Types, Kept
<1>3. CASE ReleaseForHost(l)
  BY <1>3, UnchangedKept DEF IInv, ReleaseForHost, Outside
<1>5. CASE HostResumes(l)
  BY <1>5, UnchangedKept DEF IInv, HostResumes, Outside
<1>6. at.pc \in {"host", "check", "wait"} =>
        /\ at.directory \in Directories /\ at.session \in Sessions
        /\ records[at.directory][at.session] # None
  BY DEF IInv, LaunchInv, Resolved, Prepared, LaunchPCs
<1>4. CASE HostResolves(l)
  <2>1. bundles' = bundles /\ at.pc = "host"
    BY <1>4 DEF HostResolves, Outside, At
  <2>2. CASE records' = records
    BY <2>1, <2>2, UnchangedKept DEF IInv
  <2>3. CASE SetRecord(at.directory, at.session, [Own(l) EXCEPT !.state = "ended"])
    BY <1>6, <2>1, <2>3, MovedKept DEF IInv, Own
  <2>4. QED
    BY <1>4, <2>2, <2>3 DEF HostResolves
<1>7. CASE Check(l)
  <2>1. bundles' = bundles /\ at.pc = "check"
    BY <1>7 DEF Check, Outside, At
  <2>2. CASE records' = records
    BY <2>1, <2>2, UnchangedKept DEF IInv
  <2>3. CASE SetRecord(at.directory, at.session, [Own(l) EXCEPT !.state = "ended"])
    BY <1>6, <2>1, <2>3, MovedKept DEF IInv, Own
  <2>4. QED
    BY <1>7, <2>2, <2>3 DEF Check
<1>8. ASSUME NEW r, Spawn(l, r) PROVE Kept
  BY <1>8, UnchangedKept DEF IInv, Spawn, Outside
<1>9. CASE Reconcile(l)
  <2>1. bundles' = bundles /\ at.pc = "wait"
    BY <1>9 DEF Reconcile, Outside, At
  <2>2. SetRecord(at.directory, at.session, [Own(l) EXCEPT !.state = "ended"])
    BY <1>9 DEF Reconcile
  <2>3. QED
    BY <1>6, <2>1, <2>2, MovedKept DEF IInv, Own
<1>10. CASE Die(l)
  BY <1>10, UnchangedKept DEF IInv, Die, Outside
<1>11. QED
  BY <1>1, <1>2, <1>3, <1>4, <1>5, <1>7, <1>8, <1>9, <1>10 DEF LaunchStep

LEMMA StaleKept ==
  ASSUME IInv, NEW d \in Directories, NEW s \in Sessions, ReconcileStale(d, s)
  PROVE  Kept
  BY MovedKept DEF IInv, ReconcileStale, Outside

\* Where a runtime past the admission works.
LEMMA TargetTypes ==
  ASSUME IInv, NEW r \in Runtimes, children[r] # None,
         children[r].pc \in {"bind", "enter", "handler"}
  PROVE  /\ Target(children[r]).directory \in Directories
         /\ Target(children[r]).session \in Sessions
         /\ children[r].env \in OwnContexts
         /\ Target(children[r]).directory = Directory(children[r].env.runtime)
<1> DEFINE c == children[r]
<1>1. c \in ChildRecords /\ ContextAgrees(c.env, c.argv[2])
  BY DEF IInv, Types, ChildInv, ChildOK, AcceptsInputs
<1>2. c.env \in OwnContexts /\ c.env.session = c.argv[2].session
  BY <1>1 DEF ChildRecords, ContextAgrees
<1>3. QED
  BY <1>2 DEF Target, OwnContexts, Contexts, Directories

LEMMA RuntimeKept ==
  ASSUME IInv, NEW r \in Runtimes, RuntimeStep(r)
  PROVE  Kept
<1> DEFINE t == Target(children[r])
<1>1. CASE UNCHANGED <<records, bundles>>
  BY <1>1, UnchangedKept DEF IInv
<1>2. CASE EnterRunning(r)
  <2>1. Child(r, "enter") /\ bundles' = bundles
    BY <1>2 DEF EnterRunning, Outside
  <2>2. CASE RecordOf(t) = children[r].seen
    <3>1. SetRecord(t.directory, t.session, [RecordOf(t) EXCEPT !.state = "running"])
      BY <1>2, <2>2 DEF EnterRunning
    <3>2. t.directory \in Directories /\ t.session \in Sessions /\ RecordOf(t) # None
      BY <2>1, <2>2, TargetTypes DEF Child, IInv, ChildInv, ChildOK, Identified
    <3>3. QED
      <4> HIDE DEF t
      <4> QED BY <2>1, <3>1, <3>2, MovedKept DEF IInv, RecordOf
  <2>3. CASE RecordOf(t) # children[r].seen
    BY <1>2, <2>1, <2>3, UnchangedKept DEF EnterRunning, IInv
  <2>4. QED
    BY <2>2, <2>3
<1>3. CASE HandlerReturns(r)
  <2>1. Child(r, "handler") /\ bundles' = bundles
    BY <1>3 DEF HandlerReturns, Outside
  <2>2. SetRecord(t.directory, t.session, [RecordOf(t) EXCEPT !.state = "ended"])
    BY <1>3 DEF HandlerReturns
  <2>3. t.directory \in Directories /\ t.session \in Sessions /\ RecordOf(t) # None
    BY <2>1, TargetTypes DEF Child, IInv, ChildInv, ChildOK, Identified
  <2>4. QED
    <3> HIDE DEF t
    <3> QED BY <2>1, <2>2, <2>3, MovedKept DEF IInv, RecordOf
<1>4. QED
  BY <1>1, <1>2, <1>3
  DEF RuntimeStep, StartByHand, Admit, Bind, Killed, RuntimeOnly, Outside

LEMMA NextKept == ASSUME IInv, [Next]_vars PROVE Kept
<1>1. CASE UNCHANGED vars
  BY <1>1, UnchangedKept DEF IInv, vars
<1>2. QED
  BY <1>1, EnvironmentKept, LaunchKept, StaleKept, RuntimeKept DEF Next

\* What a step may do behind the launches' backs, it counts.
Aged ==
  /\ changes' \in Nat /\ changes <= changes'
  /\ changes' = changes => UNCHANGED <<name, bundles>>

LEMMA NextAged == ASSUME IInv, [Next]_vars PROVE Aged
<1>0. changes \in Nat
  BY DEF IInv, Types
<1>1. CASE UNCHANGED <<name, bundles, changes>>
  BY <1>0, <1>1 DEF Aged
<1>2. CASE Environment
  <2>1. changes' = changes + 1
    BY <1>2 DEF Environment, Rename, Upgrade, Build, Copy, Change
  <2>2. QED
    BY <1>0, <2>1 DEF Aged
<1>3. ASSUME NEW l \in Launches, LaunchStep(l)
      PROVE  UNCHANGED <<name, bundles, changes>>
  BY <1>3 DEF LaunchStep, Resolve, Prepare, HostResolves, ReleaseForHost,
              HostResumes, Check, Spawn, Reconcile, Die, Outside
<1>4. ASSUME NEW r \in Runtimes, RuntimeStep(r)
      PROVE  UNCHANGED <<name, bundles, changes>>
  BY <1>4 DEF RuntimeStep, StartByHand, Admit, Bind, EnterRunning,
              HandlerReturns, Killed, RuntimeOnly, Outside
<1>5. QED
  BY <1>1, <1>2, <1>3, <1>4 DEF Next, vars, ReconcileStale, Outside

-----------------------------------------------------------------------------
(* The launches                                                            *)

\* Whatever else happens, a launch that does not move keeps its invariant.
LEMMA LaunchUnmoved ==
  ASSUME IInv, Kept, Aged, NEW l \in Launches, launches'[l] = launches[l]
  PROVE  LaunchInv(l)'
<1> DEFINE at == launches[l]
<1>1. LaunchInv(l) /\ changes \in Nat
  BY DEF IInv, Types
<1>2. Faithful(at) => Faithful(at)' /\ (Fresh(at.asked)' => changes' = changes)
  BY <1>1 DEF Faithful, Fresh, Aged, Askings
<1>3. changes' = changes => UNCHANGED <<name, bundles>>
  BY DEF Aged
<1>4. Prepared \subseteq Resolved
  BY DEF Prepared
<1>5. QED
  BY <1>1, <1>2, <1>3, <1>4 DEF LaunchInv, Kept, Fresh

\* A launch moves on to a record that keeps the invariant.
LEMMA LaunchMoved ==
  ASSUME IInv, Kept, Aged, NEW l \in Launches, NEW new \in LaunchRecords,
         launches' = [launches EXCEPT ![l] = new],
         launches'[l] = new => LaunchInv(l)'
  PROVE  /\ launches' \in [Launches -> LaunchRecords]
         /\ \A m \in Launches : LaunchInv(m)'
<1>1. /\ launches' \in [Launches -> LaunchRecords]
      /\ launches'[l] = new
      /\ \A m \in Launches \ {l} : launches'[m] = launches[m]
  BY DEF IInv, Types
<1>2. QED
  BY <1>1, LaunchUnmoved

\* A launch takes another step with what it has resolved.
LEMMA GotoEffect ==
  ASSUME IInv, Kept, Aged, UNCHANGED changes, NEW l \in Launches,
         NEW pc \in {"check", "spawn", "wait"}, Goto(l, pc),
         launches[l].pc \in Prepared
  PROVE  /\ launches' \in [Launches -> LaunchRecords]
         /\ \A m \in Launches : LaunchInv(m)'
<1> PICK at : at = launches[l]
  OBVIOUS
<1> DEFINE new == [at EXCEPT !.pc = pc]
<1>1. at \in LaunchRecords /\ LaunchInv(l)
  BY DEF IInv, Types
<1>2. /\ new \in LaunchRecords /\ new.pc = pc
      /\ new.directory = at.directory /\ new.project = at.project
      /\ new.bundle = at.bundle /\ new.session = at.session
      /\ new.arguments = at.arguments /\ new.supervision = at.supervision
      /\ new.asked = at.asked
  BY <1>1 DEF LaunchRecords, LaunchPCs
<1>3. launches' = [launches EXCEPT ![l] = new]
  BY DEF Goto
<1>4. UNCHANGED <<name, bundles>>
  BY DEF Aged
<1>5. ASSUME launches'[l] = new PROVE LaunchInv(l)'
  <2>1. at.pc \in Resolved /\ at.pc \in Prepared /\ pc # "host"
    BY DEF Prepared
  <2> HIDE DEF new
  <2>2. Faithful(new)' /\ Fresh(new.asked)' = Fresh(at.asked)
    BY <1>1, <1>2, <2>1 DEF LaunchInv, Faithful, Fresh
  <2>3. QED
    BY <1>1, <1>2, <1>4, <1>5, <2>1, <2>2 DEF LaunchInv, Kept
<1>6. QED
  <2> HIDE DEF new
  <2> QED BY <1>2, <1>3, <1>5, LaunchMoved

\* A launch that is gone has nothing left.
LEMMA LeaveEffect ==
  ASSUME IInv, Kept, Aged, NEW l \in Launches, Leave(l)
  PROVE  /\ launches' \in [Launches -> LaunchRecords]
         /\ \A m \in Launches : LaunchInv(m)'
<1> DEFINE new == [Idle EXCEPT !.pc = "gone"]
<1>1. new \in LaunchRecords /\ new.pc = "gone"
  BY DEF Idle, LaunchRecords, LaunchPCs, Supervisions
<1>2. launches' = [launches EXCEPT ![l] = new]
  BY DEF Leave
<1>3. ASSUME launches'[l] = new PROVE LaunchInv(l)'
  <2> HIDE DEF new
  <2> QED BY <1>1, <1>3 DEF LaunchInv, Resolved, Prepared
<1>4. QED
  <2> HIDE DEF new
  <2> QED BY <1>1, <1>2, <1>3, LaunchMoved

\* Whatever the arguments of the source are, envelope and reference are read
\* back from where they were put, and the arguments arrive as they were given
\* (invocation_transport.rs, operator_host.rs).
LEMMA DelimiterIsFaithful ==
  ASSUME NEW S, NEW a \in Seq(S), NEW tag, NEW e
  PROVE  LET v == <<tag, e, "delimiter">> \o a IN
         /\ Len(v) >= 3 /\ v[1] = tag /\ v[2] = e /\ v[3] = "delimiter"
         /\ SubSeq(v, 4, Len(v)) = a
<1> DEFINE v == <<tag, e, "delimiter">> \o a
           T == S \cup {tag, e, "delimiter"}
           w == SubSeq(v, 4, Len(v))
<1>1. /\ Len(v) = 3 + Len(a) /\ v[1] = tag /\ v[2] = e /\ v[3] = "delimiter"
      /\ \A i \in 1..Len(a) : v[3 + i] = a[i]
  OBVIOUS
<1>2. v \in Seq(T) /\ Len(a) \in Nat
  OBVIOUS
<1>3. /\ w \in Seq(T)
      /\ Len(w) = Len(a)
      /\ \A i \in 1..Len(a) : w[i] = v[3 + i]
  <2> HIDE DEF v, T
  <2> QED BY <1>1, <1>2
<1>4. w = a
  <2> HIDE DEF v, w
  <2> QED BY <1>1, <1>3
<1>5. QED
  <2> HIDE DEF v
  <2> QED BY <1>1, <1>2, <1>4

\* Every launch has arguments that are a sequence.
LEMMA ArgumentsAreSequences ==
  ASSUME NEW a \in Arguments \cup {<<>>} PROVE a \in Seq(Words)
<1>1. Arguments \subseteq Seq(Words)
  BY LaunchAssumption
<1>2. <<>> \in Seq(Words)
  OBVIOUS
<1>3. QED
  BY <1>1, <1>2

LEMMA ResolvePreserves ==
  ASSUME IInv, Kept, Aged, NEW l \in Launches, NEW d \in Directories,
         NEW supervision \in Supervisions, NEW arguments \in Arguments,
         Resolve(l, d, supervision, arguments)
  PROVE  /\ launches' \in [Launches -> LaunchRecords]
         /\ \A m \in Launches : LaunchInv(m)'
<1> DEFINE asked == [directory |-> d, session |-> None, arguments |-> arguments,
                     supervision |-> supervision, began |-> changes]
           new == [pc |-> "prepare", supervision |-> supervision,
                   directory |-> d, project |-> name, bundle |-> bundles[d],
                   session |-> None, arguments |-> arguments, lexicon |-> None,
                   asked |-> asked]
<1>1. /\ bundles[d] \in Executables /\ Directory(bundles[d].runtime) = d
      /\ bundles[d].required \subseteq Offered
      /\ name \in Names /\ bundles[d] # None /\ changes \in Nat
  BY AdmittedBundle DEF IInv, Types, Resolve, Admits
<1>2. /\ launches' = [launches EXCEPT ![l] = new]
      /\ UNCHANGED <<name, bundles, changes>>
  BY DEF Resolve, Outside
<1>3. asked \in Askings /\ new \in LaunchRecords
  BY <1>1 DEF LaunchRecords, LaunchPCs, Askings
<1>4. Faithful(new)'
  BY <1>1, <1>2, <1>3 DEF Faithful
<1>5. ASSUME launches'[l] = new PROVE LaunchInv(l)'
  BY <1>1, <1>2, <1>4, <1>5 DEF LaunchInv, Prepared
<1>6. QED
  <2> HIDE DEF new
  <2> QED BY <1>2, <1>3, <1>5, LaunchMoved

\* The records that Prepare and HostResolves make of a launch's.
LEMMA PreparedShape ==
  ASSUME NEW at \in LaunchRecords, NEW pc \in LaunchPCs, NEW s \in Sessions,
         NEW by \in Versions \cup {None}, NEW asked \in Askings
  PROVE  [at EXCEPT !.session = s, !.asked = asked, !.lexicon = by, !.pc = pc]
           \in LaunchRecords
  BY DEF LaunchRecords

LEMMA ResumedShape ==
  ASSUME NEW at \in LaunchRecords, NEW n \in Names, NEW x \in Executables
  PROVE  [at EXCEPT !.pc = "resume", !.directory = at.directory,
                    !.session = at.session, !.arguments = at.arguments,
                    !.project = n, !.bundle = x]
           \in LaunchRecords
<1>1. "resume" \in LaunchPCs
  BY DEF LaunchPCs
<1>2. QED
  BY <1>1 DEF LaunchRecords

LEMMA PreparePreserves ==
  ASSUME IInv, Kept, Aged, NEW l \in Launches, NEW s \in Sessions,
         NEW mode \in Modes, Prepare(l, s, mode)
  PROVE  /\ launches' \in [Launches -> LaunchRecords]
         /\ \A m \in Launches : LaunchInv(m)'
<1> PICK at : at = launches[l]
  OBVIOUS
<1> PICK by : by = IF at.supervision = "background" THEN core ELSE None
  OBVIOUS
<1> DEFINE pc    == IF at.supervision = "background" THEN "host" ELSE "check"
           asked == [at.asked EXCEPT !.session = s]
           new   == [at EXCEPT !.session = s, !.asked = asked, !.lexicon = by,
                               !.pc = pc]
           rec   == [project |-> at.project, runtime |-> at.bundle.runtime,
                     mode |-> mode, supervision |-> at.supervision,
                     state |-> "prepared"]
<1>1. at \in LaunchRecords /\ LaunchInv(l) /\ core \in Versions
  BY DEF IInv, Types
<1>2. /\ at.pc = "prepare"
      /\ launches' = [launches EXCEPT ![l] = new]
      /\ records' = [records EXCEPT ![at.directory][s] = rec]
      /\ UNCHANGED <<name, bundles, changes>>
  BY DEF Prepare, SetRecord, At, Outside
<1>3. /\ at.directory \in Directories /\ at.project \in Names
      /\ at.bundle \in Executables /\ at.bundle.required \subseteq Offered
      /\ Directory(at.bundle.runtime) = at.directory
      /\ bundles[at.directory] # None /\ Faithful(at)
      /\ Fresh(at.asked) => at.project = name /\ at.bundle = bundles[at.directory]
  BY <1>1, <1>2 DEF LaunchInv, Resolved, LaunchPCs
<1>4. /\ asked \in Askings /\ asked.session = s
      /\ asked.directory = at.asked.directory
      /\ asked.arguments = at.asked.arguments
      /\ asked.supervision = at.asked.supervision
      /\ asked.began = at.asked.began
  BY <1>3 DEF Faithful, Askings
<1>5. /\ new \in LaunchRecords
      /\ new.pc \in {"check", "host"} /\ new.session = s
      /\ new.pc = "host" => new.lexicon \in Versions
      /\ new.directory = at.directory /\ new.project = at.project
      /\ new.bundle = at.bundle /\ new.arguments = at.arguments
      /\ new.supervision = at.supervision /\ new.asked = asked
  <2>1. /\ pc \in {"check", "host"} /\ by \in Versions \cup {None}
        /\ pc = "host" => by \in Versions
    BY <1>1
  <2> HIDE DEF asked, pc
  <2>2. new \in LaunchRecords
    <3>1. /\ pc \in LaunchPCs /\ s \in Sessions \cup {None}
          /\ asked \in Askings \cup {None}
      BY <1>4, <2>1 DEF LaunchPCs
    <3>2. QED
      BY <1>1, <1>4, <2>1, <3>1, PreparedShape
  <2>3. QED
    BY <1>1, <1>4, <2>1, <2>2 DEF LaunchRecords
<1>6. rec \in Records
  BY <1>1, <1>3, ExecutableFields DEF Records, LaunchRecords, Modes, Supervisions
<1>7. rec # None
  BY <1>6, LaunchAssumption
<1>8. records'[at.directory][s] = rec
  <2> HIDE DEF rec
  <2> QED BY <1>2, <1>3 DEF IInv, Types
<1>9. mode = "resume" => at.bundle.resume
  BY DEF Prepare, Resumable
<1>10. ASSUME launches'[l] = new PROVE LaunchInv(l)'
  <2>1. /\ rec.project = at.project /\ rec.runtime = at.bundle.runtime
        /\ rec.mode = mode /\ rec.supervision = at.supervision
    OBVIOUS
  <2> HIDE DEF new, rec, asked
  <2>2. Faithful(new)' /\ Fresh(new.asked)' = Fresh(at.asked)
    BY <1>2, <1>3, <1>4, <1>5 DEF Faithful, Fresh
  <2>3. QED
    BY <1>2, <1>3, <1>4, <1>5, <1>7, <1>8, <1>9, <1>10, <2>1, <2>2 DEF LaunchInv
<1>11. QED
  <2> HIDE DEF new
  <2> QED BY <1>2, <1>5, <1>10, LaunchMoved

LEMMA HostPreserves ==
  ASSUME IInv, Kept, Aged, NEW l \in Launches, HostResolves(l)
  PROVE  /\ launches' \in [Launches -> LaunchRecords]
         /\ \A m \in Launches : LaunchInv(m)'
<1> PICK at : at = launches[l]
  OBVIOUS
<1> PICK x : x = bundles[at.directory]
  OBVIOUS
<1> PICK n : n = name
  OBVIOUS
<1> DEFINE argv == HostArgv(at.directory, at.session, at.arguments)
           d    == [source |-> argv[2].source, operation |-> argv[2].operation]
           new  == [at EXCEPT !.pc = "resume", !.directory = at.directory,
                              !.session = at.session, !.arguments = at.arguments,
                              !.project = n, !.bundle = x]
<1>1. at \in LaunchRecords /\ LaunchInv(l) /\ at.pc = "host"
  BY DEF IInv, Types, HostResolves, At
<1>2. /\ at.directory \in Directories /\ at.session \in Sessions
      /\ at.lexicon \in Versions /\ Faithful(at)
      /\ at.asked.session = at.session
      /\ records[at.directory][at.session] # None
      /\ records[at.directory][at.session].supervision = at.supervision
      /\ at.pc \in Resolved /\ at.pc \in Prepared
  BY <1>1 DEF LaunchInv, Resolved, Prepared, LaunchPCs
<1>3. d = at.directory /\ argv[2].session = at.session
      /\ HostArguments(argv) = at.arguments
  <2>1. at.arguments \in Seq(Words)
    BY <1>1, ArgumentsAreSequences DEF LaunchRecords
  <2>2. /\ argv[2] = [source |-> at.directory.source,
                      operation |-> at.directory.operation,
                      session |-> at.session]
        /\ HostArguments(argv) = at.arguments
    BY <2>1, DelimiterIsFaithful DEF HostArgv, HostArguments
  <2>3. QED
    <3> HIDE DEF argv
    <3> QED BY <1>2, <2>2 DEF Directories
<1>4. CASE Admits(bundles[d], d, at.lexicon)
  <2> HIDE DEF d, argv
  <2>1. /\ bundles[at.directory] \in Executables
        /\ Directory(bundles[at.directory].runtime) = at.directory
        /\ bundles[at.directory].required \subseteq Offered
        /\ name \in Names /\ bundles[at.directory] # None
    BY <1>2, <1>3, <1>4, AdmittedBundle DEF IInv, Types, Admits
  <2>2. /\ launches' = [launches EXCEPT ![l] = new]
        /\ UNCHANGED <<name, bundles, changes, records>>
    BY <1>3, <1>4 DEF HostResolves, Outside, argv, d
  <2>3. /\ new \in LaunchRecords
        /\ new.pc = "resume" /\ new.session = at.session
        /\ new.directory = at.directory /\ new.project = name
        /\ new.bundle = bundles[at.directory] /\ new.arguments = at.arguments
        /\ new.supervision = at.supervision /\ new.asked = at.asked
    <3>1. x \in Executables /\ n \in Names
      BY <2>1
    <3>2. new \in LaunchRecords
      BY <1>1, <3>1, ResumedShape
    <3>3. QED
      BY <1>1, <3>2 DEF LaunchRecords
  <2>4. ASSUME launches'[l] = new PROVE LaunchInv(l)'
    <3> HIDE DEF new
    <3>1. Faithful(new)' /\ Fresh(new.asked)' = Fresh(at.asked)
      BY <1>2, <2>2, <2>3 DEF Faithful, Fresh
    <3>2. Fresh(at.asked) =>
            /\ at.project = name /\ at.bundle = bundles[at.directory]
            /\ records[at.directory][at.session].project = at.project
            /\ records[at.directory][at.session].runtime = at.bundle.runtime
            /\ records[at.directory][at.session].mode = "resume" =>
                 at.bundle.resume
      BY <1>1, <1>2 DEF LaunchInv
    <3>3. QED
      BY <1>2, <2>1, <2>2, <2>3, <2>4, <3>1, <3>2 DEF LaunchInv
  <2>5. QED
    <3> HIDE DEF new
    <3> QED BY <2>2, <2>3, <2>4, LaunchMoved
<1>5. CASE ~ Admits(bundles[d], d, at.lexicon)
  BY <1>5, LeaveEffect DEF HostResolves
<1>6. QED
  BY <1>4, <1>5

LEMMA LaunchPreserves ==
  ASSUME IInv, Kept, Aged, NEW l \in Launches, LaunchStep(l)
  PROVE  /\ launches' \in [Launches -> LaunchRecords]
         /\ \A m \in Launches : LaunchInv(m)'
<1> USE DEF At
<1> DEFINE at == launches[l]
           Goal == /\ launches' \in [Launches -> LaunchRecords]
                   /\ \A m \in Launches : LaunchInv(m)'
<1>1. ASSUME NEW d \in Directories, NEW supervision \in Supervisions,
             NEW arguments \in Arguments, Resolve(l, d, supervision, arguments)
      PROVE  Goal
  BY <1>1, ResolvePreserves
<1>2. ASSUME NEW s \in Sessions, NEW mode \in Modes, Prepare(l, s, mode)
      PROVE  Goal
  BY <1>2, PreparePreserves
<1>3. CASE ReleaseForHost(l)
  BY <1>3, LaunchUnmoved DEF ReleaseForHost, IInv, Types
<1>4. CASE HostResolves(l)
  BY <1>4, HostPreserves
<1>5. CASE HostResumes(l)
  <2>1. at.pc = "resume" /\ (Goto(l, "check") \/ Leave(l)) /\ UNCHANGED changes
    BY <1>5 DEF HostResumes, Outside
  <2>2. QED
    BY <2>1, GotoEffect, LeaveEffect DEF Resolved, Prepared, LaunchPCs
<1>6. CASE Check(l)
  <2>1. at.pc = "check" /\ (Goto(l, "spawn") \/ Leave(l)) /\ UNCHANGED changes
    BY <1>6 DEF Check, Outside
  <2>2. QED
    BY <2>1, GotoEffect, LeaveEffect DEF Resolved, Prepared, LaunchPCs
<1>7. ASSUME NEW r \in Runtimes, Spawn(l, r) PROVE Goal
  BY <1>7, GotoEffect DEF Spawn, Outside, Resolved, Prepared, LaunchPCs
<1>8. CASE Reconcile(l)
  BY <1>8, LeaveEffect DEF Reconcile
<1>9. CASE Die(l)
  BY <1>9, LeaveEffect DEF Die
<1>10. QED
  BY <1>1, <1>2, <1>3, <1>4, <1>5, <1>6, <1>7, <1>8, <1>9
  DEF LaunchStep, Supervisions

-----------------------------------------------------------------------------
(* The runtimes                                                            *)

\* A record that stays what an envelope says it is.
LEMMA StaysIdentified ==
  ASSUME Kept, NEW d \in Directories, NEW t \in Sessions, NEW e,
         Identified(records[d][t], e)
  PROVE  Identified(records'[d][t], e)
  BY DEF Kept, Identified

\* Where a runtime works that was started by a launch.
LEMMA ServedTarget ==
  ASSUME NEW c, Served(c)
  PROVE  /\ Target(c).directory \in Directories
         /\ Target(c).session \in Sessions
  BY DEF Served, Target, Askings

LEMMA ServedStays ==
  ASSUME IInv, Kept, Aged, NEW c, Served(c)
  PROVE  Served(c)'
<1>1. c.asked.began \in Nat /\ changes \in Nat
  BY DEF Served, Askings, IInv, Types
<1>2. c.asked.began <= changes' /\ (Fresh(c.asked)' => Fresh(c.asked))
  BY <1>1 DEF Served, Aged, Fresh
<1>3. ASSUME Fresh(c.asked)
      PROVE  Identified(RecordOf(Target(c)), c.argv[2])'
  <2>1. Identified(RecordOf(Target(c)), c.argv[2])
    BY <1>3 DEF Served
  <2>2. QED
    BY <2>1, ServedTarget, StaysIdentified DEF RecordOf
<1>4. AcceptsInputs(c)' <=> AcceptsInputs(c)
  BY DEF AcceptsInputs, Admitted, ContextAgrees
<1>5. QED
  BY <1>2, <1>3, <1>4 DEF Served

\* Where a runtime past the admission works.
LEMMA TargetOf ==
  ASSUME NEW c \in ChildRecords, AcceptsInputs(c)
  PROVE  /\ Target(c).directory \in Directories
         /\ Target(c).session \in Sessions
  BY DEF ChildRecords, AcceptsInputs, ContextAgrees, Target, OwnContexts, Contexts, Directories

LEMMA ChildStays ==
  ASSUME IInv, Kept, Aged, NEW c \in ChildRecords, ChildOK(c)
  PROVE  ChildOK(c)'
<1>1. c.launch # None => Served(c)'
  BY ServedStays DEF ChildOK
<1>2. ASSUME c.pc = "handler"
      PROVE  Identified(RecordOf(Target(c)), c.argv[2])'
  <2>1. AcceptsInputs(c) /\ Identified(RecordOf(Target(c)), c.argv[2])
    BY <1>2 DEF ChildOK
  <2>2. QED
    BY <2>1, TargetOf, StaysIdentified DEF RecordOf
<1>3. AcceptsInputs(c)' <=> AcceptsInputs(c)
  BY DEF AcceptsInputs, Admitted, ContextAgrees
<1>4. QED
  BY <1>1, <1>2, <1>3 DEF ChildOK, Identified

LEMMA ChildUnmoved ==
  ASSUME IInv, Kept, Aged, NEW r \in Runtimes, children'[r] = children[r]
  PROVE  ChildInv(r)'
<1> PICK c : c = children[r]
  OBVIOUS
<1>1. CASE c = None
  BY <1>1 DEF ChildInv
<1>2. CASE c # None
  <2>1. c \in ChildRecords /\ ChildOK(c)
    BY <1>2 DEF IInv, Types, ChildInv
  <2>2. ChildOK(c)'
    BY <2>1, ChildStays
  <2>3. QED
    BY <2>2 DEF ChildInv
<1>3. QED
  BY <1>1, <1>2

\* A runtime takes its next step; what was handed out stays handed out.
LEMMA ChildMoved ==
  ASSUME IInv, Kept, Aged, sent.argv \subseteq sent'.argv, NEW r \in Runtimes,
         NEW c \in ChildRecords' \cup {None}, c # None => ChildOK(c)',
         children' = [children EXCEPT ![r] = c]
  PROVE  /\ children' \in [Runtimes -> ChildRecords' \cup {None}]
         /\ \A q \in Runtimes : ChildInv(q)'
<1>1. ChildRecords \subseteq ChildRecords'
  BY DEF ChildRecords, OwnContexts, Contexts, Directories
<1>2. /\ children' \in [Runtimes -> ChildRecords' \cup {None}]
      /\ children'[r] = c
      /\ \A q \in Runtimes \ {r} : children'[q] = children[q]
  BY <1>1 DEF IInv, Types
<1>3. ChildInv(r)'
  BY <1>2 DEF ChildInv
<1>4. QED
  BY <1>2, <1>3, ChildUnmoved

\* Runtimes with the same inputs pass the same checks.
SameInputs(b, c) ==
  /\ b.launch = c.launch /\ b.executable = c.executable /\ b.argv = c.argv
  /\ b.env = c.env /\ b.asked = c.asked

LEMMA SameInputsServed ==
  ASSUME NEW b, NEW c, SameInputs(b, c)
  PROVE  /\ AcceptsInputs(b)' <=> AcceptsInputs(c)
         /\ Target(b) = Target(c)
         /\ Served(c)' => Served(b)'
<1>1. AcceptsInputs(b) <=> AcceptsInputs(c)
  BY DEF SameInputs, AcceptsInputs, Admitted
<1>2. Target(b) = Target(c)
  BY DEF SameInputs, Target
<1>3. AcceptsInputs(b)' <=> AcceptsInputs(b)
  BY DEF AcceptsInputs, Admitted, ContextAgrees
<1>4. AcceptsInputs(c)' <=> AcceptsInputs(c)
  BY DEF AcceptsInputs, Admitted, ContextAgrees
<1>5. Served(c)' => Served(b)'
  BY <1>1, <1>2, <1>3, <1>4 DEF SameInputs, Served
<1>6. QED
  BY <1>1, <1>2, <1>3, <1>5

\* A runtime goes on with the inputs it has.
LEMMA ChildAdvances ==
  ASSUME IInv, Kept, Aged, UNCHANGED sent, NEW r \in Runtimes,
         NEW c \in ChildRecords, ChildOK(c), NEW b \in ChildRecords,
         SameInputs(b, c), AcceptsInputs(c),
         b.pc = "enter" => Identified(b.seen, b.argv[2]),
         b.pc = "handler" => Identified(RecordOf(Target(b)), b.argv[2]),
         children' = [children EXCEPT ![r] = b]
  PROVE  /\ children' \in [Runtimes -> ChildRecords' \cup {None}]
         /\ \A q \in Runtimes : ChildInv(q)'
<1>1. ChildOK(c)'
  BY ChildStays
<1>2. AcceptsInputs(b)' /\ (b.launch # None => Served(b)')
  BY <1>1, SameInputsServed DEF ChildOK, SameInputs
<1>3. ASSUME b.pc = "handler"
      PROVE  Identified(RecordOf(Target(b)), b.argv[2])'
  <2>1. Target(b) = Target(c)
    BY SameInputsServed
  <2>2. QED
    BY <1>3, <2>1, TargetOf, StaysIdentified DEF RecordOf
<1>4. ChildOK(b)'
  BY <1>2, <1>3 DEF ChildOK, Identified
<1>5. ChildRecords' = ChildRecords
  BY DEF ChildRecords, OwnContexts, Contexts, Directories
<1>6. QED
  BY <1>4, <1>5, ChildMoved

LEMMA RuntimePreserves ==
  ASSUME IInv, Kept, Aged, NEW r \in Runtimes, RuntimeStep(r)
  PROVE  /\ children' \in [Runtimes -> ChildRecords' \cup {None}]
         /\ \A q \in Runtimes : ChildInv(q)'
<1> DEFINE Goal == /\ children' \in [Runtimes -> ChildRecords' \cup {None}]
                   /\ \A q \in Runtimes : ChildInv(q)'
<1> PICK c : c = children[r]
  OBVIOUS
<1>1. UNCHANGED sent
  BY DEF RuntimeStep, StartByHand, Admit, Bind, EnterRunning, HandlerReturns,
         Killed, RuntimeOnly
<1>2. ASSUME Ends(r) PROVE Goal
  BY <1>1, <1>2, ChildMoved DEF Ends
<1>3. c # None => c \in ChildRecords /\ ChildOK(c)
  BY DEF IInv, Types, ChildInv
<1>4. ASSUME NEW d \in Directories, NEW argv \in sent.argv \cup {<<>>, <<"probe">>},
             NEW env \in sent.env \cup {None}, StartByHand(r, d, argv, env)
      PROVE  Goal
  <2> PICK x : x = bundles[d]
    OBVIOUS
  <2> DEFINE old == Started(None, x, argv, env, None)
             new == [old EXCEPT !.pc = "bind"]
  <2>1. x \in Executables /\ env \in OwnContexts \cup {None}
    BY <1>4 DEF IInv, Types, StartByHand
  <2>2. AcceptsInputs(old) /\ children' = [children EXCEPT ![r] = new]
    BY <1>4 DEF StartByHand
  <2>3. old \in ChildRecords /\ new \in ChildRecords
    BY <2>1 DEF Started, ChildRecords
  <2>4. new.pc = "bind" /\ old.pc = "admit" /\ old.launch = None
        /\ SameInputs(new, old)
    BY DEF Started, SameInputs
  <2>5. ChildOK(old)
    <3> HIDE DEF old
    <3> QED BY <2>4 DEF ChildOK
  <2>6. QED
    <3> HIDE DEF old, new
    <3> QED BY <1>1, <2>2, <2>3, <2>4, <2>5, ChildAdvances
<1>5. CASE Admit(r)
  <2>1. CASE AcceptsInputs(c)
    <3> DEFINE new == [c EXCEPT !.pc = "bind"]
    <3>1. c # None /\ children' = [children EXCEPT ![r] = new]
      BY <1>5, <2>1 DEF Admit, Child, Advance
    <3>2. new \in ChildRecords /\ new.pc = "bind" /\ SameInputs(new, c)
      BY <1>3, <3>1 DEF ChildRecords, SameInputs
    <3>3. QED
      <4> HIDE DEF new
      <4> QED BY <1>1, <1>3, <2>1, <3>1, <3>2, ChildAdvances
  <2>2. CASE ~ AcceptsInputs(c)
    BY <1>2, <1>5, <2>2 DEF Admit
  <2>3. QED
    BY <2>1, <2>2
<1>6. CASE Bind(r)
  <2> PICK rec : rec = RecordOf(Target(c))
    OBVIOUS
  <2> DEFINE new == [c EXCEPT !.pc = "enter", !.seen = rec]
  <2>1. c # None /\ c.pc = "bind" /\ AcceptsInputs(c)
    BY <1>3, <1>6 DEF Bind, Child, ChildOK
  <2>2. CASE Ends(r)
    BY <1>2, <2>2
  <2>3. CASE RecordAgrees(rec, c.argv[2]) /\ children' = [children EXCEPT ![r] = new]
    <3>1. rec \in Records /\ Identified(rec, c.argv[2])
      BY <1>3, <2>1, <2>3, TargetOf
      DEF IInv, Types, RecordOf, RecordAgrees, Identified
    <3>2. /\ new \in ChildRecords /\ new.pc = "enter" /\ new.seen = rec
          /\ SameInputs(new, c)
      BY <1>3, <2>1, <3>1 DEF ChildRecords, SameInputs
    <3>3. QED
      <4> HIDE DEF new
      <4> QED BY <1>1, <1>3, <2>1, <2>3, <3>1, <3>2, ChildAdvances
              DEF SameInputs
  <2>4. QED
    BY <1>6, <2>1, <2>2, <2>3 DEF Bind
<1>7. CASE EnterRunning(r)
  <2>1. /\ c # None /\ c.pc = "enter" /\ AcceptsInputs(c)
        /\ Identified(c.seen, c.argv[2])
    BY <1>3, <1>7 DEF EnterRunning, Child, ChildOK
  <2>2. CASE RecordOf(Target(c)) # c.seen
    BY <1>2, <1>7, <2>2 DEF EnterRunning
  <2>3. CASE RecordOf(Target(c)) = c.seen
    <3> DEFINE new == [c EXCEPT !.pc = "handler"]
    <3>1. children' = [children EXCEPT ![r] = new]
      BY <1>7, <2>3 DEF EnterRunning, Advance
    <3>2. new \in ChildRecords /\ new.pc = "handler" /\ SameInputs(new, c)
      BY <1>3, <2>1 DEF ChildRecords, SameInputs
    <3>3. Identified(RecordOf(Target(new)), new.argv[2])
      <4> HIDE DEF new
      <4> QED BY <2>1, <2>3, <3>2, SameInputsServed DEF SameInputs
    <3>4. QED
      <4> HIDE DEF new
      <4> QED BY <1>1, <1>3, <2>1, <3>1, <3>2, <3>3, ChildAdvances
  <2>4. QED
    BY <2>2, <2>3
<1>8. CASE HandlerReturns(r)
  BY <1>2, <1>8 DEF HandlerReturns
<1>9. CASE Killed(r)
  BY <1>2, <1>9 DEF Killed
<1>10. QED
  BY <1>4, <1>5, <1>6, <1>7, <1>8, <1>9 DEF RuntimeStep

\* A launch hands out a context for the directory of the runtime it names, and
\* starts a runtime with what the launch was asked for.
LEMMA SpawnPreserves ==
  ASSUME IInv, Kept, Aged, NEW l \in Launches, NEW r \in Runtimes, Spawn(l, r)
  PROVE  /\ children' \in [Runtimes -> ChildRecords' \cup {None}]
         /\ sent'.env \subseteq OwnContexts
         /\ \A q \in Runtimes : ChildInv(q)'
<1> PICK at : at = launches[l]
  OBVIOUS
<1> PICK e : e = Envelope(l)
  OBVIOUS
<1> PICK env : env = Context(l)
  OBVIOUS
<1> PICK x : x = bundles[at.directory]
  OBVIOUS
<1> PICK rec : rec = Own(l)
  OBVIOUS
<1> DEFINE argv == Encoded(e, at.arguments)
           new  == Started(l, x, argv, env, at.asked)
<1>1. at \in LaunchRecords /\ at.pc = "spawn" /\ LaunchInv(l)
  BY DEF Spawn, At, IInv, Types
<1>2. /\ at.directory \in Directories /\ at.project \in Names
      /\ at.bundle \in Executables /\ at.session \in Sessions
      /\ at.bundle.required \subseteq Offered
      /\ Directory(at.bundle.runtime) = at.directory
      /\ bundles[at.directory] # None
      /\ Faithful(at) /\ at.asked.session = at.session
  BY <1>1 DEF LaunchInv, Resolved, Prepared, LaunchPCs
<1>3. /\ rec # None /\ rec \in Records
      /\ rec.supervision = at.supervision
      /\ Fresh(at.asked) =>
           /\ at.bundle = x
           /\ rec.project = at.project /\ rec.runtime = at.bundle.runtime
           /\ rec.mode = "resume" => at.bundle.resume
  BY <1>1, <1>2 DEF LaunchInv, Resolved, Prepared, LaunchPCs, Own, IInv, Types
<1>4. /\ e = [project |-> at.project, runtime |-> at.bundle.runtime,
              session |-> at.session, mode |-> rec.mode,
              supervision |-> at.supervision]
      /\ env = [project |-> at.project, runtime |-> at.bundle.runtime,
                session |-> at.session,
                paths |-> PathsOf(at.directory, at.session)]
  BY DEF Envelope, Context
<1>5. env \in OwnContexts /\ env # None
  <2>1. env \in OwnContexts
    BY <1>2, <1>4, ExecutableFields DEF PathsOf, OwnContexts, Contexts, Directories
  <2>2. env # None
    BY <2>1, LaunchAssumption DEF OwnContexts
  <2>3. QED
    BY <2>1, <2>2
<1>6. /\ children' = [children EXCEPT ![r] = new]
      /\ sent'.argv = sent.argv \cup {argv}
      /\ sent'.env = sent.env \cup {env}
      /\ UNCHANGED <<records, changes>>
  BY DEF Spawn, Outside
<1>7. x \in Executables
  BY <1>2 DEF IInv, Types
<1>8. /\ argv # <<>> /\ argv[1] = "invocation" /\ argv[2] = e
      /\ argv[3] = "delimiter" /\ Len(argv) >= 3
      /\ SourceArguments(argv) = at.arguments
  <2>1. at.arguments \in Seq(Words)
    BY <1>1, ArgumentsAreSequences DEF LaunchRecords
  <2>2. QED
    BY <2>1, DelimiterIsFaithful DEF Encoded, SourceArguments
<1>9. new \in ChildRecords' /\ at.asked \in Askings
  <2> HIDE DEF argv
  <2> QED BY <1>2, <1>5, <1>6, <1>7
          DEF Started, ChildRecords, OwnContexts, Contexts, Directories, Faithful
<1> HIDE DEF argv
<1>10. /\ new.pc = "admit" /\ new.launch = l /\ new.executable = x
       /\ new.argv = argv /\ new.env = env /\ new.asked = at.asked
  BY DEF Started
<1> HIDE DEF new
<1>11. ASSUME Fresh(at.asked)
       PROVE  AcceptsInputs(new) /\ Identified(RecordOf(Target(new)), e)
  <2>1. /\ x = at.bundle /\ rec.project = at.project
        /\ rec.runtime = at.bundle.runtime
        /\ rec.mode = "resume" => x.resume
    BY <1>3, <1>11
  <2>2. /\ e.runtime = x.runtime /\ e.project = at.project /\ e.mode = rec.mode
        /\ e.session = at.session /\ e.supervision = at.supervision
        /\ env.project = at.project /\ env.runtime = x.runtime
        /\ env.session = at.session
        /\ env.paths = PathsOf(at.directory, at.session)
    BY <1>4, <2>1
  <2>3. x.runtime \in Identities /\ (x.resume => x.runtime.operation # "processing")
    BY <1>7, ExecutableFields
  <2>4. Constructible(e)
    <3>1. rec.mode \in {"run", "resume"}
      BY <1>3 DEF Records, Modes
    <3>2. e.runtime.version # 0
      BY <2>2, <2>3, LaunchAssumption DEF Identities
    <3>3. QED
      BY <2>1, <2>2, <2>3, <3>1, <3>2 DEF Constructible
  <2>5. Admitted(new)
    BY <1>2, <1>8, <1>10, <2>1, <2>2, <2>4 DEF Admitted, Parses
  <2>6. ContextAgrees(env, e)
    <3>1. x.runtime.operation = at.directory.operation
      BY <1>2, <2>1 DEF Directory
    <3>2. PathsAgree(env.paths, x.runtime.operation, at.session)
      <4>1. /\ env.paths.root = at.directory /\ env.paths.session = at.session
            /\ env.paths.state = (at.directory.operation = "acquisition")
        BY <2>2 DEF PathsOf
      <4>2. QED
        BY <3>1, <4>1 DEF PathsAgree
    <3>3. QED
      BY <1>5, <2>2, <3>2 DEF ContextAgrees
  <2>7. ~ Probed(argv)
    BY <1>8 DEF Probed
  <2>8. RecordOf(Target(new)) = rec
    BY <1>8, <1>10, <2>2 DEF RecordOf, Target, PathsOf, Own
  <2>9. Identified(rec, e)
    BY <1>3, <2>1, <2>2 DEF Identified
  <2>10. QED
    BY <1>8, <1>10, <2>5, <2>6, <2>7, <2>8, <2>9 DEF AcceptsInputs
<1>12. Served(new)
  <2>1. e.session = at.session /\ e.supervision = at.supervision
        /\ env.paths.root = at.directory
    BY <1>4 DEF PathsOf
  <2>2. QED
    BY <1>2, <1>5, <1>8, <1>9, <1>10, <1>11, <2>1 DEF Served, Faithful
<1>13. ChildOK(new)'
  <2>1. Served(new)'
    BY <1>12, ServedStays
  <2>2. QED
    BY <1>10, <2>1 DEF ChildOK
<1>14. sent'.env \subseteq OwnContexts
  BY <1>5, <1>6 DEF IInv, Types
<1>15. QED
  BY <1>6, <1>9, <1>13, <1>14, ChildMoved

\* Every other step leaves the runtimes and what was handed out alone.
LEMMA ChildrenUnmoved ==
  ASSUME IInv, Kept, Aged, UNCHANGED <<children, sent>>
  PROVE  /\ children' \in [Runtimes -> ChildRecords' \cup {None}]
         /\ sent'.env \subseteq OwnContexts
         /\ \A q \in Runtimes : ChildInv(q)'
<1>1. ChildRecords' = ChildRecords
  BY DEF ChildRecords, OwnContexts, Contexts, Directories
<1>2. QED
  BY <1>1, ChildUnmoved DEF IInv, Types

-----------------------------------------------------------------------------
(* The invariant                                                           *)

LEMMA InductiveStep == IInv /\ [Next]_vars => IInv'
<1> SUFFICES ASSUME IInv, [Next]_vars PROVE IInv'
  OBVIOUS
<1>1. Kept /\ Aged
  BY NextKept, NextAged
<1>2. OwnContexts' = OwnContexts
  BY DEF OwnContexts, Contexts, Directories
<1>3. name' \in Names /\ core' \in Versions
  <2>1. name \in Names /\ core \in Versions
    BY DEF IInv, Types
  <2>2. CASE Environment
    BY <2>1, <2>2 DEF Environment, Rename, Upgrade, Build, Copy
  <2>3. CASE UNCHANGED vars
    BY <2>1, <2>3 DEF vars
  <2>4. ASSUME NEW l \in Launches, LaunchStep(l) PROVE UNCHANGED <<name, core>>
    BY <2>4 DEF LaunchStep, Resolve, Prepare, ReleaseForHost, HostResolves,
                HostResumes, Check, Spawn, Reconcile, Die, Outside
  <2>5. ASSUME NEW r \in Runtimes, RuntimeStep(r) PROVE UNCHANGED <<name, core>>
    BY <2>5 DEF RuntimeStep, StartByHand, Admit, Bind, EnterRunning,
                HandlerReturns, Killed, RuntimeOnly, Outside
  <2>6. ASSUME NEW d \in Directories, NEW s \in Sessions, ReconcileStale(d, s)
        PROVE  UNCHANGED <<name, core>>
    BY <2>6 DEF ReconcileStale, Outside
  <2>7. QED
    BY <2>1, <2>2, <2>3, <2>4, <2>5, <2>6 DEF Next
<1>4. /\ launches' \in [Launches -> LaunchRecords]
      /\ \A l \in Launches : LaunchInv(l)'
  <2>1. CASE UNCHANGED launches
    BY <1>1, <2>1, LaunchUnmoved DEF IInv, Types
  <2>2. ASSUME NEW l \in Launches, LaunchStep(l)
        PROVE  /\ launches' \in [Launches -> LaunchRecords]
               /\ \A m \in Launches : LaunchInv(m)'
    BY <1>1, <2>2, LaunchPreserves
  <2>3. CASE UNCHANGED vars \/ Environment
    BY <2>1, <2>3 DEF vars, Environment, Rename, Upgrade, Build, Copy, Change
  <2>4. ASSUME NEW r \in Runtimes, RuntimeStep(r) PROVE UNCHANGED launches
    BY <2>4 DEF RuntimeStep, StartByHand, Admit, Bind, EnterRunning,
                HandlerReturns, Killed, RuntimeOnly
  <2>5. ASSUME NEW d \in Directories, NEW s \in Sessions, ReconcileStale(d, s)
        PROVE  UNCHANGED launches
    BY <2>5 DEF ReconcileStale
  <2>6. QED
    BY <2>1, <2>2, <2>3, <2>4, <2>5 DEF Next
<1>5. /\ children' \in [Runtimes -> ChildRecords' \cup {None}]
      /\ sent'.env \subseteq OwnContexts
      /\ \A r \in Runtimes : ChildInv(r)'
  <2> DEFINE Goal == /\ children' \in [Runtimes -> ChildRecords' \cup {None}]
                     /\ sent'.env \subseteq OwnContexts
                     /\ \A r \in Runtimes : ChildInv(r)'
  <2>1. CASE UNCHANGED <<children, sent>>
    BY <1>1, <2>1, ChildrenUnmoved
  <2>2. CASE UNCHANGED vars \/ Environment
    BY <2>1, <2>2 DEF vars, Environment, Rename, Upgrade, Build, Copy, Change
  <2>3. ASSUME NEW l \in Launches, LaunchStep(l) PROVE Goal
    <3>1. CASE \E r \in Runtimes : Spawn(l, r)
      BY <1>1, <3>1, SpawnPreserves
    <3>2. CASE ~ \E r \in Runtimes : Spawn(l, r)
      <4>1. UNCHANGED <<children, sent>>
        BY <2>3, <3>2 DEF LaunchStep, Resolve, Prepare, ReleaseForHost,
             HostResolves, HostResumes, Check, Reconcile, Die
      <4>2. QED
        BY <2>1, <4>1
    <3>3. QED
      BY <3>1, <3>2
  <2>4. ASSUME NEW r \in Runtimes, RuntimeStep(r) PROVE Goal
    <3>1. UNCHANGED sent
      BY <2>4 DEF RuntimeStep, StartByHand, Admit, Bind, EnterRunning,
                  HandlerReturns, Killed, RuntimeOnly
    <3>2. QED
      BY <1>1, <2>4, <3>1, RuntimePreserves DEF IInv, Types
  <2>5. ASSUME NEW d \in Directories, NEW s \in Sessions, ReconcileStale(d, s)
        PROVE  Goal
    BY <2>1, <2>5 DEF ReconcileStale
  <2>6. QED
    BY <2>1, <2>2, <2>3, <2>4, <2>5 DEF Next
<1>6. Types'
  BY <1>1, <1>2, <1>3, <1>4, <1>5 DEF Types, Kept, Aged
<1>7. QED
  BY <1>4, <1>5, <1>6 DEF IInv

\* Launches stay with one directory and runtimes with inputs that passed the
\* checks made so far, whatever is rebuilt, renamed, copied or replayed.
THEOREM LaunchInvariance == Spec => []IInv
  BY InitInv, InductiveStep, PTL DEF Spec

\* When a source's handler runs, executable, arguments, environment and record
\* are about the same session of the same runtime, in its own directory
\* (run_http_runtime_invocation, run_processing_runtime_invocation).
THEOREM HandlersAgree == Spec => []HandlerAgrees
<1>1. IInv => HandlerAgrees
  <2> SUFFICES ASSUME IInv, NEW r \in Runtimes, Child(r, "handler")
               PROVE  LET c   == children[r]
                          e   == c.argv[2]
                          rec == RecordOf(Target(c))
                      IN  /\ e.runtime = c.executable.runtime
                          /\ e.project = c.env.project
                          /\ e.runtime = c.env.runtime
                          /\ e.session = c.env.session
                          /\ Identified(rec, e)
                          /\ Target(c).directory = Directory(c.executable.runtime)
    BY DEF HandlerAgrees, Identified
  <2> DEFINE c == children[r]
  <2>1. /\ c # None /\ c.pc = "handler"
        /\ Admitted(c) /\ ContextAgrees(c.env, c.argv[2])
        /\ Identified(RecordOf(Target(c)), c.argv[2])
    BY DEF Child, IInv, ChildInv, ChildOK, AcceptsInputs
  <2>2. Target(c).directory = Directory(c.env.runtime)
    BY <2>1, TargetTypes
  <2>3. QED
    BY <2>1, <2>2 DEF Admitted, ContextAgrees
<1>2. QED
  BY <1>1, LaunchInvariance, PTL

\* As long as nothing has changed since a command resolved its project, the
\* runtime it starts is turned away by none of its own checks
\* (admit_http_runtime_invocation, decode_runtime_context, bind_runtime_session).
THEOREM LaunchesAccepted == Spec => []LaunchAccepted
<1>1. IInv => LaunchAccepted
  <2> SUFFICES ASSUME IInv, NEW r \in Runtimes, children[r] # None,
                      children[r].launch # None,
                      changes = children[r].asked.began
               PROVE  LET c   == children[r]
                          rec == RecordOf(Target(c))
                      IN  /\ AcceptsInputs(c)
                          /\ rec.state # "prepared" \/ RecordAgrees(rec, c.argv[2])
    BY DEF LaunchAccepted
  <2> DEFINE c == children[r]
  <2>1. AcceptsInputs(c) /\ Identified(RecordOf(Target(c)), c.argv[2])
    BY DEF IInv, ChildInv, ChildOK, Served, Fresh
  <2>2. QED
    BY <2>1 DEF RecordAgrees, Identified
<1>2. QED
  BY <1>1, LaunchInvariance, PTL

\* The handler of a runtime that a command started, itself or through the
\* operator host, runs the operation, session and arguments the command was
\* asked for (execute_operator_host, parse_runtime_invocation).
THEOREM LaunchesServed == Spec => []LaunchServed
<1>1. IInv => LaunchServed
  <2> SUFFICES ASSUME IInv, NEW r \in Runtimes, Child(r, "handler"),
                      children[r].launch # None
               PROVE  LET c == children[r] IN
                      /\ Directory(c.executable.runtime) = c.asked.directory
                      /\ Target(c) = [directory |-> c.asked.directory,
                                      session |-> c.asked.session]
                      /\ SourceArguments(c.argv) = c.asked.arguments
                      /\ c.argv[2].supervision = c.asked.supervision
    BY DEF LaunchServed
  <2> DEFINE c == children[r]
  <2>1. /\ c # None /\ c.pc = "handler" /\ Served(c)
        /\ Admitted(c) /\ ContextAgrees(c.env, c.argv[2])
    BY DEF Child, IInv, ChildInv, ChildOK, AcceptsInputs
  <2>2. Target(c).directory = Directory(c.env.runtime)
    BY <2>1, TargetTypes
  <2>3. Target(c) = [directory |-> c.env.paths.root, session |-> c.argv[2].session]
    BY DEF Target
  <2>4. Directory(c.executable.runtime) = c.env.paths.root
    BY <2>1, <2>2, <2>3 DEF Admitted, ContextAgrees
  <2>5. QED
    BY <2>1, <2>3, <2>4 DEF Served
<1>2. QED
  BY <1>1, LaunchInvariance, PTL

=============================================================================
