---------------------------- MODULE DataExecution ----------------------------
(***************************************************************************)
(* `lexicon data` invocations against one source operation: selection of a *)
(* session (data/session.rs, session/selection.rs, session/coordinator.rs),*)
(* foreground supervision (data/foreground.rs) and the source runtime's own*)
(* session protocol (lexicon-core session/binding.rs and the runners).     *)
(* Any number of invocations overlap; each may be killed, each runtime may *)
(* be killed, and each document write may fail.                            *)
(*                                                                         *)
(* The handler inside the runtime is arbitrary source code: it returns,    *)
(* fails, panics or ends the process, and its Core calls inspect the lease.*)
(***************************************************************************)
EXTENDS SessionStore

CONSTANTS
  CrashProne,  (* the invocations that may be killed                       *)
  KillProne,   (* the sessions whose runtime may be killed                 *)
  WaitFaults   (* may waiting for or asking a child fail?                  *)

ASSUME ExecutionAssumption ==
  /\ CrashProne \subseteq Sessions
  /\ KillProne \subseteq Sessions
  /\ WaitFaults \in BOOLEAN

VARIABLES
  want,      \* what a CLI invocation is preparing: run, resume or abandon
  fresh,     \* the record rebuild_status_from_record loaded
  orphaned   \* history: sessions whose runtime outlived their lease

vars == <<disk, locals, want, fresh, orphaned>>
kept == <<want, fresh, orphaned>>

RuntimeGone == {"off", "exit0", "exitN", "killed"}
RuntimeAlive(s) == pc[Runtime(s)] \notin RuntimeGone
Ended == {"ok", "err", "crashed"}

-----------------------------------------------------------------------------
(* Session selection: select_and_prepare_session of invocation p.          *)

\* The root summary names a current session, or the operation has none.
NamesCurrent == summary # NoSummary

\* coordinator.reconcile_stale_current_session
Start(p) ==
  /\ pc[p] = "start"
  /\ \/ /\ NamesCurrent
        /\ cur'  = [cur EXCEPT ![p] = summary.session]
        /\ back' = [back EXCEPT ![p] = "select"]
        /\ Goto(p, "reconcile")
     \/ /\ ~NamesCurrent
        /\ Goto(p, "select")
        /\ UNCHANGED <<cur, back>>
  /\ UNCHANGED <<disk, snap, job, kept>>

\* coordinator_current_status reads the root summary ...
Select(p) ==
  /\ pc[p] = "select"
  /\ snap' = [snap EXCEPT ![p] = NoRecord]
  /\ \/ /\ NamesCurrent
        /\ cur' = [cur EXCEPT ![p] = summary.session]
        /\ Goto(p, "classify")
        /\ UNCHANGED want
     \/ /\ ~NamesCurrent
        /\ want' = [want EXCEPT ![p] = "run"]
        /\ Goto(p, "assess")
        /\ UNCHANGED cur
  /\ UNCHANGED <<disk, job, back, fresh, orphaned>>

\* ... and the record it names.  A failed session is abandoned under
\* --abandon-past-fail, resumed if the runtime registers a resume handler,
\* and an error otherwise.
Classify(p) ==
  /\ pc[p] = "classify"
  /\ LET r == record[cur[p]] IN
     \/ /\ r.state \in {"succeeded", "abandoned"}
        /\ want' = [want EXCEPT ![p] = "run"]
        /\ Goto(p, "assess")
     \/ /\ r.state \in Active
        /\ Goto(p, "errExit")
        /\ UNCHANGED want
     \/ /\ r.state = "failed"
        /\ \/ /\ \E w \in {"abandon", "resume"} : want' = [want EXCEPT ![p] = w]
              /\ Goto(p, "assess")
           \/ /\ Goto(p, "errExit")
              /\ UNCHANGED want
  /\ UNCHANGED <<disk, cur, snap, job, back, fresh, orphaned>>

-----------------------------------------------------------------------------
(* prepare_run, prepare_resume and abandon_current_failure: assess the     *)
(* current session again, then act on the verdict.                         *)

\* validate_run_selection, validate_resume_selection and the match of
\* abandon_current_failure.
Admits(w, verdict) ==
  \/ w = "run"    /\ verdict \in {"none", "succeeded", "abandoned", "stale"}
  \/ w = "resume" /\ verdict \in {"failed", "stale"}
  \/ w = "abandon" /\ verdict \in {"failed", "stale"}

\* Act on the verdict on the session whose record is r.
Decide(p, verdict, r) ==
  \/ /\ want[p] = "abandon"
     /\ Admits(want[p], verdict)
     /\ Transition(p, cur[p], "abandoned", None, r.rev, "abandoned", "errExit")
     /\ UNCHANGED snap
  \/ /\ want[p] # "abandon"
     /\ Admits(want[p], verdict)
     /\ snap' = [snap EXCEPT ![p] = NoRecord]
     /\ Goto(p, "create")
     /\ UNCHANGED <<cur, job>>
  \/ /\ ~Admits(want[p], verdict)
     /\ snap' = [snap EXCEPT ![p] = NoRecord]
     /\ Goto(p, "errExit")
     /\ UNCHANGED <<cur, job>>

Assess(p) ==
  /\ pc[p] = "assess"
  /\ \/ /\ NamesCurrent
        /\ cur' = [cur EXCEPT ![p] = summary.session]
        /\ Goto(p, "assessLoad")
        /\ UNCHANGED <<snap, job>>
     \/ /\ ~NamesCurrent
        /\ Decide(p, "none", NoRecord)
  /\ UNCHANGED <<disk, back, kept>>

\* assess_current_session: a terminal record is its own verdict; an active
\* one is reconciled, which returns to "assessed".
AssessLoad(p) ==
  /\ pc[p] = "assessLoad"
  /\ LET r == record[cur[p]] IN
     \/ /\ r.state \in Terminal
        /\ Decide(p, r.state, r)
        /\ UNCHANGED back
     \/ /\ r.state \in Active
        /\ back' = [back EXCEPT ![p] = "assessed"]
        /\ Goto(p, "reconcile")
        /\ UNCHANGED <<cur, snap, job>>
  /\ UNCHANGED <<disk, kept>>

Assessed(p) ==
  /\ pc[p] = "assessed"
  /\ \/ /\ snap[p] # NoRecord
        /\ Decide(p, "stale", snap[p])
     \/ /\ snap[p] = NoRecord
        /\ LET r == record[cur[p]]
               verdict == IF r.state \in Terminal THEN r.state ELSE "live"
           IN Decide(p, verdict, r)
  /\ UNCHANGED <<disk, back, kept>>

\* The failure is abandoned: now prepare a new run.
AfterAbandon(p) ==
  /\ pc[p] = "abandoned"
  /\ want' = [want EXCEPT ![p] = "run"]
  /\ snap' = [snap EXCEPT ![p] = NoRecord]
  /\ Goto(p, "assess")
  /\ UNCHANGED <<disk, cur, job, back, fresh, orphaned>>

-----------------------------------------------------------------------------
(* create_prepared_launch: record, root summary, then the lease.           *)

CreateRecord(p) ==
  /\ pc[p] = "create"
  /\ \/ /\ record' = [record EXCEPT ![Own(p)] = NewPrepared]
        /\ cur'    = [cur EXCEPT ![p] = Own(p)]
        /\ snap'   = [snap EXCEPT ![p] = NewPrepared]
        /\ Goto(p, "createSummary")
     \/ /\ IoFaults
        /\ Goto(p, "errExit")
        /\ UNCHANGED <<record, cur, snap>>
  /\ UNCHANGED <<summary, lease, job, back, kept>>

CreateSummary(p) ==
  /\ pc[p] = "createSummary"
  /\ \/ /\ summary' = SummaryOf(Own(p), snap[p])
        /\ Goto(p, "acquire")
     \/ /\ IoFaults
        /\ Goto(p, "errExit")
        /\ UNCHANGED summary
  /\ UNCHANGED <<record, lease, cur, snap, job, back, kept>>

AcquireLease(p) ==
  /\ pc[p] = "acquire"
  /\ \/ /\ FreeLease(Own(p))
        /\ Acquire(p, Own(p))
        /\ Goto(p, "launch")
     \/ /\ ~FreeLease(Own(p))
        /\ Goto(p, "errExit")
        /\ UNCHANGED lease
  /\ UNCHANGED <<store, cur, snap, job, back, kept>>

SelectionStep(p) ==
  \/ Start(p) \/ Select(p) \/ Classify(p)
  \/ Assess(p) \/ AssessLoad(p) \/ Assessed(p) \/ AfterAbandon(p)
  \/ CreateRecord(p) \/ CreateSummary(p) \/ AcquireLease(p)

-----------------------------------------------------------------------------
(* spawn_and_supervise: p supervises Runtime(Own(p)).                      *)

\* fail_prepared_execution: envelope, argv, integrity recheck or spawn failed.
FailLaunch(p) ==
  /\ pc[p] = "launch"
  /\ Transition(p, Own(p), "failed", "launch", snap[p].rev, "errExit", "errExit")
  /\ UNCHANGED <<disk, snap, back, kept>>

\* Variant of Spawn: the launch, and its lease, end once the child runs.
SpawnReleasing(p) ==
  /\ pc[p] = "launch"
  /\ pc' = [pc EXCEPT ![p] = "wait", ![Runtime(Own(p))] = "bind"]
  /\ Release(p)
  /\ UNCHANGED <<store, cur, snap, job, back, kept>>

Spawn(p) ==
  /\ pc[p] = "launch"
  /\ pc' = [pc EXCEPT ![p] = "wait", ![Runtime(Own(p))] = "bind"]
  /\ UNCHANGED <<disk, cur, snap, job, back, kept>>

ObserveExit(p) ==
  /\ pc[p] = "wait"
  /\ ~RuntimeAlive(Own(p))
  /\ Goto(p, "reconcileExit")
  /\ UNCHANGED <<disk, cur, snap, job, back, kept>>

\* child.wait() failed: the child has exited, or is killed and reaped, or its
\* fate stays unknown and the supervisor gives up.
WaitFails(p) ==
  /\ WaitFaults
  /\ pc[p] = "wait"
  /\ \/ /\ ~RuntimeAlive(Own(p))
        /\ Goto(p, "recoverExit")
        /\ UNCHANGED lease
     \/ /\ RuntimeAlive(Own(p))
        /\ pc' = [pc EXCEPT ![p] = "recoverExit", ![Runtime(Own(p))] = "killed"]
        /\ lease' = [s \in Sessions |->
                       IF lease[s] = Runtime(Own(p)) THEN Nobody ELSE lease[s]]
     \/ /\ Goto(p, "uncertain")
        /\ UNCHANGED lease
  /\ UNCHANGED <<store, cur, snap, job, back, kept>>

\* validate_or_rebuild_root_summary of r, then return the outcome.
Conclude(p, r, outcome) ==
  /\ snap' = [snap EXCEPT ![p] = r]
  /\ back' = [back EXCEPT ![p] = outcome]
  /\ Goto(p, "summary")
  /\ UNCHANGED <<cur, job>>

\* Variant of PersistAbnormal: exit code zero is taken for success.
PersistTrusting(p, r) ==
  /\ \/ /\ pc[Runtime(Own(p))] = "exit0"
        /\ Transition(p, Own(p), "succeeded", None, r.rev, "summary", "errExit")
     \/ /\ pc[Runtime(Own(p))] # "exit0"
        /\ Transition(p, Own(p), "failed", "abnormal", r.rev, "summary", "errExit")
  /\ back' = [back EXCEPT ![p] = "errExit"]
  /\ UNCHANGED snap

\* persist_abnormal_termination, whose record is then concluded.
PersistAbnormal(p, r) ==
  /\ Transition(p, Own(p), "failed", "abnormal", r.rev, "summary", "errExit")
  /\ back' = [back EXCEPT ![p] = "errExit"]
  /\ UNCHANGED snap

GiveUp(p) ==
  /\ Goto(p, "errExit")
  /\ UNCHANGED <<cur, snap, job, back>>

\* Variant of ReconcileExit: the record alone decides, not the exit.
ReconcileRecordOnly(p) ==
  /\ pc[p] = "reconcileExit"
  /\ LET r == record[Own(p)] IN
     \/ r.state \in Active    /\ PersistAbnormal(p, r)
     \/ r.state = "succeeded" /\ Conclude(p, r, "okExit")
     \/ r.state = "failed"    /\ Conclude(p, r, "errExit")
     \/ r.state = "abandoned" /\ GiveUp(p)
  /\ UNCHANGED <<disk, kept>>

\* Variant of ReconcileExit: a runtime that never got to Running is ignored.
ReconcileRunningExit(p) ==
  /\ pc[p] = "reconcileExit"
  /\ LET r == record[Own(p)] IN
     \/ r.state = "running"   /\ PersistAbnormal(p, r)
     \/ r.state # "running"   /\ GiveUp(p)
  /\ UNCHANGED <<disk, kept>>

\* reconcile_zero_exit, reconcile_nonzero_exit, reconcile_abnormal_termination
ReconcileExit(p) ==
  /\ pc[p] = "reconcileExit"
  /\ LET r == record[Own(p)]
         exit == pc[Runtime(Own(p))]
     IN \/ /\ r.state \in Active
           /\ PersistAbnormal(p, r)
        \/ /\ r.state = "succeeded" /\ exit = "exit0"
           /\ Conclude(p, r, "okExit")
        \/ /\ r.state = "failed" \/ (r.state = "succeeded" /\ exit = "killed")
           /\ Conclude(p, r, "errExit")
        \/ /\ r.state = "abandoned" \/ (r.state = "succeeded" /\ exit = "exitN")
           /\ GiveUp(p)
  /\ UNCHANGED <<disk, kept>>

\* reconcile_wait_recovery_session_state
RecoverExit(p) ==
  /\ pc[p] = "recoverExit"
  /\ LET r == record[Own(p)] IN
     \/ r.state \in Active   /\ PersistAbnormal(p, r)
     \/ r.state \in Terminal /\ Conclude(p, r, "errExit")
  /\ UNCHANGED <<disk, kept>>

\* best_effort_reconcile_when_ownership_uncertain
BestEffort(p) ==
  /\ pc[p] = "uncertain"
  /\ LET r == record[Own(p)] IN
     \/ r.state \in Terminal /\ Conclude(p, r, "errExit")
     \/ r.state \in Active   /\ GiveUp(p)
  /\ UNCHANGED <<disk, kept>>

\* validate_root_summary_against_record
SummaryAgrees(p) == summary = SummaryOf(Own(p), snap[p])

ValidateSummary(p) ==
  /\ pc[p] = "summary"
  /\ \/ SummaryAgrees(p)  /\ Goto(p, back[p])
     \/ ~SummaryAgrees(p) /\ Goto(p, "rebuildLoad")
  /\ UNCHANGED <<disk, cur, snap, job, back, kept>>

\* rebuild_status_from_record
RebuildLoad(p) ==
  /\ pc[p] = "rebuildLoad"
  /\ fresh' = [fresh EXCEPT ![p] = record[Own(p)]]
  /\ Goto(p, "rebuildWrite")
  /\ UNCHANGED <<disk, cur, snap, job, back, want, orphaned>>

RebuildWrite(p) ==
  /\ pc[p] = "rebuildWrite"
  /\ \/ /\ summary' = SummaryOf(Own(p), fresh[p])
        /\ Goto(p, "revalidate")
     \/ /\ IoFaults
        /\ Goto(p, "errExit")
        /\ UNCHANGED summary
  /\ fresh' = [fresh EXCEPT ![p] = NoRecord]
  /\ UNCHANGED <<record, lease, cur, snap, job, back, want, orphaned>>

\* Variant of Revalidate: rebuild until the summary agrees.
RevalidateRetrying(p) ==
  /\ pc[p] = "revalidate"
  /\ \/ SummaryAgrees(p)  /\ Goto(p, back[p])
     \/ ~SummaryAgrees(p) /\ Goto(p, "rebuildLoad")
  /\ UNCHANGED <<disk, cur, snap, job, back, kept>>

Revalidate(p) ==
  /\ pc[p] = "revalidate"
  /\ \/ SummaryAgrees(p)  /\ Goto(p, back[p])
     \/ ~SummaryAgrees(p) /\ Goto(p, "errExit")
  /\ UNCHANGED <<disk, cur, snap, job, back, kept>>

\* The lease ends with the value that owns it.
Orphans(p) == IF RuntimeAlive(Own(p)) /\ lease[Own(p)] = p THEN {Own(p)} ELSE {}

ClearLocals(p) ==
  /\ cur'   = [cur EXCEPT ![p] = None]
  /\ snap'  = [snap EXCEPT ![p] = NoRecord]
  /\ job'   = [job EXCEPT ![p] = NoJob]
  /\ back'  = [back EXCEPT ![p] = None]
  /\ want'  = [want EXCEPT ![p] = None]
  /\ fresh' = [fresh EXCEPT ![p] = NoRecord]

Exit(p) ==
  /\ \/ pc[p] = "okExit"  /\ Goto(p, "ok")
     \/ pc[p] = "errExit" /\ Goto(p, "err")
  /\ Release(p)
  /\ orphaned' = orphaned \cup Orphans(p)
  /\ ClearLocals(p)
  /\ UNCHANGED store

SuperviseStep(p) ==
  \/ FailLaunch(p) \/ Spawn(p) \/ ObserveExit(p) \/ WaitFails(p)
  \/ ReconcileExit(p) \/ RecoverExit(p) \/ BestEffort(p)
  \/ ValidateSummary(p) \/ RebuildLoad(p) \/ RebuildWrite(p) \/ Revalidate(p)
  \/ Exit(p)

\* p is killed: its locks are gone, a runtime it spawned lives on.
Crash(p) ==
  /\ Own(p) \in CrashProne
  /\ pc[p] \notin Ended \cup {"off"}
  /\ Goto(p, "crashed")
  /\ Release(p)
  /\ orphaned' = orphaned \cup Orphans(p)
  /\ ClearLocals(p)
  /\ UNCHANGED store

-----------------------------------------------------------------------------
(* The source runtime p: bind_runtime_session, enter_running, the handler  *)
(* and the terminal transition of run_http_runtime_invocation.             *)

\* The session has to be Prepared, and the invocation admitted and in agreement
\* with its record.
Bind(p) ==
  /\ pc[p] = "bind"
  /\ \/ /\ record[Own(p)].state = "prepared"
        /\ snap' = [snap EXCEPT ![p] = record[Own(p)]]
        /\ Goto(p, "bindLease")
     \/ /\ Goto(p, "exitN")
        /\ UNCHANGED snap
  /\ UNCHANGED <<disk, cur, job, back, kept>>

\* inspect_session_lease takes a free lock for a moment to find it free.
BindLease(p) ==
  /\ pc[p] = "bindLease"
  /\ \/ /\ ~FreeLease(Own(p))
        /\ Transition(p, Own(p), "running", None, snap[p].rev, "handler", "exitN")
        /\ UNCHANGED <<lease, snap>>
     \/ /\ FreeLease(Own(p))
        /\ Acquire(p, Own(p))
        /\ Goto(p, "unboundDrop")
        /\ UNCHANGED <<cur, snap, job>>
  /\ UNCHANGED <<store, back, kept>>

\* A handler's Core call validates the lease the same way before it acts.
HandlerInspects(p) ==
  /\ pc[p] = "handler"
  /\ FreeLease(Own(p))
  /\ Acquire(p, Own(p))
  /\ Goto(p, "handlerDrop")
  /\ UNCHANGED <<store, cur, snap, job, back, kept>>

InspectionDrop(p) ==
  /\ \/ pc[p] = "unboundDrop" /\ Goto(p, "exitN")
     \/ pc[p] = "handlerDrop" /\ Goto(p, "handler")
  /\ Release(p)
  /\ UNCHANGED <<store, cur, snap, job, back, kept>>

\* The handler returned Ok, returned an error, or panicked.
HandlerReturns(p) ==
  /\ pc[p] = "handler"
  /\ \/ Transition(p, Own(p), "succeeded", None, snap[p].rev, "exit0", "exitN")
     \/ Transition(p, Own(p), "failed", "source", snap[p].rev, "exitN", "exitN")
     \/ Transition(p, Own(p), "failed", "panic", snap[p].rev, "exitN", "exitN")
  /\ UNCHANGED <<disk, snap, back, kept>>

\* The source-state directory is not ready, or source code ends the process.
RuntimeExits(p) ==
  /\ pc[p] = "handler"
  /\ \E exit \in {"exit0", "exitN"} : Goto(p, exit)
  /\ UNCHANGED <<disk, cur, snap, job, back, kept>>

\* A signal kills the runtime at any point.
RuntimeKilled(p) ==
  /\ Own(p) \in KillProne
  /\ pc[p] \notin RuntimeGone
  /\ Return(p, NoRecord, "killed")
  /\ Release(p)
  /\ UNCHANGED <<store, cur, back, kept>>

RuntimeStep(p) ==
  \/ Bind(p) \/ BindLease(p) \/ HandlerInspects(p) \/ InspectionDrop(p)
  \/ HandlerReturns(p) \/ RuntimeExits(p) \/ RuntimeKilled(p)

-----------------------------------------------------------------------------
Init ==
  /\ record   = [s \in Sessions |-> NoRecord]
  /\ summary  = NoSummary
  /\ lease    = [s \in Sessions |-> Nobody]
  /\ pc       = [p \in Processes |-> IF p[1] = "cli" THEN "start" ELSE "off"]
  /\ cur      = [p \in Processes |-> None]
  /\ snap     = [p \in Processes |-> NoRecord]
  /\ job      = [p \in Processes |-> NoJob]
  /\ back     = [p \in Processes |-> None]
  /\ want     = [p \in Processes |-> None]
  /\ fresh    = [p \in Processes |-> NoRecord]
  /\ orphaned = {}

SharedStep(p) == StoreStep(p) /\ UNCHANGED kept

CliStep(s) ==
  \/ SharedStep(Cli(s)) \/ SelectionStep(Cli(s)) \/ SuperviseStep(Cli(s))
  \/ Crash(Cli(s))

Next ==
  \E s \in Sessions :
    \/ CliStep(s)
    \/ SharedStep(Runtime(s))
    \/ RuntimeStep(Runtime(s))

Spec == Init /\ [][Next]_vars

\* Processes are scheduled, nothing more: a CLI or a runtime that can take its
\* next step takes it.  That handlers end (SF: a handler makes finitely many
\* Core calls) is an assumption on source code.  Nothing forces a crash, a
\* kill or a fault.
FairSpec ==
  /\ Spec
  /\ \A s \in Sessions :
       /\ WF_vars(SharedStep(Cli(s)) \/ SelectionStep(Cli(s)) \/ SuperviseStep(Cli(s)))
       /\ WF_vars(SharedStep(Runtime(s)) \/ Bind(Runtime(s)) \/ BindLease(Runtime(s))
                  \/ InspectionDrop(Runtime(s)))
       /\ SF_vars(HandlerReturns(Runtime(s)) \/ RuntimeExits(Runtime(s)))

-----------------------------------------------------------------------------
(* Safety.                                                                 *)

Steps ==
  {"off", "start", "select", "classify", "assess", "assessLoad", "assessed",
   "abandoned", "reconcile", "reconcileLock", "reconcileDrop",
   "txLoad", "txWrite", "txSummary", "create", "createSummary", "acquire",
   "launch", "wait", "reconcileExit", "recoverExit", "uncertain", "summary",
   "rebuildLoad", "rebuildWrite", "revalidate", "okExit", "errExit",
   "bind", "bindLease", "unboundDrop", "handler", "handlerDrop",
   "exit0", "exitN", "killed",
   "spawnHost", "poll", "pollAck", "pollDeadline", "killHost", "abort",
   "release", "released", "hostStart", "hostAck", "hostAckWrite", "hostLoad",
   "hostLock", "hostRetry"} \cup Ended

\* Type invariant: documents, leases, and the control state of the processes
\* (the last steps are those of a hand-over, see BackgroundExecution);
\* every operation knows the step it returns to.
TypeOK ==
  /\ record \in [Sessions -> SessionRecords \cup {NoRecord}]
  /\ summary \in Summaries \cup {NoSummary}
  /\ lease \in [Sessions -> Processes \cup {Nobody}]
  /\ pc \in [Processes -> Steps]
  /\ cur \in [Processes -> Sessions \cup {None}]
  /\ snap \in [Processes -> SessionRecords \cup {NoRecord}]
  /\ job \in [Processes -> Jobs(Steps) \cup {NoJob}]
  /\ back \in [Processes -> Steps \cup {None}]
  /\ want \in [Processes -> {"run", "resume", "abandon", None}]
  /\ fresh \in [Processes -> SessionRecords \cup {NoRecord}]
  /\ orphaned \in SUBSET Sessions

\* Whatever sequence of transitions, reconciliations, abandonments and faults
\* a session goes through, its session.json is one that from_json accepts: a
\* record that does not load would block every later invocation.
RecordsLoadable ==
  \A s \in Sessions : record[s] # NoRecord => ValidRecord(record[s])

\* What one durable change of the record of s may be: its creation, or one
\* transition of the table with the next revision.
LegalStep(s) ==
  record'[s] # record[s] =>
    \/ record[s] = NoRecord /\ record'[s] = NewPrepared
    \/ /\ Legal(record[s].state, record'[s].state)
       /\ record'[s].rev = record[s].rev + 1

\* As long as the runtime of a session has not outlived the lease, what is
\* durable moves by single legal transitions only, although `transition`
\* checks the revision long before it renames: the lease, not the revision,
\* keeps a reconciler, a supervisor and the runtime from overwriting each other.
DurableTransitionsLegal ==
  [][\A s \in Sessions \ orphaned : LegalStep(s)]_vars

\* The same at the moment between check and rename: no process is about to
\* rename a record computed from one that has been replaced meanwhile.
CheckedRevisionCurrent ==
  \A p \in Processes :
    (pc[p] = "txWrite" /\ cur[p] \notin orphaned) =>
      \/ record[cur[p]] = snap[p]
      \/ /\ Legal(record[cur[p]].state, snap[p].state)
         /\ snap[p].rev = record[cur[p]].rev + 1

\* The root summary may lag behind the record of the session it names (a
\* failed or late summary write) but never tells what no record says.
SummaryNeverAhead ==
  LET s == summary.session IN
  (summary # NoSummary /\ s \notin orphaned) =>
    \/ summary.rev < record[s].rev
    \/ summary = SummaryOf(s, record[s])

\* A foreground invocation reports success only for a session whose record is
\* succeeded and whose runtime exited with code zero (outcome.rs), whatever
\* other invocations did to the store in the meantime.
SuccessOutcomeSound ==
  \A s \in Sessions :
    pc[Cli(s)] \in {"okExit", "ok"} =>
      record[s].state = "succeeded" /\ pc[Runtime(s)] = "exit0"

\* A record becomes succeeded only by the runtime's own transition after its
\* handler returned Ok, never because a process disappeared or exited with zero.
SuccessOnlyByHandler ==
  [][\A s \in Sessions :
       (record'[s].state = "succeeded" /\ record[s].state # "succeeded") =>
         /\ pc[Runtime(s)] = "txWrite"
         /\ job[Runtime(s)].to = "succeeded"]_vars

\* A session is failed as stale only while no process supervises it: its
\* invocation has ended, or has not acquired the lease of the new session yet.
StaleOnlyUnsupervised ==
  [][\A s \in Sessions :
       (record'[s].failure = "stale" /\ record[s].failure # "stale") =>
         /\ lease[s] \notin {Cli(s), Runtime(s)}
         /\ pc[Cli(s)] \in {"createSummary", "acquire", "errExit"} \cup Ended]_vars

\* --abandon-past-fail discards failures only: a prepared or running session
\* is failed first (as stale), so a live one is never abandoned.
OnlyFailuresAbandoned ==
  [][\A s \in Sessions \ orphaned :
       (record'[s].state = "abandoned" /\ record[s].state # "abandoned") =>
         record[s].state = "failed"]_vars

-----------------------------------------------------------------------------
(* Liveness, under FairSpec and without write and wait faults.             *)

\* Every invocation ends: no reconciliation, no summary repair and no wait for
\* the child goes on for ever.
InvocationsEnd == \A s \in Sessions : <>(pc[Cli(s)] \in Ended)

\* A launched session whose supervisor is not killed gets a terminal record,
\* however its runtime ends and whatever other invocations do.
SupervisedSessionsTerminate ==
  \A s \in Sessions \ CrashProne :
    pc[Cli(s)] = "launch" ~> record[s].state \in Terminal

\* A session whose owner and runtime are gone is failed or abandoned by the
\* next invocation that finds it in the root summary.
StaleIsReconciled ==
  \A s \in CrashProne, t \in Sessions \ CrashProne :
    (/\ pc[Cli(s)] = "crashed" /\ ~RuntimeAlive(s)
     /\ summary.session = s /\ pc[Cli(t)] = "start")
    ~> record[s].state \in Terminal
=============================================================================
