------------------------ MODULE SessionSafety_proofs ------------------------
(***************************************************************************)
(* Theorems about DataExecution and BackgroundExecution, for any set of    *)
(* sessions, any crash-prone invocations and with or without faults.       *)
(*                                                                         *)
(* First, DataExecution: its inductive invariant IInv adds to the type     *)
(* invariant what each process relies on at each step (ProcessOK): the     *)
(* session it works on, the step it returns to, the documents it holds,    *)
(* and, inside a transition, that the job is one some operation started.   *)
(*                                                                         *)
(* Then the lease discipline of both specifications and the safety it      *)
(* gives: as long as the runtime of a session has not outlived its         *)
(* supervisor's lease,                                                     *)
(*                                                                         *)
(*   - at most one process is inside a transition of the session, other    *)
(*     than abandonments, which touch failed sessions only (OneWriter);    *)
(*   - hence a record is never overwritten by a stale one.                 *)
(*                                                                         *)
(* LInv is the strengthening: who holds which lease at which step          *)
(* (HoldOK, ReconcilerOK, BossOK), how far initiator and host of a         *)
(* hand-over may be at the same time (HandoffOK), what a pending write was *)
(* computed from (WriteOK), and which documents are at most behind the     *)
(* record (BehindOK).  Its conjuncts speak of the supervisor of a session, *)
(* Boss(s): the invocation, or its operator host once that has started.    *)
(* So the lemmas about shared steps serve both specifications.             *)
(*                                                                         *)
(* Last, BackgroundExecution implements SessionLedger: HistoryInv says     *)
(* what records and pending summaries tell of a session's history, and     *)
(* each step is one of the ledger's or shows nothing.                      *)
(***************************************************************************)
EXTENDS BackgroundExecution, SequenceTheorems, TLAPS

TxSteps        == {"txLoad", "txWrite", "txSummary"}
ReconcileSteps == {"reconcile", "reconcileLock", "reconcileDrop"}
SummarySteps   == {"summary", "rebuildLoad", "rebuildWrite", "revalidate"}

\* The steps that use cur[p].
CurSteps == TxSteps \cup ReconcileSteps \cup {"classify", "assessLoad", "assessed"}

\* The steps that follow the creation of the own session.
OwnSteps ==
  SummarySteps \cup {"createSummary", "acquire", "launch", "wait",
                     "reconcileExit", "recoverExit", "uncertain",
                     "spawnHost", "poll", "pollAck", "pollDeadline", "killHost",
                     "abort", "release", "hostLock"}

ReconcileReturn(p) == back[p] \in {"select", "assessed"}
SummaryReturn(p)   == back[p] \in {"okExit", "errExit"}
OwnRecordExists(p) == record[Own(p)] \in SessionRecords

\* A transition in progress.
JobOK(p) ==
  /\ job[p] \in Jobs(Steps)
  /\ job[p].done \in {"reconcileDrop", "abandoned", "summary", "handler",
                      "errExit", "exit0", "exitN"}
  /\ job[p].fail \in {"errExit", "exitN"}
  /\ job[p].done = "reconcileDrop" => ReconcileReturn(p)
  /\ job[p].done = "summary" => SummaryReturn(p) /\ OwnRecordExists(p)
  /\ job[p].to = "failed" => job[p].why \in Failures
  /\ job[p].to = "succeeded" => p[1] = "runtime" /\ cur[p] = Own(p)

ProcessOK(p) ==
  /\ pc[p] \in CurSteps => cur[p] \in Sessions
  /\ pc[p] \in ReconcileSteps => ReconcileReturn(p)
  /\ pc[p] \in SummarySteps => SummaryReturn(p)
  /\ pc[p] \in OwnSteps => OwnRecordExists(p)
  /\ pc[p] \in {"createSummary", "txWrite", "txSummary"} => snap[p] \in SessionRecords
  /\ pc[p] = "rebuildWrite" => fresh[p] \in SessionRecords
  /\ pc[p] \in TxSteps => JobOK(p)
  /\ pc[p] = "txWrite" => ValidRecord(snap[p]) /\ snap[p].state = job[p].to

IInv ==
  /\ TypeOK
  /\ RecordsLoadable
  /\ \A p \in Processes : ProcessOK(p)

-----------------------------------------------------------------------------
(* Processes and the sessions they stand for.                              *)

LEMMA ProcessParts ==
  ASSUME NEW s \in Sessions
  PROVE  /\ Cli(s) \in Processes /\ Own(Cli(s)) = s
         /\ Runtime(s) \in Processes /\ Own(Runtime(s)) = s /\ Runtime(s)[1] = "runtime"
         /\ Cli(s) # Runtime(s)
BY DEF Cli, Runtime, Own, Processes

LEMMA OwnIsSession == \A p \in Processes : Own(p) \in Sessions
BY DEF Own, Processes

\* What the provers need of records and steps, without the definitions.
LEMMA RecordFacts ==
  /\ NoRecord \notin SessionRecords
  /\ NewPrepared \in SessionRecords /\ ValidRecord(NewPrepared)
  /\ NoRecord.rev \in Nat /\ NoRecord.state = None
  /\ None \notin States
<1>1. None \notin States
  BY DEF None, States
<1>2. NoRecord \notin SessionRecords
  BY <1>1 DEF NoRecord, SessionRecords
<1>3. NewPrepared \in SessionRecords
  BY DEF NewPrepared, SessionRecords, States, None
<1>4. ValidRecord(NewPrepared)
  BY DEF NewPrepared, ValidRecord, Terminal, None
<1>5. NoRecord.rev \in Nat /\ NoRecord.state = None
  BY DEF NoRecord
<1> QED BY <1>1, <1>2, <1>3, <1>4, <1>5

\* A legal transition of a record, with a reason if it is a failure, gives a
\* record that loads and is in the target state.
LEMMA ApplyTransitionValid ==
  ASSUME NEW r \in SessionRecords \cup {NoRecord}, r # NoRecord => ValidRecord(r),
         NEW to \in States, NEW why \in Failures \cup {None},
         to = "failed" => why \in Failures,
         Legal(r.state, to)
  PROVE  /\ ApplyTransition(r, to, why) \in SessionRecords
         /\ ValidRecord(ApplyTransition(r, to, why))
         /\ ApplyTransition(r, to, why).state = to
<1> DEFINE r2 == ApplyTransition(r, to, why)
<1>1. r \in SessionRecords /\ ValidRecord(r)
  BY RecordFacts DEF Legal, NoRecord, None
<1>2. /\ r.state \in States /\ r.rev \in Nat /\ r.started \in BOOLEAN
      /\ r.finished \in BOOLEAN /\ r.failure \in Failures \cup {None}
  BY <1>1 DEF SessionRecords
<1>3. r2.failure \in Failures \cup {None}
  BY <1>2 DEF ApplyTransition
<1>4. r2 \in SessionRecords /\ r2.state = to
  BY <1>2, <1>3 DEF ApplyTransition, SessionRecords
<1>5. ValidRecord(r2)
  BY <1>1, <1>2 DEF ApplyTransition, ValidRecord, Legal, Terminal, States, Failures, None
<1> QED BY <1>4, <1>5

-----------------------------------------------------------------------------
(* What a step of p has to show.                                           *)

LocalTypes(p) ==
  /\ pc[p] \in Steps
  /\ cur[p] \in Sessions \cup {None}
  /\ snap[p] \in SessionRecords \cup {NoRecord}
  /\ job[p] \in Jobs(Steps) \cup {NoJob}
  /\ back[p] \in Steps \cup {None}
  /\ want[p] \in {"run", "resume", "abandon", None}
  /\ fresh[p] \in SessionRecords \cup {NoRecord}

\* A step that changes the locals of p alone.
LocalStep(p) ==
  /\ pc'    = [pc EXCEPT ![p] = pc'[p]]
  /\ cur'   = [cur EXCEPT ![p] = cur'[p]]
  /\ snap'  = [snap EXCEPT ![p] = snap'[p]]
  /\ job'   = [job EXCEPT ![p] = job'[p]]
  /\ back'  = [back EXCEPT ![p] = back'[p]]
  /\ want'  = [want EXCEPT ![p] = want'[p]]
  /\ fresh' = [fresh EXCEPT ![p] = fresh'[p]]

DiskTypes ==
  /\ record \in [Sessions -> SessionRecords \cup {NoRecord}]
  /\ summary \in Summaries \cup {NoSummary}
  /\ lease \in [Sessions -> Processes \cup {Nobody}]
  /\ orphaned \in SUBSET Sessions

\* Records are replaced, never removed.
RecordsStay ==
  \A s \in Sessions : record[s] \in SessionRecords => record'[s] \in SessionRecords

LEMMA IInvAt ==
  ASSUME IInv, NEW p \in Processes
  PROVE  LocalTypes(p) /\ DiskTypes /\ ProcessOK(p)
BY DEF IInv, TypeOK, LocalTypes, DiskTypes

\* A process that is not touched stays as it was.
LEMMA UntouchedProcess ==
  ASSUME NEW q \in Processes, ProcessOK(q), RecordsStay,
         pc'[q] = pc[q], cur'[q] = cur[q], snap'[q] = snap[q],
         job'[q] = job[q], back'[q] = back[q], fresh'[q] = fresh[q]
  PROVE  ProcessOK(q)'
<1>1. OwnRecordExists(q) => OwnRecordExists(q)'
  BY OwnIsSession DEF OwnRecordExists, RecordsStay
<1>2. JobOK(q) => JobOK(q)'
  BY <1>1 DEF JobOK, ReconcileReturn, SummaryReturn
<1> QED BY <1>1, <1>2 DEF ProcessOK, ReconcileReturn, SummaryReturn

LEMMA LocalStepKeeps ==
  ASSUME IInv, NEW p \in Processes, LocalStep(p), LocalTypes(p)', ProcessOK(p)',
         DiskTypes', RecordsLoadable', RecordsStay
  PROVE  IInv'
<1>1. TypeOK'
  BY DEF IInv, TypeOK, LocalStep, LocalTypes, DiskTypes
<1>2. ASSUME NEW q \in Processes PROVE ProcessOK(q)'
  <2>1. CASE q = p
    BY <2>1
  <2>2. CASE q # p
    <3>1. /\ pc'[q] = pc[q] /\ cur'[q] = cur[q] /\ snap'[q] = snap[q]
          /\ job'[q] = job[q] /\ back'[q] = back[q] /\ fresh'[q] = fresh[q]
      BY <2>2 DEF LocalStep, IInv, TypeOK
    <3>2. ProcessOK(q)
      BY DEF IInv
    <3> QED BY <3>1, <3>2, UntouchedProcess
  <2> QED BY <2>1, <2>2
<1> QED BY <1>1, <1>2 DEF IInv

\* The same for a step that leaves the documents alone.
LEMMA QuietStepKeeps ==
  ASSUME IInv, NEW p \in Processes, LocalStep(p), LocalTypes(p)', ProcessOK(p)',
         UNCHANGED store,
         lease' \in [Sessions -> Processes \cup {Nobody}],
         orphaned' \in SUBSET Sessions
  PROVE  IInv'
<1>1. DiskTypes' /\ RecordsStay
  BY DEF IInv, TypeOK, DiskTypes, RecordsStay, store
<1>2. RecordsLoadable'
  BY DEF IInv, RecordsLoadable, store
<1> QED BY <1>1, <1>2, LocalStepKeeps

\* Leases stay leases.
LEMMA LeaseTypes ==
  ASSUME NEW p \in Processes, NEW s \in Sessions,
         lease \in [Sessions -> Processes \cup {Nobody}]
  PROVE  /\ Acquire(p, s) => lease' \in [Sessions -> Processes \cup {Nobody}]
         /\ Release(p) => lease' \in [Sessions -> Processes \cup {Nobody}]
BY DEF Acquire, Release

-----------------------------------------------------------------------------
(* Selection.                                                              *)

LEMMA StartKeeps ==
  ASSUME IInv, NEW p \in Processes, Start(p)
  PROVE  IInv'
<1>1. LocalTypes(p) /\ DiskTypes /\ ProcessOK(p)
  BY IInvAt
<1>2. LocalStep(p) 
  BY DEF Start, LocalStep, IInv, TypeOK, Goto, kept
<1>3. LocalTypes(p)' /\ ProcessOK(p)'
  BY <1>1 DEF Start, IInv, TypeOK, Goto, kept, LocalTypes, DiskTypes, ProcessOK, Steps, NamesCurrent, Summaries,
    CurSteps, ReconcileSteps, SummarySteps, OwnSteps, TxSteps, ReconcileReturn
<1> QED BY <1>1, <1>2, <1>3, QuietStepKeeps DEF Start, disk, store, kept, DiskTypes

LEMMA SelectKeeps ==
  ASSUME IInv, NEW p \in Processes, Select(p)
  PROVE  IInv'
<1>1. LocalTypes(p) /\ DiskTypes /\ ProcessOK(p)
  BY IInvAt
<1>2. LocalStep(p)
  BY DEF IInv, TypeOK, LocalStep, kept, Goto, Select
<1>3. LocalTypes(p)' /\ ProcessOK(p)'
  BY <1>1, OwnIsSession, RecordFacts
    DEF IInv, TypeOK, LocalTypes, DiskTypes, disk, store, kept, Goto, Steps,
    Ended, ProcessOK, CurSteps, ReconcileSteps, SummarySteps, OwnSteps,
    TxSteps, ReconcileReturn, SummaryReturn, OwnRecordExists, Select,
    Summaries, NamesCurrent
<1> QED
  BY <1>1, <1>2, <1>3, QuietStepKeeps, OwnIsSession, LeaseTypes
    DEF DiskTypes, disk, store, kept, Select

LEMMA ClassifyKeeps ==
  ASSUME IInv, NEW p \in Processes, Classify(p)
  PROVE  IInv'
<1>1. LocalTypes(p) /\ DiskTypes /\ ProcessOK(p)
  BY IInvAt
<1>2. LocalStep(p)
  BY DEF IInv, TypeOK, LocalStep, kept, Goto, Classify
<1>3. LocalTypes(p)' /\ ProcessOK(p)'
  BY <1>1, OwnIsSession, RecordFacts
    DEF IInv, TypeOK, LocalTypes, DiskTypes, disk, store, kept, Goto, Steps,
    Ended, ProcessOK, CurSteps, ReconcileSteps, SummarySteps, OwnSteps,
    TxSteps, ReconcileReturn, SummaryReturn, OwnRecordExists, Classify
<1> QED
  BY <1>1, <1>2, <1>3, QuietStepKeeps, OwnIsSession, LeaseTypes
    DEF DiskTypes, disk, store, kept, Classify

LEMMA AssessKeeps ==
  ASSUME IInv, NEW p \in Processes, Assess(p)
  PROVE  IInv'
<1>1. LocalTypes(p) /\ DiskTypes /\ ProcessOK(p)
  BY IInvAt
<1>2. LocalStep(p)
  BY DEF IInv, TypeOK, LocalStep, kept, Goto, Assess, Decide, Transition
<1>3. LocalTypes(p)' /\ ProcessOK(p)'
  BY <1>1, OwnIsSession, RecordFacts
    DEF IInv, TypeOK, LocalTypes, DiskTypes, disk, store, kept, Goto, Steps,
    Ended, ProcessOK, CurSteps, ReconcileSteps, SummarySteps, OwnSteps,
    TxSteps, ReconcileReturn, SummaryReturn, OwnRecordExists, Assess, Decide,
    Admits, Summaries, NamesCurrent, Transition, JobOK, Jobs, SessionRecords,
    States, Failures, None
<1> QED
  BY <1>1, <1>2, <1>3, QuietStepKeeps, OwnIsSession, LeaseTypes
    DEF DiskTypes, disk, store, kept, Assess

LEMMA AssessLoadKeeps ==
  ASSUME IInv, NEW p \in Processes, AssessLoad(p)
  PROVE  IInv'
<1>1. LocalTypes(p) /\ DiskTypes /\ ProcessOK(p)
  BY IInvAt
<1>2. LocalStep(p)
  BY DEF IInv, TypeOK, LocalStep, kept, Goto, AssessLoad, Decide, Transition
<1>3. LocalTypes(p)' /\ ProcessOK(p)'
  BY <1>1, OwnIsSession, RecordFacts
    DEF IInv, TypeOK, LocalTypes, DiskTypes, disk, store, kept, Goto, Steps,
    Ended, ProcessOK, CurSteps, ReconcileSteps, SummarySteps, OwnSteps,
    TxSteps, ReconcileReturn, SummaryReturn, OwnRecordExists, AssessLoad,
    Decide, Admits, Terminal, Active, Transition, JobOK, Jobs,
    SessionRecords, States, Failures, None
<1> QED
  BY <1>1, <1>2, <1>3, QuietStepKeeps, OwnIsSession, LeaseTypes
    DEF DiskTypes, disk, store, kept, AssessLoad

LEMMA AssessedKeeps ==
  ASSUME IInv, NEW p \in Processes, Assessed(p)
  PROVE  IInv'
<1>1. LocalTypes(p) /\ DiskTypes /\ ProcessOK(p)
  BY IInvAt
<1>2. LocalStep(p)
  BY DEF IInv, TypeOK, LocalStep, kept, Goto, Assessed, Decide, Transition
<1>3. LocalTypes(p)' /\ ProcessOK(p)'
  BY <1>1, OwnIsSession, RecordFacts
    DEF IInv, TypeOK, LocalTypes, DiskTypes, disk, store, kept, Goto, Steps,
    Ended, ProcessOK, CurSteps, ReconcileSteps, SummarySteps, OwnSteps,
    TxSteps, ReconcileReturn, SummaryReturn, OwnRecordExists, Assessed,
    Decide, Admits, Terminal, Active, Transition, JobOK, Jobs,
    SessionRecords, States, Failures, None
<1> QED
  BY <1>1, <1>2, <1>3, QuietStepKeeps, OwnIsSession, LeaseTypes
    DEF DiskTypes, disk, store, kept, Assessed

LEMMA AfterAbandonKeeps ==
  ASSUME IInv, NEW p \in Processes, AfterAbandon(p)
  PROVE  IInv'
<1>1. LocalTypes(p) /\ DiskTypes /\ ProcessOK(p)
  BY IInvAt
<1>2. LocalStep(p)
  BY DEF IInv, TypeOK, LocalStep, kept, Goto, AfterAbandon
<1>3. LocalTypes(p)' /\ ProcessOK(p)'
  BY <1>1, OwnIsSession, RecordFacts
    DEF IInv, TypeOK, LocalTypes, DiskTypes, disk, store, kept, Goto, Steps,
    Ended, ProcessOK, CurSteps, ReconcileSteps, SummarySteps, OwnSteps,
    TxSteps, ReconcileReturn, SummaryReturn, OwnRecordExists, AfterAbandon
<1> QED
  BY <1>1, <1>2, <1>3, QuietStepKeeps, OwnIsSession, LeaseTypes
    DEF DiskTypes, disk, store, kept, AfterAbandon

LEMMA AcquireLeaseKeeps ==
  ASSUME IInv, NEW p \in Processes, AcquireLease(p)
  PROVE  IInv'
<1>1. LocalTypes(p) /\ DiskTypes /\ ProcessOK(p)
  BY IInvAt
<1>2. LocalStep(p)
  BY DEF IInv, TypeOK, LocalStep, kept, Goto, AcquireLease
<1>3. LocalTypes(p)' /\ ProcessOK(p)'
  BY <1>1, OwnIsSession, RecordFacts
    DEF IInv, TypeOK, LocalTypes, DiskTypes, disk, store, kept, Goto, Steps,
    Ended, ProcessOK, CurSteps, ReconcileSteps, SummarySteps, OwnSteps,
    TxSteps, ReconcileReturn, SummaryReturn, OwnRecordExists, AcquireLease
<1> QED
  BY <1>1, <1>2, <1>3, QuietStepKeeps, OwnIsSession, LeaseTypes
    DEF DiskTypes, disk, store, kept, AcquireLease

LEMMA FailLaunchKeeps ==
  ASSUME IInv, NEW p \in Processes, FailLaunch(p)
  PROVE  IInv'
<1>1. LocalTypes(p) /\ DiskTypes /\ ProcessOK(p)
  BY IInvAt
<1>2. LocalStep(p)
  BY DEF IInv, TypeOK, LocalStep, kept, Goto, FailLaunch, Transition
<1>3. LocalTypes(p)' /\ ProcessOK(p)'
  BY <1>1, OwnIsSession, RecordFacts
    DEF IInv, TypeOK, LocalTypes, DiskTypes, disk, store, kept, Goto, Steps,
    Ended, ProcessOK, CurSteps, ReconcileSteps, SummarySteps, OwnSteps,
    TxSteps, ReconcileReturn, SummaryReturn, OwnRecordExists, FailLaunch,
    Transition, JobOK, Jobs, SessionRecords, States, Failures, None
<1> QED
  BY <1>1, <1>2, <1>3, QuietStepKeeps, OwnIsSession, LeaseTypes
    DEF DiskTypes, disk, store, kept, FailLaunch

LEMMA ObserveExitKeeps ==
  ASSUME IInv, NEW p \in Processes, ObserveExit(p)
  PROVE  IInv'
<1>1. LocalTypes(p) /\ DiskTypes /\ ProcessOK(p)
  BY IInvAt
<1>2. LocalStep(p)
  BY DEF IInv, TypeOK, LocalStep, kept, Goto, ObserveExit
<1>3. LocalTypes(p)' /\ ProcessOK(p)'
  BY <1>1, OwnIsSession, RecordFacts
    DEF IInv, TypeOK, LocalTypes, DiskTypes, disk, store, kept, Goto, Steps,
    Ended, ProcessOK, CurSteps, ReconcileSteps, SummarySteps, OwnSteps,
    TxSteps, ReconcileReturn, SummaryReturn, OwnRecordExists, ObserveExit
<1> QED
  BY <1>1, <1>2, <1>3, QuietStepKeeps, OwnIsSession, LeaseTypes
    DEF DiskTypes, disk, store, kept, ObserveExit

LEMMA ReconcileExitKeeps ==
  ASSUME IInv, NEW p \in Processes, ReconcileExit(p)
  PROVE  IInv'
<1>1. LocalTypes(p) /\ DiskTypes /\ ProcessOK(p)
  BY IInvAt
<1>2. LocalStep(p)
  BY DEF IInv, TypeOK, LocalStep, kept, Goto, ReconcileExit, PersistAbnormal, Conclude, GiveUp, Transition
<1>3. LocalTypes(p)' /\ ProcessOK(p)'
  BY <1>1, OwnIsSession, RecordFacts
    DEF IInv, TypeOK, LocalTypes, DiskTypes, disk, store, kept, Goto, Steps,
    Ended, ProcessOK, CurSteps, ReconcileSteps, SummarySteps, OwnSteps,
    TxSteps, ReconcileReturn, SummaryReturn, OwnRecordExists, ReconcileExit,
    PersistAbnormal, Conclude, GiveUp, Transition, JobOK, Jobs,
    SessionRecords, States, Failures, None
<1> QED
  BY <1>1, <1>2, <1>3, QuietStepKeeps, OwnIsSession, LeaseTypes
    DEF DiskTypes, disk, store, kept, ReconcileExit

LEMMA RecoverExitKeeps ==
  ASSUME IInv, NEW p \in Processes, RecoverExit(p)
  PROVE  IInv'
<1>1. LocalTypes(p) /\ DiskTypes /\ ProcessOK(p)
  BY IInvAt
<1>2. LocalStep(p)
  BY DEF IInv, TypeOK, LocalStep, kept, Goto, RecoverExit, PersistAbnormal, Conclude, Transition
<1>3. LocalTypes(p)' /\ ProcessOK(p)'
  BY <1>1, OwnIsSession, RecordFacts
    DEF IInv, TypeOK, LocalTypes, DiskTypes, disk, store, kept, Goto, Steps,
    Ended, ProcessOK, CurSteps, ReconcileSteps, SummarySteps, OwnSteps,
    TxSteps, ReconcileReturn, SummaryReturn, OwnRecordExists, RecoverExit,
    PersistAbnormal, Conclude, Transition, JobOK, Jobs, SessionRecords,
    States, Failures, None
<1> QED
  BY <1>1, <1>2, <1>3, QuietStepKeeps, OwnIsSession, LeaseTypes
    DEF DiskTypes, disk, store, kept, RecoverExit

LEMMA BestEffortKeeps ==
  ASSUME IInv, NEW p \in Processes, BestEffort(p)
  PROVE  IInv'
<1>1. LocalTypes(p) /\ DiskTypes /\ ProcessOK(p)
  BY IInvAt
<1>2. LocalStep(p)
  BY DEF IInv, TypeOK, LocalStep, kept, Goto, BestEffort, Conclude, GiveUp
<1>3. LocalTypes(p)' /\ ProcessOK(p)'
  BY <1>1, OwnIsSession, RecordFacts
    DEF IInv, TypeOK, LocalTypes, DiskTypes, disk, store, kept, Goto, Steps,
    Ended, ProcessOK, CurSteps, ReconcileSteps, SummarySteps, OwnSteps,
    TxSteps, ReconcileReturn, SummaryReturn, OwnRecordExists, BestEffort,
    Conclude, GiveUp
<1> QED
  BY <1>1, <1>2, <1>3, QuietStepKeeps, OwnIsSession, LeaseTypes
    DEF DiskTypes, disk, store, kept, BestEffort

LEMMA ValidateSummaryKeeps ==
  ASSUME IInv, NEW p \in Processes, ValidateSummary(p)
  PROVE  IInv'
<1>1. LocalTypes(p) /\ DiskTypes /\ ProcessOK(p)
  BY IInvAt
<1>2. LocalStep(p)
  BY DEF IInv, TypeOK, LocalStep, kept, Goto, ValidateSummary
<1>3. LocalTypes(p)' /\ ProcessOK(p)'
  BY <1>1, OwnIsSession, RecordFacts
    DEF IInv, TypeOK, LocalTypes, DiskTypes, disk, store, kept, Goto, Steps,
    Ended, ProcessOK, CurSteps, ReconcileSteps, SummarySteps, OwnSteps,
    TxSteps, ReconcileReturn, SummaryReturn, OwnRecordExists, ValidateSummary
<1> QED
  BY <1>1, <1>2, <1>3, QuietStepKeeps, OwnIsSession, LeaseTypes
    DEF DiskTypes, disk, store, kept, ValidateSummary

LEMMA RebuildLoadKeeps ==
  ASSUME IInv, NEW p \in Processes, RebuildLoad(p)
  PROVE  IInv'
<1>1. LocalTypes(p) /\ DiskTypes /\ ProcessOK(p)
  BY IInvAt
<1>2. LocalStep(p)
  BY DEF IInv, TypeOK, LocalStep, kept, Goto, RebuildLoad
<1>3. LocalTypes(p)' /\ ProcessOK(p)'
  BY <1>1, OwnIsSession, RecordFacts
    DEF IInv, TypeOK, LocalTypes, DiskTypes, disk, store, kept, Goto, Steps,
    Ended, ProcessOK, CurSteps, ReconcileSteps, SummarySteps, OwnSteps,
    TxSteps, ReconcileReturn, SummaryReturn, OwnRecordExists, RebuildLoad
<1> QED
  BY <1>1, <1>2, <1>3, QuietStepKeeps, OwnIsSession, LeaseTypes
    DEF DiskTypes, disk, store, kept, RebuildLoad

LEMMA RevalidateKeeps ==
  ASSUME IInv, NEW p \in Processes, Revalidate(p)
  PROVE  IInv'
<1>1. LocalTypes(p) /\ DiskTypes /\ ProcessOK(p)
  BY IInvAt
<1>2. LocalStep(p)
  BY DEF IInv, TypeOK, LocalStep, kept, Goto, Revalidate
<1>3. LocalTypes(p)' /\ ProcessOK(p)'
  BY <1>1, OwnIsSession, RecordFacts
    DEF IInv, TypeOK, LocalTypes, DiskTypes, disk, store, kept, Goto, Steps,
    Ended, ProcessOK, CurSteps, ReconcileSteps, SummarySteps, OwnSteps,
    TxSteps, ReconcileReturn, SummaryReturn, OwnRecordExists, Revalidate
<1> QED
  BY <1>1, <1>2, <1>3, QuietStepKeeps, OwnIsSession, LeaseTypes
    DEF DiskTypes, disk, store, kept, Revalidate

LEMMA ExitKeeps ==
  ASSUME IInv, NEW p \in Processes, Exit(p)
  PROVE  IInv'
<1>1. LocalTypes(p) /\ DiskTypes /\ ProcessOK(p)
  BY IInvAt
<1>2. LocalStep(p)
  BY DEF IInv, TypeOK, LocalStep, kept, Goto, Exit, ClearLocals
<1>3. LocalTypes(p)' /\ ProcessOK(p)'
  BY <1>1, OwnIsSession, RecordFacts
    DEF IInv, TypeOK, LocalTypes, DiskTypes, disk, store, kept, Goto, Steps,
    Ended, ProcessOK, CurSteps, ReconcileSteps, SummarySteps, OwnSteps,
    TxSteps, ReconcileReturn, SummaryReturn, OwnRecordExists, Exit,
    ClearLocals, NoJob
<1> QED
  BY <1>1, <1>2, <1>3, QuietStepKeeps, OwnIsSession, LeaseTypes
    DEF DiskTypes, disk, store, kept, Exit, Orphans

LEMMA CrashKeeps ==
  ASSUME IInv, NEW p \in Processes, Crash(p)
  PROVE  IInv'
<1>1. LocalTypes(p) /\ DiskTypes /\ ProcessOK(p)
  BY IInvAt
<1>2. LocalStep(p)
  BY DEF IInv, TypeOK, LocalStep, kept, Goto, Crash, ClearLocals
<1>3. LocalTypes(p)' /\ ProcessOK(p)'
  BY <1>1, OwnIsSession, RecordFacts
    DEF IInv, TypeOK, LocalTypes, DiskTypes, disk, store, kept, Goto, Steps,
    Ended, ProcessOK, CurSteps, ReconcileSteps, SummarySteps, OwnSteps,
    TxSteps, ReconcileReturn, SummaryReturn, OwnRecordExists, Crash,
    ClearLocals, NoJob
<1> QED
  BY <1>1, <1>2, <1>3, QuietStepKeeps, OwnIsSession, LeaseTypes
    DEF DiskTypes, disk, store, kept, Crash, Orphans

LEMMA BindKeeps ==
  ASSUME IInv, NEW p \in Processes, Bind(p)
  PROVE  IInv'
<1>1. LocalTypes(p) /\ DiskTypes /\ ProcessOK(p)
  BY IInvAt
<1>2. LocalStep(p)
  BY DEF IInv, TypeOK, LocalStep, kept, Goto, Bind
<1>3. LocalTypes(p)' /\ ProcessOK(p)'
  BY <1>1, OwnIsSession, RecordFacts
    DEF IInv, TypeOK, LocalTypes, DiskTypes, disk, store, kept, Goto, Steps,
    Ended, ProcessOK, CurSteps, ReconcileSteps, SummarySteps, OwnSteps,
    TxSteps, ReconcileReturn, SummaryReturn, OwnRecordExists, Bind
<1> QED
  BY <1>1, <1>2, <1>3, QuietStepKeeps, OwnIsSession, LeaseTypes
    DEF DiskTypes, disk, store, kept, Bind

LEMMA BindLeaseKeeps ==
  ASSUME IInv, NEW p \in Processes, BindLease(p)
  PROVE  IInv'
<1>1. LocalTypes(p) /\ DiskTypes /\ ProcessOK(p)
  BY IInvAt
<1>2. LocalStep(p)
  BY DEF IInv, TypeOK, LocalStep, kept, Goto, BindLease, Transition
<1>3. LocalTypes(p)' /\ ProcessOK(p)'
  BY <1>1, OwnIsSession, RecordFacts
    DEF IInv, TypeOK, LocalTypes, DiskTypes, disk, store, kept, Goto, Steps,
    Ended, ProcessOK, CurSteps, ReconcileSteps, SummarySteps, OwnSteps,
    TxSteps, ReconcileReturn, SummaryReturn, OwnRecordExists, BindLease,
    Transition, JobOK, Jobs, SessionRecords, States, Failures, None
<1> QED
  BY <1>1, <1>2, <1>3, QuietStepKeeps, OwnIsSession, LeaseTypes
    DEF DiskTypes, disk, store, kept, BindLease

LEMMA HandlerInspectsKeeps ==
  ASSUME IInv, NEW p \in Processes, HandlerInspects(p)
  PROVE  IInv'
<1>1. LocalTypes(p) /\ DiskTypes /\ ProcessOK(p)
  BY IInvAt
<1>2. LocalStep(p)
  BY DEF IInv, TypeOK, LocalStep, kept, Goto, HandlerInspects
<1>3. LocalTypes(p)' /\ ProcessOK(p)'
  BY <1>1, OwnIsSession, RecordFacts
    DEF IInv, TypeOK, LocalTypes, DiskTypes, disk, store, kept, Goto, Steps,
    Ended, ProcessOK, CurSteps, ReconcileSteps, SummarySteps, OwnSteps,
    TxSteps, ReconcileReturn, SummaryReturn, OwnRecordExists, HandlerInspects
<1> QED
  BY <1>1, <1>2, <1>3, QuietStepKeeps, OwnIsSession, LeaseTypes
    DEF DiskTypes, disk, store, kept, HandlerInspects

LEMMA InspectionDropKeeps ==
  ASSUME IInv, NEW p \in Processes, InspectionDrop(p)
  PROVE  IInv'
<1>1. LocalTypes(p) /\ DiskTypes /\ ProcessOK(p)
  BY IInvAt
<1>2. LocalStep(p)
  BY DEF IInv, TypeOK, LocalStep, kept, Goto, InspectionDrop
<1>3. LocalTypes(p)' /\ ProcessOK(p)'
  BY <1>1, OwnIsSession, RecordFacts
    DEF IInv, TypeOK, LocalTypes, DiskTypes, disk, store, kept, Goto, Steps,
    Ended, ProcessOK, CurSteps, ReconcileSteps, SummarySteps, OwnSteps,
    TxSteps, ReconcileReturn, SummaryReturn, OwnRecordExists, InspectionDrop
<1> QED
  BY <1>1, <1>2, <1>3, QuietStepKeeps, OwnIsSession, LeaseTypes
    DEF DiskTypes, disk, store, kept, InspectionDrop

LEMMA HandlerReturnsKeeps ==
  ASSUME IInv, NEW p \in Processes, HandlerReturns(p), p[1] = "runtime"
  PROVE  IInv'
<1>1. LocalTypes(p) /\ DiskTypes /\ ProcessOK(p)
  BY IInvAt
<1>2. LocalStep(p)
  BY DEF IInv, TypeOK, LocalStep, kept, Goto, HandlerReturns, Transition
<1>3. LocalTypes(p)' /\ ProcessOK(p)'
  BY <1>1, OwnIsSession, RecordFacts
    DEF IInv, TypeOK, LocalTypes, DiskTypes, disk, store, kept, Goto, Steps,
    Ended, ProcessOK, CurSteps, ReconcileSteps, SummarySteps, OwnSteps,
    TxSteps, ReconcileReturn, SummaryReturn, OwnRecordExists, HandlerReturns,
    Transition, JobOK, Jobs, SessionRecords, States, Failures, None
<1> QED
  BY <1>1, <1>2, <1>3, QuietStepKeeps, OwnIsSession, LeaseTypes
    DEF DiskTypes, disk, store, kept, HandlerReturns

LEMMA RuntimeExitsKeeps ==
  ASSUME IInv, NEW p \in Processes, RuntimeExits(p)
  PROVE  IInv'
<1>1. LocalTypes(p) /\ DiskTypes /\ ProcessOK(p)
  BY IInvAt
<1>2. LocalStep(p)
  BY DEF IInv, TypeOK, LocalStep, kept, Goto, RuntimeExits
<1>3. LocalTypes(p)' /\ ProcessOK(p)'
  BY <1>1, OwnIsSession, RecordFacts
    DEF IInv, TypeOK, LocalTypes, DiskTypes, disk, store, kept, Goto, Steps,
    Ended, ProcessOK, CurSteps, ReconcileSteps, SummarySteps, OwnSteps,
    TxSteps, ReconcileReturn, SummaryReturn, OwnRecordExists, RuntimeExits
<1> QED
  BY <1>1, <1>2, <1>3, QuietStepKeeps, OwnIsSession, LeaseTypes
    DEF DiskTypes, disk, store, kept, RuntimeExits

LEMMA RuntimeKilledKeeps ==
  ASSUME IInv, NEW p \in Processes, RuntimeKilled(p)
  PROVE  IInv'
<1>1. LocalTypes(p) /\ DiskTypes /\ ProcessOK(p)
  BY IInvAt
<1>2. LocalStep(p)
  BY DEF IInv, TypeOK, LocalStep, kept, Goto, RuntimeKilled, Return
<1>3. LocalTypes(p)' /\ ProcessOK(p)'
  BY <1>1, OwnIsSession, RecordFacts
    DEF IInv, TypeOK, LocalTypes, DiskTypes, disk, store, kept, Goto, Steps,
    Ended, ProcessOK, CurSteps, ReconcileSteps, SummarySteps, OwnSteps,
    TxSteps, ReconcileReturn, SummaryReturn, OwnRecordExists, RuntimeKilled,
    Return, RuntimeGone
<1> QED
  BY <1>1, <1>2, <1>3, QuietStepKeeps, OwnIsSession, LeaseTypes
    DEF DiskTypes, disk, store, kept, RuntimeKilled

LEMMA ReconcileLoadKeeps ==
  ASSUME IInv, NEW p \in Processes, ReconcileLoad(p), UNCHANGED kept
  PROVE  IInv'
<1>1. LocalTypes(p) /\ DiskTypes /\ ProcessOK(p)
  BY IInvAt
<1>2. LocalStep(p)
  BY DEF IInv, TypeOK, LocalStep, kept, Goto, ReconcileLoad
<1>3. LocalTypes(p)' /\ ProcessOK(p)'
  BY <1>1, OwnIsSession, RecordFacts
    DEF IInv, TypeOK, LocalTypes, DiskTypes, disk, store, kept, Goto, Steps,
    Ended, ProcessOK, CurSteps, ReconcileSteps, SummarySteps, OwnSteps,
    TxSteps, ReconcileReturn, SummaryReturn, OwnRecordExists, ReconcileLoad
<1> QED
  BY <1>1, <1>2, <1>3, QuietStepKeeps, OwnIsSession, LeaseTypes
    DEF DiskTypes, disk, store, kept, ReconcileLoad

LEMMA ReconcileDropKeeps ==
  ASSUME IInv, NEW p \in Processes, ReconcileDrop(p), UNCHANGED kept
  PROVE  IInv'
<1>1. LocalTypes(p) /\ DiskTypes /\ ProcessOK(p)
  BY IInvAt
<1>2. LocalStep(p)
  BY DEF IInv, TypeOK, LocalStep, kept, Goto, ReconcileDrop
<1>3. LocalTypes(p)' /\ ProcessOK(p)'
  BY <1>1, OwnIsSession, RecordFacts
    DEF IInv, TypeOK, LocalTypes, DiskTypes, disk, store, kept, Goto, Steps,
    Ended, ProcessOK, CurSteps, ReconcileSteps, SummarySteps, OwnSteps,
    TxSteps, ReconcileReturn, SummaryReturn, OwnRecordExists, ReconcileDrop
<1> QED
  BY <1>1, <1>2, <1>3, QuietStepKeeps, OwnIsSession, LeaseTypes
    DEF DiskTypes, disk, store, kept, ReconcileDrop

LEMMA ReconcileLockKeeps ==
  ASSUME IInv, NEW p \in Processes, ReconcileLock(p), UNCHANGED kept
  PROVE  IInv'
<1>1. LocalTypes(p) /\ DiskTypes /\ ProcessOK(p)
  BY IInvAt
<1>2. LocalStep(p)
  BY DEF IInv, TypeOK, LocalStep, kept, Goto, ReconcileLock, Transition
<1>3. LocalTypes(p)' /\ ProcessOK(p)'
  BY <1>1, OwnIsSession, RecordFacts
    DEF IInv, TypeOK, LocalTypes, DiskTypes, disk, store, kept, Goto, Steps,
    Ended, ProcessOK, CurSteps, ReconcileSteps, SummarySteps, OwnSteps,
    TxSteps, ReconcileReturn, SummaryReturn, OwnRecordExists, ReconcileLock,
    Transition, JobOK, Jobs, SessionRecords, States, Failures, None
<1>4. cur[p] \in Sessions
  BY <1>1 DEF ProcessOK, CurSteps, ReconcileSteps, ReconcileLock
<1>5. lease' \in [Sessions -> Processes \cup {Nobody}]
  BY <1>1, <1>4, LeaseTypes DEF DiskTypes, ReconcileLock
<1> QED
  BY <1>1, <1>2, <1>3, <1>5, QuietStepKeeps
    DEF DiskTypes, store, kept, ReconcileLock

LEMMA TransitionLoadKeeps ==
  ASSUME IInv, NEW p \in Processes, TransitionLoad(p), UNCHANGED kept
  PROVE  IInv'
<1> DEFINE r  == record[cur[p]]
           r2 == ApplyTransition(r, job[p].to, job[p].why)
<1>1. LocalTypes(p) /\ DiskTypes /\ ProcessOK(p)
  BY IInvAt
<1>2. LocalStep(p)
  BY DEF IInv, TypeOK, LocalStep, kept, Goto, TransitionLoad, Return
<1>3. cur[p] \in Sessions /\ JobOK(p) /\ pc[p] = "txLoad"
  BY <1>1 DEF ProcessOK, CurSteps, TxSteps, TransitionLoad
<1>4. UNCHANGED <<disk, cur, back, kept>>
  BY DEF TransitionLoad
<1>5. ASSUME Loads(r), RevisionCurrent(p), Legal(r.state, job[p].to)
      PROVE  LocalTypes(p)' /\ ProcessOK(p)'
  <2>1. /\ snap' = [snap EXCEPT ![p] = r2]
        /\ pc' = [pc EXCEPT ![p] = "txWrite"] /\ job' = job
    BY <1>5 DEF TransitionLoad, Goto
  <2>2. r \in SessionRecords \cup {NoRecord} /\ (r # NoRecord => ValidRecord(r))
    BY <1>1, <1>3 DEF DiskTypes, IInv, RecordsLoadable
  <2>3. /\ job[p].to \in States /\ job[p].why \in Failures \cup {None}
        /\ job[p].to = "failed" => job[p].why \in Failures
    BY <1>3 DEF JobOK, Jobs
  <2>4. r2 \in SessionRecords /\ ValidRecord(r2) /\ r2.state = job[p].to
    BY <1>5, <2>2, <2>3, ApplyTransitionValid
  <2>5. snap'[p] = r2 /\ pc'[p] = "txWrite" /\ job'[p] = job[p]
    BY <2>1 DEF IInv, TypeOK
  <2>6. JobOK(p)'
    BY <1>3, <1>4, <2>1
      DEF JobOK, ReconcileReturn, SummaryReturn, OwnRecordExists, disk, store
  <2>7. LocalTypes(p)'
    BY <1>1, <1>4, <2>4, <2>5 DEF LocalTypes, Steps, kept
  <2> QED
    BY <1>3, <1>4, <2>4, <2>5, <2>6, <2>7
      DEF ProcessOK, CurSteps, ReconcileSteps, SummarySteps, OwnSteps, TxSteps
<1>6. ASSUME ~(Loads(r) /\ RevisionCurrent(p) /\ Legal(r.state, job[p].to))
      PROVE  LocalTypes(p)' /\ ProcessOK(p)'
  <2>1. /\ snap' = [snap EXCEPT ![p] = NoRecord]
        /\ pc' = [pc EXCEPT ![p] = job[p].fail] /\ job' = [job EXCEPT ![p] = NoJob]
    BY <1>6 DEF TransitionLoad, Return, Goto
  <2>2. snap'[p] = NoRecord /\ pc'[p] \in {"errExit", "exitN"} /\ job'[p] = NoJob
    BY <1>3, <2>1 DEF IInv, TypeOK, JobOK
  <2> QED
    BY <1>1, <1>4, <2>2
      DEF LocalTypes, ProcessOK, Steps, CurSteps, ReconcileSteps, SummarySteps,
          OwnSteps, TxSteps, kept
<1>7. LocalTypes(p)' /\ ProcessOK(p)'
  BY <1>5, <1>6
<1> QED
  BY <1>1, <1>2, <1>4, <1>7, QuietStepKeeps DEF DiskTypes, disk, store, kept

-----------------------------------------------------------------------------
(* Steps that write a document.                                            *)

LEMMA TransitionWriteKeeps ==
  ASSUME IInv, NEW p \in Processes, TransitionWrite(p), UNCHANGED kept
  PROVE  IInv'
<1>1. LocalTypes(p) /\ DiskTypes /\ ProcessOK(p)
  BY IInvAt
<1>2. LocalStep(p)
  BY DEF IInv, TypeOK, LocalStep, kept, Goto, TransitionWrite, Return
<1>3. /\ cur[p] \in Sessions /\ JobOK(p) /\ snap[p] \in SessionRecords
      /\ ValidRecord(snap[p]) /\ pc[p] = "txWrite"
  BY <1>1 DEF ProcessOK, CurSteps, TxSteps, TransitionWrite
<1>4. \/ record' = [record EXCEPT ![cur[p]] = snap[p]]
      \/ record' = record
  BY DEF TransitionWrite
<1>5. RecordsStay /\ RecordsLoadable' /\ DiskTypes'
  BY <1>1, <1>3, <1>4, RecordFacts
    DEF RecordsStay, RecordsLoadable, DiskTypes, IInv, TransitionWrite, kept
<1>6. OwnRecordExists(p) => OwnRecordExists(p)'
  BY <1>5, OwnIsSession DEF RecordsStay, OwnRecordExists
<1>7. LocalTypes(p)' /\ ProcessOK(p)'
  BY <1>1, <1>3, <1>6
    DEF IInv, TypeOK, TransitionWrite, Return, Goto, kept, LocalTypes, Steps,
        ProcessOK, JobOK, ReconcileReturn, SummaryReturn, CurSteps,
        ReconcileSteps, SummarySteps, OwnSteps, TxSteps
<1> QED BY <1>1, <1>2, <1>5, <1>7, LocalStepKeeps

\* The summary of a record that exists is a summary.
LEMMA SummaryTypes ==
  ASSUME NEW s \in Sessions, NEW r \in SessionRecords
  PROVE  SummaryOf(s, r) \in Summaries
BY DEF SummaryOf, Summaries, SessionRecords

\* A step that writes the summary, or nothing.
LEMMA SummaryStepKeeps ==
  ASSUME IInv, NEW p \in Processes, LocalStep(p), LocalTypes(p)', ProcessOK(p)',
         UNCHANGED <<record, lease, orphaned>>,
         summary' \in Summaries \cup {NoSummary}
  PROVE  IInv'
<1>1. DiskTypes' /\ RecordsStay
  BY DEF IInv, TypeOK, DiskTypes, RecordsStay
<1>2. RecordsLoadable'
  BY DEF IInv, RecordsLoadable
<1> QED BY <1>1, <1>2, LocalStepKeeps

LEMMA TransitionSummaryKeeps ==
  ASSUME IInv, NEW p \in Processes, TransitionSummary(p), UNCHANGED kept
  PROVE  IInv'
<1>1. LocalTypes(p) /\ DiskTypes /\ ProcessOK(p)
  BY IInvAt
<1>2. LocalStep(p)
  BY DEF IInv, TypeOK, LocalStep, kept, Goto, TransitionSummary, Return
<1>3. /\ cur[p] \in Sessions /\ JobOK(p) /\ snap[p] \in SessionRecords
      /\ pc[p] = "txSummary"
  BY <1>1 DEF ProcessOK, CurSteps, TxSteps, TransitionSummary
<1>4. summary' \in Summaries \cup {NoSummary}
  BY <1>1, <1>3, SummaryTypes DEF TransitionSummary, DiskTypes
<1>5. LocalTypes(p)' /\ ProcessOK(p)'
  BY <1>1, <1>3
    DEF IInv, TypeOK, TransitionSummary, Return, Goto, kept, LocalTypes, Steps,
        ProcessOK, JobOK, ReconcileReturn, SummaryReturn, OwnRecordExists,
        CurSteps, ReconcileSteps, SummarySteps, OwnSteps, TxSteps
<1> QED
  BY <1>2, <1>4, <1>5, SummaryStepKeeps DEF TransitionSummary, kept

LEMMA CreateRecordKeeps ==
  ASSUME IInv, NEW p \in Processes, CreateRecord(p)
  PROVE  IInv'
<1>1. LocalTypes(p) /\ DiskTypes /\ ProcessOK(p) /\ Own(p) \in Sessions
  BY IInvAt, OwnIsSession
<1>2. LocalStep(p)
  BY DEF IInv, TypeOK, LocalStep, kept, Goto, CreateRecord
<1>3. \/ record' = [record EXCEPT ![Own(p)] = NewPrepared]
      \/ record' = record
  BY DEF CreateRecord
<1>4. RecordsStay /\ RecordsLoadable' /\ DiskTypes'
  BY <1>1, <1>3, RecordFacts
    DEF RecordsStay, RecordsLoadable, DiskTypes, IInv, CreateRecord, kept
<1>5. LocalTypes(p)' /\ ProcessOK(p)'
  BY <1>1, RecordFacts
    DEF IInv, TypeOK, CreateRecord, Goto, kept, LocalTypes, DiskTypes, Steps,
        ProcessOK, OwnRecordExists, CurSteps, ReconcileSteps, SummarySteps,
        OwnSteps, TxSteps
<1> QED BY <1>1, <1>2, <1>4, <1>5, LocalStepKeeps

LEMMA CreateSummaryKeeps ==
  ASSUME IInv, NEW p \in Processes, CreateSummary(p)
  PROVE  IInv'
<1>1. LocalTypes(p) /\ DiskTypes /\ ProcessOK(p) /\ Own(p) \in Sessions
  BY IInvAt, OwnIsSession
<1>2. LocalStep(p)
  BY DEF IInv, TypeOK, LocalStep, kept, Goto, CreateSummary
<1>3. snap[p] \in SessionRecords /\ OwnRecordExists(p)
  BY <1>1 DEF ProcessOK, CreateSummary, OwnSteps
<1>4. summary' \in Summaries \cup {NoSummary}
  BY <1>1, <1>3, SummaryTypes DEF CreateSummary, DiskTypes
<1>5. LocalTypes(p)' /\ ProcessOK(p)'
  BY <1>1, <1>3
    DEF IInv, TypeOK, CreateSummary, Goto, kept, LocalTypes, Steps,
        ProcessOK, OwnRecordExists, CurSteps, ReconcileSteps, SummarySteps,
        OwnSteps, TxSteps
<1> QED BY <1>2, <1>4, <1>5, SummaryStepKeeps DEF CreateSummary, kept

LEMMA RebuildWriteKeeps ==
  ASSUME IInv, NEW p \in Processes, RebuildWrite(p)
  PROVE  IInv'
<1>1. LocalTypes(p) /\ DiskTypes /\ ProcessOK(p) /\ Own(p) \in Sessions
  BY IInvAt, OwnIsSession
<1>2. LocalStep(p)
  BY DEF IInv, TypeOK, LocalStep, Goto, RebuildWrite
<1>3. fresh[p] \in SessionRecords /\ OwnRecordExists(p) /\ SummaryReturn(p)
  BY <1>1 DEF ProcessOK, RebuildWrite, OwnSteps, SummarySteps
<1>4. summary' \in Summaries \cup {NoSummary}
  BY <1>1, <1>3, SummaryTypes DEF RebuildWrite, DiskTypes
<1>5. LocalTypes(p)' /\ ProcessOK(p)'
  BY <1>1, <1>3
    DEF IInv, TypeOK, RebuildWrite, Goto, LocalTypes, Steps, ProcessOK,
        SummaryReturn, OwnRecordExists, CurSteps, ReconcileSteps,
        SummarySteps, OwnSteps, TxSteps
<1> QED BY <1>2, <1>4, <1>5, SummaryStepKeeps DEF RebuildWrite

-----------------------------------------------------------------------------
(* Steps of a supervisor that start or kill its runtime.                   *)

\* Two processes move on; nothing is written.
LEMMA TwoProcessesKeep ==
  ASSUME IInv, NEW p \in Processes, NEW q \in Processes, p # q,
         NEW next \in Steps, NEW then \in {"bind", "killed", "hostStart"},
         pc' = [pc EXCEPT ![p] = next, ![q] = then],
         next \in OwnSteps => OwnRecordExists(p),
         next \notin CurSteps \cup SummarySteps \cup {"createSummary"},
         UNCHANGED <<store, cur, snap, job, back, kept>>,
         lease' \in [Sessions -> Processes \cup {Nobody}]
  PROVE  IInv'
<1>1. TypeOK'
  BY DEF IInv, TypeOK, Steps, store, kept
<1>2. RecordsLoadable'
  BY DEF IInv, RecordsLoadable, store
<1>3. ASSUME NEW x \in Processes PROVE ProcessOK(x)'
  <2>1. CASE x = p
    <3>1. pc'[p] = next
      BY DEF IInv, TypeOK
    <3> QED
      BY <2>1, <3>1
        DEF ProcessOK, CurSteps, ReconcileSteps, SummarySteps, OwnSteps,
            TxSteps, OwnRecordExists, store
  <2>2. CASE x = q
    <3>1. pc'[q] = then
      BY DEF IInv, TypeOK
    <3> QED
      BY <2>2, <3>1
        DEF ProcessOK, CurSteps, ReconcileSteps, SummarySteps, OwnSteps, TxSteps
  <2>3. CASE x # p /\ x # q
    <3>1. pc'[x] = pc[x] /\ ProcessOK(x)
      BY <2>3 DEF IInv, TypeOK
    <3>2. RecordsStay
      BY DEF RecordsStay, store
    <3> QED BY <3>1, <3>2, UntouchedProcess DEF kept
  <2> QED BY <2>1, <2>2, <2>3
<1> QED BY <1>1, <1>2, <1>3 DEF IInv

LEMMA SpawnKeeps ==
  ASSUME IInv, NEW p \in Processes, p[1] # "runtime", Spawn(p)
  PROVE  IInv'
<1>1. /\ Runtime(Own(p)) \in Processes /\ Runtime(Own(p)) # p
  BY OwnIsSession DEF Runtime, Processes
<1>2. OwnRecordExists(p)
  BY IInvAt DEF ProcessOK, OwnSteps, Spawn
<1>3. "wait" \in Steps /\ "wait" \notin CurSteps \cup SummarySteps \cup {"createSummary"}
  BY DEF Steps, CurSteps, SummarySteps, TxSteps, ReconcileSteps
<1>4. lease' \in [Sessions -> Processes \cup {Nobody}]
  BY DEF Spawn, IInv, TypeOK, disk
<1> QED
  BY <1>1, <1>2, <1>3, <1>4, TwoProcessesKeep DEF Spawn, disk, store

LEMMA WaitFailsKeeps ==
  ASSUME IInv, NEW p \in Processes, p[1] # "runtime", WaitFails(p)
  PROVE  IInv'
<1>1. /\ Runtime(Own(p)) \in Processes /\ Runtime(Own(p)) # p
  BY OwnIsSession DEF Runtime, Processes
<1>2. LocalTypes(p) /\ DiskTypes /\ ProcessOK(p)
  BY IInvAt
<1>3. OwnRecordExists(p)
  BY <1>2 DEF ProcessOK, OwnSteps, WaitFails
<1>4. CASE \E next \in {"recoverExit", "uncertain"} : Goto(p, next) /\ UNCHANGED lease
  <2>1. LocalStep(p)
    BY <1>4 DEF IInv, TypeOK, LocalStep, kept, Goto, WaitFails
  <2>2. LocalTypes(p)' /\ ProcessOK(p)'
    BY <1>2, <1>3, <1>4
      DEF IInv, TypeOK, LocalTypes, WaitFails, store, kept, Goto, Steps,
          ProcessOK, CurSteps, ReconcileSteps, SummarySteps, OwnSteps, TxSteps,
          OwnRecordExists
  <2> QED
    BY <1>2, <1>4, <2>1, <2>2, QuietStepKeeps DEF WaitFails, DiskTypes, kept
<1>5. CASE /\ pc' = [pc EXCEPT ![p] = "recoverExit", ![Runtime(Own(p))] = "killed"]
           /\ lease' = [s \in Sessions |->
                          IF lease[s] = Runtime(Own(p)) THEN Nobody ELSE lease[s]]
  <2>1. /\ "recoverExit" \in Steps
        /\ "recoverExit" \notin CurSteps \cup SummarySteps \cup {"createSummary"}
    BY DEF Steps, CurSteps, SummarySteps, TxSteps, ReconcileSteps
  <2>2. lease' \in [Sessions -> Processes \cup {Nobody}]
    BY <1>2, <1>5 DEF DiskTypes
  <2> QED
    BY <1>1, <1>3, <1>5, <2>1, <2>2, TwoProcessesKeep DEF WaitFails
<1> QED BY <1>4, <1>5 DEF WaitFails

-----------------------------------------------------------------------------
(* The invariant.                                                          *)

LEMMA InitOK == Init => IInv
<1> SUFFICES ASSUME Init PROVE IInv
  OBVIOUS
<1>1. TypeOK
  BY DEF Init, TypeOK, Steps
<1>2. RecordsLoadable
  BY DEF Init, RecordsLoadable
<1>3. ASSUME NEW p \in Processes PROVE ProcessOK(p)
  <2>1. pc[p] \in {"start", "off"}
    BY DEF Init
  <2> QED
    BY <2>1 DEF ProcessOK, CurSteps, ReconcileSteps, SummarySteps, OwnSteps, TxSteps
<1> QED BY <1>1, <1>2, <1>3 DEF IInv

LEMMA SharedStepKeeps ==
  ASSUME IInv, NEW p \in Processes, SharedStep(p)
  PROVE  IInv'
BY TransitionLoadKeeps, TransitionWriteKeeps, TransitionSummaryKeeps,
   ReconcileLoadKeeps, ReconcileLockKeeps, ReconcileDropKeeps
   DEF SharedStep, StoreStep

LEMMA SelectionStepKeeps ==
  ASSUME IInv, NEW p \in Processes, SelectionStep(p)
  PROVE  IInv'
BY StartKeeps, SelectKeeps, ClassifyKeeps, AssessKeeps, AssessLoadKeeps,
   AssessedKeeps, AfterAbandonKeeps, CreateRecordKeeps, CreateSummaryKeeps,
   AcquireLeaseKeeps
   DEF SelectionStep

LEMMA SuperviseStepKeeps ==
  ASSUME IInv, NEW p \in Processes, p[1] # "runtime", SuperviseStep(p)
  PROVE  IInv'
BY FailLaunchKeeps, SpawnKeeps, ObserveExitKeeps, WaitFailsKeeps,
   ReconcileExitKeeps, RecoverExitKeeps, BestEffortKeeps, ValidateSummaryKeeps,
   RebuildLoadKeeps, RebuildWriteKeeps, RevalidateKeeps, ExitKeeps
   DEF SuperviseStep

LEMMA RuntimeStepKeeps ==
  ASSUME IInv, NEW p \in Processes, p[1] = "runtime", RuntimeStep(p)
  PROVE  IInv'
BY BindKeeps, BindLeaseKeeps, HandlerInspectsKeeps, InspectionDropKeeps,
   HandlerReturnsKeeps, RuntimeExitsKeeps, RuntimeKilledKeeps
   DEF RuntimeStep

LEMMA StutterKeeps ==
  ASSUME IInv, UNCHANGED vars
  PROVE  IInv'
<1>1. TypeOK' /\ RecordsLoadable'
  BY DEF IInv, TypeOK, RecordsLoadable, vars, disk, locals
<1>2. ASSUME NEW p \in Processes PROVE ProcessOK(p)'
  <2>1. ProcessOK(p) /\ RecordsStay
    BY DEF IInv, RecordsStay, vars, disk
  <2> QED BY <2>1, UntouchedProcess DEF vars, disk, locals
<1> QED BY <1>1, <1>2 DEF IInv

LEMMA NextKeeps == IInv /\ [Next]_vars => IInv'
<1> SUFFICES ASSUME IInv, [Next]_vars PROVE IInv'
  OBVIOUS
<1>1. ASSUME NEW s \in Sessions, CliStep(s) PROVE IInv'
  <2>1. Cli(s) \in Processes /\ Cli(s)[1] # "runtime"
    BY ProcessParts DEF Cli
  <2> QED
    BY <1>1, <2>1, SharedStepKeeps, SelectionStepKeeps, SuperviseStepKeeps,
       CrashKeeps
       DEF CliStep
<1>2. ASSUME NEW s \in Sessions, SharedStep(Runtime(s)) \/ RuntimeStep(Runtime(s))
      PROVE  IInv'
  <2>1. Runtime(s) \in Processes /\ Runtime(s)[1] = "runtime"
    BY ProcessParts
  <2> QED BY <1>2, <2>1, SharedStepKeeps, RuntimeStepKeeps
<1> QED BY <1>1, <1>2, StutterKeeps DEF Next

\* IInv is an invariant of every behaviour.
THEOREM Invariance == Spec => []IInv
BY InitOK, NextKeeps, PTL DEF Spec

\* Type correctness: documents, leases and control states are always of their
\* type, and no operation loses the step it returns to.
THEOREM TypeCorrectness == Spec => []TypeOK
<1>1. IInv => TypeOK
  BY DEF IInv
<1> QED BY <1>1, Invariance, PTL

\* Whatever overlaps, fails or crashes, each session.json loads.
THEOREM EveryRecordLoads == Spec => []RecordsLoadable
<1>1. IInv => RecordsLoadable
  BY DEF IInv
<1> QED BY <1>1, Invariance, PTL

-----------------------------------------------------------------------------
(* Success.                                                                *)

\* Records change in two places only.
LEMMA WhoWritesRecords ==
  ASSUME IInv, [Next]_vars, record' # record
  PROVE  \E p \in Processes : TransitionWrite(p) \/ CreateRecord(p)
<1>1. ASSUME NEW p \in Processes, SharedStep(p)
      PROVE  TransitionWrite(p) \/ record' = record
  BY <1>1
    DEF SharedStep, StoreStep, TransitionLoad, TransitionSummary, ReconcileLoad,
        ReconcileLock, ReconcileDrop, disk, store
<1>2. ASSUME NEW p \in Processes, SelectionStep(p)
      PROVE  CreateRecord(p) \/ record' = record
  BY <1>2
    DEF SelectionStep, Start, Select, Classify, Assess, AssessLoad, Assessed,
        AfterAbandon, CreateSummary, AcquireLease, disk, store
<1>3. ASSUME NEW p \in Processes, SuperviseStep(p) \/ Crash(p)
      PROVE  record' = record
  BY <1>3
    DEF SuperviseStep, FailLaunch, Spawn, ObserveExit, WaitFails, ReconcileExit,
        RecoverExit, BestEffort, ValidateSummary, RebuildLoad, RebuildWrite,
        Revalidate, Exit, Crash, disk, store
<1>4. ASSUME NEW p \in Processes, RuntimeStep(p)
      PROVE  record' = record
  BY <1>4
    DEF RuntimeStep, Bind, BindLease, HandlerInspects, InspectionDrop,
        HandlerReturns, RuntimeExits, RuntimeKilled, disk, store
<1>5. Next
  BY DEF vars, disk
<1>6. PICK s \in Sessions : CliStep(s) \/ SharedStep(Runtime(s)) \/ RuntimeStep(Runtime(s))
  BY <1>5 DEF Next
<1> QED BY <1>1, <1>2, <1>3, <1>4, <1>6, ProcessParts DEF CliStep

\* A record becomes succeeded only by the transition its own runtime makes
\* after its handler returned Ok: no supervisor, no reconciliation and no other
\* invocation ever claims success.
THEOREM SuccessByHandler == Spec => SuccessOnlyByHandler
<1> DEFINE Step ==
      \A s \in Sessions :
        (record'[s].state = "succeeded" /\ record[s].state # "succeeded") =>
          /\ pc[Runtime(s)] = "txWrite"
          /\ job[Runtime(s)].to = "succeeded"
<1>1. ASSUME IInv, [Next]_vars PROVE Step
  <2> SUFFICES ASSUME NEW s \in Sessions,
                      record'[s].state = "succeeded", record[s].state # "succeeded"
               PROVE  pc[Runtime(s)] = "txWrite" /\ job[Runtime(s)].to = "succeeded"
    OBVIOUS
  <2>1. PICK p \in Processes : TransitionWrite(p) \/ CreateRecord(p)
    BY <1>1, WhoWritesRecords
  <2>2. ~CreateRecord(p)
    BY <1>1 DEF CreateRecord, IInv, TypeOK, NewPrepared
  <2>3. /\ cur[p] = s /\ snap[p].state = "succeeded" /\ pc[p] = "txWrite"
    BY <1>1, <2>1, <2>2 DEF TransitionWrite, IInv, TypeOK
  <2>4. job[p].to = "succeeded" /\ p[1] = "runtime" /\ Own(p) = s
    BY <1>1, <2>3, IInvAt DEF ProcessOK, JobOK, TxSteps
  <2>5. p = Runtime(s)
    BY <2>4 DEF Runtime, Own, Processes
  <2> QED BY <2>3, <2>4, <2>5
<1> QED BY <1>1, Invariance, PTL DEF Spec, SuccessOnlyByHandler

-----------------------------------------------------------------------------
(* The lease discipline.                                                   *)

SelectSteps ==
  {"start", "select", "classify", "assess", "assessLoad", "assessed",
   "abandoned", "create"} \cup ReconcileSteps

\* The steps of a hand-over under the lease.
HandSteps ==
  {"spawnHost", "poll", "pollAck", "pollDeadline", "killHost", "abort", "release"}

\* The steps of a supervision, under the lease too.
WatchSteps ==
  SummarySteps \cup {"launch", "wait", "reconcileExit", "recoverExit", "uncertain"}

HoldSteps == HandSteps \cup WatchSteps

\* Its runtime may be alive at these.
AliveSteps == SummarySteps \cup {"wait", "uncertain", "errExit"}

\* The steps of a process that selects, prepares or supervises a session; the
\* initiator of a hand-over and the operator host have more of their own.
CliSteps ==
  SelectSteps \cup TxSteps \cup WatchSteps \cup Ended
    \cup {"createSummary", "acquire", "okExit", "errExit"}

LaterHostSteps == TxSteps \cup WatchSteps \cup Ended \cup {"okExit", "errExit"}

RuntimeSteps ==
  RuntimeGone \cup TxSteps
    \cup {"bind", "bindLease", "unboundDrop", "handler", "handlerDrop"}

\* The four kinds of transition: a reconciler's, an abandonment, a
\* supervisor's, a runtime's.
Reconciling(p) ==
  /\ job[p].done = "reconcileDrop" /\ job[p].fail = "errExit"
  /\ job[p].to = "failed" /\ p[1] = "cli"
Abandoning(p) ==
  /\ job[p].done = "abandoned" /\ job[p].fail = "errExit"
  /\ job[p].to = "abandoned" /\ job[p].why = None /\ p[1] = "cli"
Supervising(p) ==
  /\ job[p].done \in {"errExit", "summary"} /\ job[p].fail = "errExit"
  /\ job[p].to = "failed"
  /\ job[p].why \in {"launch", "abnormal", "source"}
  /\ job[p].done = "summary" => back[p] = "errExit"
  /\ p[1] \in {"cli", "host"} /\ cur[p] = Own(p)
Running(p) ==
  /\ job[p].done \in {"handler", "exit0", "exitN"} /\ job[p].fail = "exitN"
  /\ job[p].to # "abandoned"
  /\ job[p].to = "succeeded" <=> job[p].done = "exit0"
  /\ job[p].why # "stale"
  /\ p[1] = "runtime" /\ cur[p] = Own(p)

KindOK(p) ==
  /\ p[1] = "cli" => pc[p] \in CliSteps \cup HandSteps \cup {"released"}
  /\ p[1] = "host" => pc[p] \in {"off"} \cup HostSteps \cup LaterHostSteps
  /\ p[1] = "runtime" => pc[p] \in RuntimeSteps

KnownJob(p) ==
  pc[p] \in TxSteps => Reconciling(p) \/ Abandoning(p) \/ Supervising(p) \/ Running(p)

\* Until it creates its session, an invocation has no record.
Selecting(p) ==
  \/ pc[p] \in SelectSteps
  \/ pc[p] \in TxSteps /\ job[p].done \in {"reconcileDrop", "abandoned"}

UnbornOK(p) == p[1] = "cli" /\ Selecting(p) => record[Own(p)] = NoRecord

NamedOK(p) ==
  /\ pc[p] \in CurSteps => record[cur[p]] # NoRecord
  /\ p[1] # "cli" /\ pc[p] # "off" => record[Own(p)] # NoRecord

HoldOK(p) ==
  pc[p] \in HoldSteps \/ (pc[p] \in TxSteps /\ Supervising(p)) => lease[Own(p)] = p

ReconcilerOK(p) ==
  pc[p] = "reconcileDrop" \/ (pc[p] \in TxSteps /\ Reconciling(p)) => lease[cur[p]] = p

Fallen(s) == record[s].state \in {"failed", "abandoned"}

FallenOK(p) ==
  (/\ cur[p] \notin orphaned
   /\ \/ pc[p] = "reconcileDrop"
      \/ pc[p] = "assessed" /\ snap[p] # NoRecord
      \/ pc[p] \in TxSteps /\ Abandoning(p)
      \/ pc[p] = "txSummary" /\ Reconciling(p)) => Fallen(cur[p])

\* A pending write was computed from the record as it is, or it is an
\* abandonment that another invocation has already written.
Computed(p) ==
  /\ Legal(record[cur[p]].state, job[p].to)
  /\ snap[p] = ApplyTransition(record[cur[p]], job[p].to, job[p].why)

WriteOK(p) ==
  pc[p] = "txWrite" =>
    /\ job[p].to = "failed" => snap[p].failure = job[p].why
    /\ cur[p] \notin orphaned =>
         \/ Computed(p) /\ (~Abandoning(p) => record[cur[p]].state \in Active)
         \/ Abandoning(p) /\ snap[p] = record[cur[p]]

Behind(r, s) == r.rev < record[s].rev \/ r = record[s]

BehindOK(p) ==
  /\ pc[p] = "txSummary" /\ cur[p] \notin orphaned => Behind(snap[p], cur[p])
  /\ pc[p] = "createSummary" => Behind(snap[p], Own(p))
  /\ pc[p] = "rebuildWrite" => Behind(fresh[p], Own(p))

SafeProcess(p) ==
  /\ KindOK(p) /\ KnownJob(p) /\ UnbornOK(p) /\ NamedOK(p) /\ HoldOK(p)
  /\ ReconcilerOK(p) /\ FallenOK(p) /\ WriteOK(p) /\ BehindOK(p)

\* The success of s: its record and the exit of its runtime.
Succeeded(s) == record[s].state = "succeeded" /\ pc[Runtime(s)] = "exit0"

\* The runtime of p's session has not been started.
Unstarted(p) ==
  Selecting(p) \/ pc[p] \in {"createSummary", "acquire", "launch"} \cup HandSteps \cup HostSteps

\* A supervisor b, its runtime and the lease between them.
BossOK(b) ==
  LET s == Own(b) IN
  /\ RuntimeAlive(s) /\ s \notin orphaned =>
       lease[s] = b /\ pc[b] \in AliveSteps
  /\ s \in orphaned => pc[b] \in Ended \ {"ok"}
  /\ pc[b] \in {"okExit", "ok"} => Succeeded(s)
  /\ pc[b] \in SummarySteps /\ back[b] = "okExit" => Succeeded(s)
  /\ Unstarted(b) => pc[Runtime(s)] = "off"

\* The operator host is responsible for the session from its start on.
Boss(s) == IF pc[Host(s)] = "off" THEN Cli(s) ELSE Host(s)

\* The initiator c has a host, knows nothing of its end, and has not ended.
Handing(c) == pc[c] \in (HandSteps \ {"spawnHost"}) \cup {"released"}

\* The initiator c has left the session to its host.
LeftIt(c) == pc[c] \in {"released", "okExit", "ok", "crashed"}

Failing(c) == pc[c] \in TxSteps /\ job[c].done = "errExit"

\* The operator host h is past the lease.
Acting(h) == pc[h] \in LaterHostSteps \ ({"errExit"} \cup Ended)

\* An initiator and its host: once the initiator fails the launch its host is
\* gone, and a host gets past the lease only when the initiator has left.
HandoffOK(s) ==
  LET c == Cli(s)
      h == Host(s)
  IN /\ pc[h] = "off" => ~Handing(c)
     /\ pc[h] # "off" =>
          /\ Handing(c) \/ Failing(c) \/ pc[c] \in {"okExit", "errExit"} \cup Ended
          /\ Failing(c) \/ pc[c] \in {"abort", "errExit", "err"} => pc[h] \in Ended
          /\ Acting(h) \/ pc[Runtime(s)] # "off" => LeftIt(c)

PairOK(s) == BossOK(Boss(s)) /\ HandoffOK(s)

SummaryOK ==
  summary # NoSummary =>
    /\ record[summary.session] # NoRecord
    /\ SummaryNeverAhead

LInv ==
  /\ \A p \in Processes : SafeProcess(p)
  /\ \A s \in Sessions : PairOK(s)
  /\ SummaryOK

-----------------------------------------------------------------------------
(* Processes and leases.                                                   *)

LEMMA KindFacts ==
  ASSUME NEW p \in Processes
  PROVE  /\ p[1] \in {"cli", "host", "runtime"} /\ Own(p) \in Sessions
         /\ p[1] = "cli" <=> p = Cli(Own(p))
         /\ p[1] = "host" <=> p = Host(Own(p))
         /\ p[1] = "runtime" <=> p = Runtime(Own(p))
         /\ Cli(Own(p)) \in Processes /\ Runtime(Own(p)) \in Processes
         /\ Cli(Own(p)) # Runtime(Own(p))
BY DEF Processes, Own, Cli, Host, Runtime

LEMMA CliRuntimeFacts ==
  ASSUME NEW s \in Sessions
  PROVE  /\ Cli(s) \in Processes /\ Runtime(s) \in Processes
         /\ Own(Cli(s)) = s /\ Own(Runtime(s)) = s
         /\ Cli(s)[1] = "cli" /\ Runtime(s)[1] = "runtime"
         /\ Cli(s) # Runtime(s) /\ Cli(s) # Nobody
BY DEF Processes, Own, Cli, Runtime, Nobody, None

LEMMA HostFacts ==
  ASSUME NEW s \in Sessions
  PROVE  /\ Host(s) \in Processes /\ Own(Host(s)) = s /\ Host(s)[1] = "host"
         /\ Host(s) # Cli(s) /\ Host(s) # Runtime(s)
BY DEF Processes, Own, Cli, Host, Runtime

LEMMA NobodyIsNoProcess == Nobody \notin Processes
BY StoreAssumption DEF Nobody, Processes

LEMMA SafeAt ==
  ASSUME LInv, NEW p \in Processes
  PROVE  SafeProcess(p) /\ PairOK(Own(p))
BY KindFacts DEF LInv

\* p works on a session that b supervises.
Led(p, b) ==
  /\ b # p /\ b # Nobody /\ b[1] # "runtime" /\ Own(b) = Own(p)
  /\ SafeProcess(b) /\ BossOK(b)

\* The supervisor of a session is the invocation or its host.
LEMMA BossFacts ==
  ASSUME NEW s \in Sessions
  PROVE  /\ Boss(s) \in Processes /\ Own(Boss(s)) = s /\ Boss(s)[1] # "runtime"
         /\ Boss(s) # Runtime(s) /\ Boss(s) # Nobody
BY CliRuntimeFacts, HostFacts, NobodyIsNoProcess DEF Boss

LEMMA BossAt ==
  ASSUME LInv, NEW p \in Processes, p[1] = "runtime"
  PROVE  \E b \in Processes : b = Boss(Own(p)) /\ Led(p, b)
BY SafeAt, BossFacts, KindFacts DEF Led, PairOK

\* Who selects, prepares or supervises is the supervisor.
BossSteps == SelectSteps \cup WatchSteps \cup {"createSummary", "acquire"}

LEMMA LeadAt ==
  ASSUME LInv, NEW p \in Processes, p[1] \in {"cli", "host"},
         \/ pc[p] \in BossSteps \cup {"spawnHost"}
         \/ pc[p] \in TxSteps /\ ~Failing(p)
         \/ p[1] = "host" /\ pc[p] # "off"
  PROVE  p = Boss(Own(p)) /\ BossOK(p)
<1>1. SafeProcess(p) /\ PairOK(Own(p)) /\ Own(p) \in Sessions
  BY SafeAt, KindFacts
<1>2. CASE p[1] = "cli"
  <2>1. p = Cli(Own(p))
    BY <1>2, KindFacts
  <2>2. pc[Host(Own(p))] = "off"
    BY <1>1, <1>2, <2>1
      DEF PairOK, HandoffOK, Handing, Failing, BossSteps, SelectSteps, WatchSteps,
          SummarySteps, ReconcileSteps, TxSteps, HandSteps, Ended
  <2> QED BY <1>1, <2>1, <2>2 DEF Boss, PairOK
<1>3. CASE p[1] = "host"
  <2>1. p = Host(Own(p)) /\ pc[p] # "off"
    BY <1>3, KindFacts
      DEF BossSteps, SelectSteps, WatchSteps, SummarySteps, ReconcileSteps, TxSteps
  <2> QED BY <1>1, <2>1 DEF Boss, PairOK
<1> QED BY <1>2, <1>3

\* p takes free leases and drops its own, nobody else's.
LeaseKept(p) ==
  \A t \in Sessions : lease[t] \notin {p, Nobody} => lease'[t] = lease[t]

OrphansGrow(p) == orphaned \subseteq orphaned' /\ orphaned' \subseteq orphaned \cup {Own(p)}

LEMMA LeaseSteps ==
  ASSUME NEW p \in Processes, NEW s \in Sessions,
         lease \in [Sessions -> Processes \cup {Nobody}]
  PROVE  /\ FreeLease(s) /\ Acquire(p, s) => LeaseKept(p) /\ lease'[s] = p
         /\ Release(p) => LeaseKept(p)
         /\ UNCHANGED lease => LeaseKept(p)
BY DEF FreeLease, Acquire, Release, LeaseKept

\* A process that does not move, while p does something that writes no record.
LEMMA OtherProcessSafe ==
  ASSUME IInv, NEW p \in Processes, NEW q \in Processes, q # p, SafeProcess(q),
         pc'[q] = pc[q], cur'[q] = cur[q], snap'[q] = snap[q],
         job'[q] = job[q], back'[q] = back[q], fresh'[q] = fresh[q],
         UNCHANGED record, LeaseKept(p), OrphansGrow(p)
  PROVE  SafeProcess(q)'
<1>1. \A t \in Sessions : lease[t] = q => lease'[t] = q
  BY NobodyIsNoProcess DEF LeaseKept
<1>2. KindOK(q)' /\ KnownJob(q)' /\ UnbornOK(q)' /\ NamedOK(q)'
  BY DEF SafeProcess, KindOK, KnownJob, UnbornOK, NamedOK, Selecting,
         Reconciling, Abandoning, Supervising, Running
<1>3. HoldOK(q)'
  BY <1>1, KindFacts DEF SafeProcess, HoldOK, Supervising
<1>4. ReconcilerOK(q)'
  <2>1. pc[q] = "reconcileDrop" \/ pc[q] \in TxSteps => cur[q] \in Sessions
    BY IInvAt DEF ProcessOK, CurSteps, ReconcileSteps
  <2> QED BY <1>1, <2>1 DEF SafeProcess, ReconcilerOK, Reconciling
<1>5. FallenOK(q)' /\ WriteOK(q)' /\ BehindOK(q)'
  BY DEF SafeProcess, FallenOK, WriteOK, BehindOK, OrphansGrow, Fallen, Behind,
         Computed, Abandoning, Reconciling
<1> QED BY <1>2, <1>3, <1>4, <1>5 DEF SafeProcess

\* The supervisor b stays as it is while p, of another session or not
\* supervising this one, moves.
LEMMA OtherBossOK ==
  ASSUME NEW p \in Processes, NEW b \in Processes, b # p, BossOK(b),
         pc'[b] = pc[b], back'[b] = back[b], job'[b] = job[b],
         pc'[Runtime(Own(b))] = pc[Runtime(Own(b))], LeaseKept(p),
         Own(b) \in orphaned' <=> Own(b) \in orphaned,
         Succeeded(Own(b)) /\ Own(b) \notin orphaned =>
           record'[Own(b)] = record[Own(b)]
  PROVE  BossOK(b)'
<1>1. lease[Own(b)] = b => lease'[Own(b)] = b
  BY KindFacts, NobodyIsNoProcess DEF LeaseKept
<1> QED
  BY <1>1
    DEF BossOK, RuntimeAlive, Succeeded, Unstarted, Selecting, Ended, SummarySteps

\* Initiator, host and runtime of a session do not move.
Unmoved(s) ==
  /\ pc'[Cli(s)] = pc[Cli(s)] /\ pc'[Host(s)] = pc[Host(s)]
  /\ pc'[Runtime(s)] = pc[Runtime(s)]
  /\ back'[Cli(s)] = back[Cli(s)] /\ job'[Cli(s)] = job[Cli(s)]
  /\ back'[Host(s)] = back[Host(s)] /\ job'[Host(s)] = job[Host(s)]

LEMMA UnmovedHandoff ==
  ASSUME NEW s \in Sessions, Unmoved(s), HandoffOK(s)
  PROVE  HandoffOK(s)' /\ Boss(s)' = Boss(s)
BY DEF Unmoved, HandoffOK, Handing, Failing, LeftIt, Acting, Boss

\* The pair of a session p has nothing to do with.
LEMMA OtherPairOK ==
  ASSUME NEW p \in Processes, NEW s \in Sessions, Own(p) # s, PairOK(s),
         Unmoved(s), LeaseKept(p), OrphansGrow(p),
         Succeeded(s) /\ s \notin orphaned => record'[s] = record[s]
  PROVE  PairOK(s)'
<1>1. HandoffOK(s)' /\ Boss(s)' = Boss(s)
  BY UnmovedHandoff DEF PairOK
<1>2. PICK b \in Processes : b = Boss(s) /\ Own(b) = s /\ b # p
  BY BossFacts
<1>3. pc'[b] = pc[b] /\ back'[b] = back[b] /\ job'[b] = job[b]
  BY <1>2 DEF Boss, Unmoved
<1>4. BossOK(b)'
  BY <1>2, <1>3, OtherBossOK DEF PairOK, OrphansGrow, Unmoved
<1> QED BY <1>1, <1>2, <1>4 DEF PairOK

\* What p does not touch.
LEMMA OthersUnmoved ==
  ASSUME IInv, NEW p \in Processes, LocalStep(p)
  PROVE  /\ \A q \in Processes \ {p} :
              /\ pc'[q] = pc[q] /\ cur'[q] = cur[q] /\ snap'[q] = snap[q]
              /\ job'[q] = job[q] /\ back'[q] = back[q] /\ fresh'[q] = fresh[q]
         /\ \A s \in Sessions : s # Own(p) => Unmoved(s)
<1>1. ASSUME NEW q \in Processes, q # p
      PROVE  /\ pc'[q] = pc[q] /\ cur'[q] = cur[q] /\ snap'[q] = snap[q]
             /\ job'[q] = job[q] /\ back'[q] = back[q] /\ fresh'[q] = fresh[q]
  BY <1>1 DEF LocalStep, IInv, TypeOK
<1>2. ASSUME NEW s \in Sessions, s # Own(p) PROVE Unmoved(s)
  <2>1. Cli(s) # p /\ Runtime(s) # p /\ Host(s) # p
    BY <1>2, CliRuntimeFacts, HostFacts
  <2> QED BY <1>1, <2>1, CliRuntimeFacts, HostFacts DEF Unmoved
<1> QED BY <1>1, <1>2

\* A step of p that writes no record.
LEMMA LocalStepSafe ==
  ASSUME IInv, LInv, NEW p \in Processes, LocalStep(p), UNCHANGED record,
         LeaseKept(p), OrphansGrow(p), SafeProcess(p)', PairOK(Own(p))', SummaryOK'
  PROVE  LInv'
<1>1. ASSUME NEW q \in Processes PROVE SafeProcess(q)'
  <2>1. CASE q = p
    BY <2>1
  <2>2. CASE q # p
    BY <2>2, OthersUnmoved, SafeAt, OtherProcessSafe
  <2> QED BY <2>1, <2>2
<1>2. ASSUME NEW s \in Sessions PROVE PairOK(s)'
  <2>1. CASE s = Own(p)
    BY <2>1
  <2>2. CASE s # Own(p)
    <3>1. PairOK(s) /\ Unmoved(s)
      BY <2>2, OthersUnmoved DEF LInv
    <3> QED BY <2>2, <3>1, OtherPairOK
  <2> QED BY <2>1, <2>2
<1> QED BY <1>1, <1>2 DEF LInv

\* A step of p that writes no document.
LEMMA QuietStepSafe ==
  ASSUME IInv, LInv, NEW p \in Processes, LocalStep(p), UNCHANGED store,
         LeaseKept(p), OrphansGrow(p), SafeProcess(p)', PairOK(Own(p))'
  PROVE  LInv'
<1>1. SummaryOK'
  BY DEF LInv, SummaryOK, SummaryNeverAhead, SummaryOf, store, OrphansGrow
<1> QED BY <1>1, LocalStepSafe DEF store

\* A supervisor stays one, and its initiator, if it has one, had left.
LEMMA BossMoves ==
  ASSUME IInv, LInv, NEW p \in Processes, p[1] \in {"cli", "host"},
         p = Boss(Own(p)), LocalStep(p), BossOK(p)',
         pc'[p] \in CliSteps \cup {"spawnHost"},
         pc[p] \in BossSteps \cup TxSteps \cup {"okExit", "spawnHost"} \/ pc'[p] \in Ended
  PROVE  PairOK(Own(p))'
<1> DEFINE s == Own(p)
<1>1. /\ s \in Sessions /\ HandoffOK(s) /\ KindOK(p)
      /\ Cli(s) \in Processes /\ Host(s) \in Processes /\ Runtime(s) \in Processes
      /\ Host(s) # Cli(s) /\ Host(s) # Runtime(s) /\ Cli(s) # Runtime(s)
  BY SafeAt, KindFacts, CliRuntimeFacts, HostFacts DEF PairOK, SafeProcess
<1>2. p # Runtime(s) /\ pc'[Runtime(s)] = pc[Runtime(s)]
  BY <1>1, KindFacts, OthersUnmoved
<1>3. CASE p = Cli(s)
  <2>1. pc[Host(s)] = "off" /\ pc'[Host(s)] = "off"
    BY <1>1, <1>3, OthersUnmoved DEF Boss
  <2>2. ~Handing(p)'
    BY DEF Handing, HandSteps, CliSteps, SelectSteps, ReconcileSteps, TxSteps,
           WatchSteps, SummarySteps, Ended
  <2>3. HandoffOK(s)'
    BY <1>3, <2>1, <2>2 DEF HandoffOK, Handing
  <2>4. Boss(s)' = p
    BY <1>3, <2>1 DEF Boss
  <2> QED BY <2>3, <2>4 DEF PairOK
<1>4. CASE p = Host(s)
  <2>1. /\ pc'[Cli(s)] = pc[Cli(s)] /\ job'[Cli(s)] = job[Cli(s)]
        /\ pc[p] # "off" /\ pc'[p] # "off"
    BY <1>1, <1>4, OthersUnmoved
      DEF Boss, CliSteps, SelectSteps, ReconcileSteps, TxSteps, WatchSteps,
          SummarySteps, Ended
  <2>2. pc'[p] \in Ended \/ (Acting(p) /\ pc[p] \notin Ended)
    BY <1>1, <1>4, HostFacts
      DEF Acting, KindOK, BossSteps, LaterHostSteps, SelectSteps, ReconcileSteps,
          TxSteps, WatchSteps, SummarySteps, HostSteps, Ended
  <2>3. HandoffOK(s)'
    BY <1>1, <1>2, <1>4, <2>1, <2>2
      DEF HandoffOK, Handing, Failing, LeftIt, Acting
  <2>4. Boss(s)' = p
    BY <1>4, <2>1 DEF Boss
  <2> QED BY <2>3, <2>4 DEF PairOK
<1> QED BY <1>3, <1>4 DEF Boss

\* A step of a supervisor that writes no document.
LEMMA BossStepSafe ==
  ASSUME IInv, LInv, NEW p \in Processes, p[1] \in {"cli", "host"},
         p = Boss(Own(p)), LocalStep(p), UNCHANGED store,
         LeaseKept(p), OrphansGrow(p), SafeProcess(p)', BossOK(p)',
         pc[p] \in BossSteps, pc'[p] \in CliSteps
  PROVE  LInv'
BY BossMoves, QuietStepSafe

\* A step of an initiator c that has a host.
InitiatorMovesOn(c) ==
  LET h == Host(Own(c)) IN
  /\ (Handing(c) \/ Failing(c) \/ pc[c] \in {"okExit", "errExit"} \cup Ended)'
  /\ (Failing(c) \/ pc[c] \in {"abort", "errExit", "err"})' => pc[h] \in Ended
  /\ LeftIt(c) => LeftIt(c)'

LEMMA InitiatorMoves ==
  ASSUME IInv, LInv, NEW p \in Processes, p[1] = "cli", p # Boss(Own(p)),
         LocalStep(p), LeaseKept(p), Own(p) \in orphaned' <=> Own(p) \in orphaned,
         Succeeded(Own(p)) /\ Own(p) \notin orphaned =>
           record'[Own(p)] = record[Own(p)],
         InitiatorMovesOn(p)
  PROVE  PairOK(Own(p))'
<1> DEFINE s == Own(p)
<1>1. /\ s \in Sessions /\ PairOK(s) /\ p = Cli(s)
  BY SafeAt, KindFacts
<1>2. pc[Host(s)] # "off" /\ Boss(s) = Host(s)
  BY <1>1 DEF Boss
<1>3. /\ pc'[Host(s)] = pc[Host(s)] /\ pc'[Runtime(s)] = pc[Runtime(s)]
      /\ back'[Host(s)] = back[Host(s)] /\ job'[Host(s)] = job[Host(s)]
  BY <1>1, CliRuntimeFacts, HostFacts, OthersUnmoved
<1>4. BossOK(Host(s))'
  <2> PICK b \in Processes : b = Host(s)
    BY <1>1, HostFacts
  <2> QED BY <1>1, <1>2, <1>3, HostFacts, OtherBossOK DEF PairOK
<1>5. HandoffOK(s)'
  BY <1>1, <1>2, <1>3 DEF HandoffOK, PairOK, Acting, InitiatorMovesOn
<1>6. Boss(s)' = Host(s)
  BY <1>2, <1>3 DEF Boss
<1> QED BY <1>4, <1>5, <1>6 DEF PairOK

\* A step of a runtime changes nothing between initiator and host.
LEMMA RuntimeMoves ==
  ASSUME IInv, LInv, NEW p \in Processes, p[1] = "runtime", LocalStep(p),
         pc[p] # "off", NEW b, b = Boss(Own(p)), BossOK(b)'
  PROVE  PairOK(Own(p))'
<1> DEFINE s == Own(p)
<1>1. s \in Sessions /\ HandoffOK(s) /\ p = Runtime(s)
  BY SafeAt, KindFacts DEF PairOK
<1>2. /\ pc'[Cli(s)] = pc[Cli(s)] /\ job'[Cli(s)] = job[Cli(s)]
      /\ pc'[Host(s)] = pc[Host(s)]
  BY <1>1, CliRuntimeFacts, HostFacts, OthersUnmoved
<1>3. HandoffOK(s)'
  BY <1>1, <1>2 DEF HandoffOK, Handing, Failing, LeftIt, Acting
<1>4. Boss(s)' = b
  BY <1>2 DEF Boss
<1> QED BY <1>3, <1>4 DEF PairOK

LEMMA RuntimeMoveSafe ==
  ASSUME IInv, LInv, NEW p \in Processes, p[1] = "runtime", LocalStep(p),
         UNCHANGED store, LeaseKept(p), OrphansGrow(p), SafeProcess(p)',
         pc[p] # "off", NEW b \in Processes, b = Boss(Own(p)), BossOK(b)'
  PROVE  LInv'
BY RuntimeMoves, QuietStepSafe

\* A transition goes on, or ends where its caller wants it to.
LEMMA TransitionMoves ==
  ASSUME IInv, LInv, NEW p \in Processes, pc[p] \in TxSteps, LocalStep(p),
         UNCHANGED <<lease, back, orphaned>>,
         \/ pc'[p] \in TxSteps /\ job' = job
         \/ pc'[p] \in {job[p].done, job[p].fail},
         Succeeded(Own(p)) /\ Own(p) \notin orphaned =>
           record'[Own(p)] = record[Own(p)]
  PROVE  PairOK(Own(p))'
<1>1. /\ SafeProcess(p) /\ PairOK(Own(p)) /\ Own(p) \in Sessions
      /\ Reconciling(p) \/ Abandoning(p) \/ Supervising(p) \/ Running(p)
  BY SafeAt, KindFacts DEF SafeProcess, KnownJob
<1>2. LeaseKept(p)
  BY DEF LeaseKept
<1>3. CASE p[1] = "runtime"
  <2>0. PICK b \in Processes : b = Boss(Own(p)) /\ Led(p, b)
    BY <1>3, BossAt
  <2>1. pc'[b] = pc[b] /\ job'[b] = job[b] /\ p = Runtime(Own(p))
    BY <1>3, <2>0, KindFacts, OthersUnmoved DEF Led
  <2>2. RuntimeAlive(Own(p)) /\ ~Succeeded(Own(p))
    BY <2>1 DEF RuntimeAlive, RuntimeGone, Succeeded, TxSteps
  <2>3. BossOK(b)'
    BY <2>0, <2>1, <2>2
      DEF Led, BossOK, RuntimeAlive, RuntimeGone, Unstarted, Selecting
  <2> QED BY <1>3, <2>0, <2>3, RuntimeMoves DEF TxSteps
<1>4. CASE p[1] # "runtime" /\ p = Boss(Own(p))
  <2>1. /\ p[1] \in {"cli", "host"} /\ BossOK(p) /\ Runtime(Own(p)) # p
        /\ pc'[Runtime(Own(p))] = pc[Runtime(Own(p))]
        /\ Reconciling(p) \/ Abandoning(p) \/ Supervising(p)
    BY <1>1, <1>4, KindFacts, OthersUnmoved DEF PairOK, Running
  <2>2. pc[p] \notin AliveSteps \cup Ended
    BY DEF TxSteps, AliveSteps, SummarySteps, Ended
  <2>3. /\ pc'[p] \in TxSteps \cup {"reconcileDrop", "abandoned", "summary", "errExit"}
        /\ pc'[p] = "summary" => back[p] = "errExit"
        /\ pc'[p] \in {"reconcileDrop", "abandoned"} => Selecting(p)
        /\ pc'[p] \in TxSteps => job'[p] = job[p]
    BY <2>1 DEF Reconciling, Abandoning, Supervising, Selecting, TxSteps
  <2>4. Unstarted(p)' => Unstarted(p)
    BY <2>3
      DEF Unstarted, Selecting, SelectSteps, ReconcileSteps, TxSteps, HandSteps,
          HostSteps
  <2>5. BossOK(p)'
    BY <2>1, <2>2, <2>3, <2>4
      DEF BossOK, RuntimeAlive, Ended, TxSteps, SummarySteps
  <2>6. pc'[p] \in CliSteps
    BY <2>3 DEF CliSteps, SelectSteps, ReconcileSteps, WatchSteps, SummarySteps
  <2> QED BY <1>4, <2>1, <2>5, <2>6, BossMoves
<1>5. CASE p[1] # "runtime" /\ p # Boss(Own(p))
  <2>1. p[1] = "cli" /\ p = Cli(Own(p)) /\ pc[Host(Own(p))] # "off"
    BY <1>5, KindFacts DEF Boss, TxSteps
  <2>2. Failing(p) /\ pc[Host(Own(p))] \in Ended
    BY <1>1, <2>1
      DEF PairOK, HandoffOK, Handing, HandSteps, TxSteps, Ended
  <2>3. job[p].done = "errExit" /\ job[p].fail = "errExit"
    BY <1>1, <1>5, <2>1, <2>2
      DEF Failing, Reconciling, Abandoning, Supervising, Running
  <2>4. InitiatorMovesOn(p)
    BY <2>2, <2>3 DEF InitiatorMovesOn, Failing, LeftIt, TxSteps
  <2> QED BY <1>2, <1>5, <2>1, <2>4, InitiatorMoves
<1> QED BY <1>3, <1>4, <1>5

LEMMA StartSafe ==
  ASSUME IInv, LInv, NEW p \in Processes, p[1] = "cli", Start(p)
  PROVE  LInv'
<1>0. pc[p] \in BossSteps
  BY DEF BossSteps, SelectSteps, ReconcileSteps, WatchSteps, SummarySteps, Start
<1>1. /\ SafeProcess(p) /\ p = Boss(Own(p)) /\ BossOK(p) /\ LocalTypes(p)
      /\ ProcessOK(p) /\ DiskTypes
      /\ (summary # NoSummary => record[summary.session] # NoRecord)
  BY <1>0, SafeAt, LeadAt, IInvAt DEF LInv, SummaryOK
<1>2. LocalStep(p)
  BY DEF IInv, TypeOK, LocalStep, kept, Goto, Start
<1>3. UNCHANGED store /\ LeaseKept(p) /\ OrphansGrow(p)
  BY <1>1, LeaseSteps, KindFacts
     DEF DiskTypes, disk, store, kept, OrphansGrow, Start
<1>4. SafeProcess(p)'
  BY <1>1, KindFacts, RecordFacts
     DEF IInv, TypeOK, LocalTypes, OwnRecordExists, disk, store, kept, Goto,
         ProcessOK, TxSteps, ReconcileSteps, SummarySteps, CurSteps,
         OwnSteps, SelectSteps, HoldSteps, HandSteps, WatchSteps, HostSteps,
         LaterHostSteps, CliSteps, Ended, SafeProcess, KindOK, KnownJob,
         Selecting, UnbornOK, NamedOK, HoldOK, ReconcilerOK, FallenOK,
         WriteOK, BehindOK, Start, NamesCurrent
<1>5. BossOK(p)'
  BY <1>1, KindFacts
     DEF IInv, TypeOK, ProcessOK, disk, store, kept, Goto, RuntimeAlive,
         Succeeded, Selecting, SummaryReturn, TxSteps, ReconcileSteps,
         SummarySteps, CurSteps, OwnSteps, SelectSteps, HoldSteps, CliSteps,
         Ended, RuntimeGone, AliveSteps, SafeProcess, KindOK, KnownJob,
         HoldOK, BossOK, Unstarted, HandSteps, WatchSteps, HostSteps,
         LaterHostSteps, Start
<1>6. pc'[p] \in CliSteps
  BY <1>1
     DEF CliSteps, Ended, Goto, IInv, ProcessOK, ReconcileReturn,
         ReconcileSteps, SelectSteps, Start, SummaryReturn, SummarySteps,
         TxSteps, TypeOK, WatchSteps
<1> QED BY <1>0, <1>1, <1>2, <1>3, <1>4, <1>5, <1>6, BossStepSafe

LEMMA SelectSafe ==
  ASSUME IInv, LInv, NEW p \in Processes, p[1] = "cli", Select(p)
  PROVE  LInv'
<1>0. pc[p] \in BossSteps
  BY DEF BossSteps, SelectSteps, ReconcileSteps, WatchSteps, SummarySteps, Select
<1>1. /\ SafeProcess(p) /\ p = Boss(Own(p)) /\ BossOK(p) /\ LocalTypes(p)
      /\ ProcessOK(p) /\ DiskTypes
      /\ (summary # NoSummary => record[summary.session] # NoRecord)
  BY <1>0, SafeAt, LeadAt, IInvAt DEF LInv, SummaryOK
<1>2. LocalStep(p)
  BY DEF IInv, TypeOK, LocalStep, kept, Goto, Select
<1>3. UNCHANGED store /\ LeaseKept(p) /\ OrphansGrow(p)
  BY <1>1, LeaseSteps, KindFacts
     DEF DiskTypes, disk, store, kept, OrphansGrow, Select
<1>4. SafeProcess(p)'
  BY <1>1, KindFacts, RecordFacts
     DEF IInv, TypeOK, LocalTypes, OwnRecordExists, disk, store, kept, Goto,
         ProcessOK, TxSteps, ReconcileSteps, SummarySteps, CurSteps,
         OwnSteps, SelectSteps, HoldSteps, HandSteps, WatchSteps, HostSteps,
         LaterHostSteps, CliSteps, Ended, SafeProcess, KindOK, KnownJob,
         Selecting, UnbornOK, NamedOK, HoldOK, ReconcilerOK, FallenOK,
         WriteOK, BehindOK, Select, NamesCurrent
<1>5. BossOK(p)'
  BY <1>1, KindFacts
     DEF IInv, TypeOK, ProcessOK, disk, store, kept, Goto, RuntimeAlive,
         Succeeded, Selecting, SummaryReturn, TxSteps, ReconcileSteps,
         SummarySteps, CurSteps, OwnSteps, SelectSteps, HoldSteps, CliSteps,
         Ended, RuntimeGone, AliveSteps, SafeProcess, KindOK, KnownJob,
         HoldOK, BossOK, Unstarted, HandSteps, WatchSteps, HostSteps,
         LaterHostSteps, Select
<1>6. pc'[p] \in CliSteps
  BY <1>1
     DEF CliSteps, Ended, Goto, IInv, ProcessOK, ReconcileReturn,
         ReconcileSteps, Select, SelectSteps, SummaryReturn, SummarySteps,
         TxSteps, TypeOK, WatchSteps
<1> QED BY <1>0, <1>1, <1>2, <1>3, <1>4, <1>5, <1>6, BossStepSafe

LEMMA ClassifySafe ==
  ASSUME IInv, LInv, NEW p \in Processes, p[1] = "cli", Classify(p)
  PROVE  LInv'
<1>0. pc[p] \in BossSteps
  BY DEF BossSteps, SelectSteps, ReconcileSteps, WatchSteps, SummarySteps, Classify
<1>1. /\ SafeProcess(p) /\ p = Boss(Own(p)) /\ BossOK(p) /\ LocalTypes(p)
      /\ ProcessOK(p) /\ DiskTypes
  BY <1>0, SafeAt, LeadAt, IInvAt
<1>2. LocalStep(p)
  BY DEF IInv, TypeOK, LocalStep, kept, Goto, Classify
<1>3. UNCHANGED store /\ LeaseKept(p) /\ OrphansGrow(p)
  BY <1>1, LeaseSteps, KindFacts
     DEF DiskTypes, disk, store, kept, OrphansGrow, Classify
<1>4. SafeProcess(p)'
  BY <1>1, KindFacts, RecordFacts
     DEF IInv, TypeOK, LocalTypes, OwnRecordExists, disk, store, kept, Goto,
         ProcessOK, TxSteps, ReconcileSteps, SummarySteps, CurSteps,
         OwnSteps, SelectSteps, HoldSteps, HandSteps, WatchSteps, HostSteps,
         LaterHostSteps, CliSteps, Ended, SafeProcess, KindOK, KnownJob,
         Selecting, UnbornOK, NamedOK, HoldOK, ReconcilerOK, FallenOK,
         WriteOK, BehindOK, Classify
<1>5. BossOK(p)'
  BY <1>1, KindFacts
     DEF IInv, TypeOK, ProcessOK, disk, store, kept, Goto, RuntimeAlive,
         Succeeded, Selecting, SummaryReturn, TxSteps, ReconcileSteps,
         SummarySteps, CurSteps, OwnSteps, SelectSteps, HoldSteps, CliSteps,
         Ended, RuntimeGone, AliveSteps, SafeProcess, KindOK, KnownJob,
         HoldOK, BossOK, Unstarted, HandSteps, WatchSteps, HostSteps,
         LaterHostSteps, Classify
<1>6. pc'[p] \in CliSteps
  BY <1>1
     DEF Classify, CliSteps, Ended, Goto, IInv, ProcessOK, ReconcileReturn,
         ReconcileSteps, SelectSteps, SummaryReturn, SummarySteps, TxSteps,
         TypeOK, WatchSteps
<1> QED BY <1>0, <1>1, <1>2, <1>3, <1>4, <1>5, <1>6, BossStepSafe

LEMMA AssessSafe ==
  ASSUME IInv, LInv, NEW p \in Processes, p[1] = "cli", Assess(p)
  PROVE  LInv'
<1>0. pc[p] \in BossSteps
  BY DEF BossSteps, SelectSteps, ReconcileSteps, WatchSteps, SummarySteps, Assess
<1>1. /\ SafeProcess(p) /\ p = Boss(Own(p)) /\ BossOK(p) /\ LocalTypes(p)
      /\ ProcessOK(p) /\ DiskTypes
      /\ (summary # NoSummary => record[summary.session] # NoRecord)
  BY <1>0, SafeAt, LeadAt, IInvAt DEF LInv, SummaryOK
<1>2. LocalStep(p)
  BY DEF IInv, TypeOK, LocalStep, kept, Goto, Assess, Decide, Transition
<1>3. UNCHANGED store /\ LeaseKept(p) /\ OrphansGrow(p)
  BY <1>1, LeaseSteps, KindFacts
     DEF DiskTypes, disk, store, kept, OrphansGrow, Assess
<1>4. SafeProcess(p)'
  BY <1>1, KindFacts, RecordFacts
     DEF IInv, TypeOK, LocalTypes, OwnRecordExists, disk, store, kept, Goto,
         ProcessOK, TxSteps, ReconcileSteps, SummarySteps, CurSteps,
         OwnSteps, SelectSteps, HoldSteps, HandSteps, WatchSteps, HostSteps,
         LaterHostSteps, CliSteps, Ended, SafeProcess, KindOK, KnownJob,
         Selecting, UnbornOK, NamedOK, HoldOK, ReconcilerOK, FallenOK,
         WriteOK, BehindOK, Assess, Decide, Transition, NamesCurrent, Admits,
         Reconciling, Abandoning, Supervising, Running, None
<1>5. BossOK(p)'
  BY <1>1, KindFacts
     DEF IInv, TypeOK, ProcessOK, disk, store, kept, Goto, RuntimeAlive,
         Succeeded, Selecting, SummaryReturn, TxSteps, ReconcileSteps,
         SummarySteps, CurSteps, OwnSteps, SelectSteps, HoldSteps, CliSteps,
         Ended, RuntimeGone, AliveSteps, SafeProcess, KindOK, KnownJob,
         HoldOK, BossOK, Unstarted, HandSteps, WatchSteps, HostSteps,
         LaterHostSteps, Assess, Decide, Transition
<1>6. pc'[p] \in CliSteps
  BY <1>1
     DEF Assess, CliSteps, Decide, Ended, Goto, IInv, ProcessOK,
         ReconcileReturn, ReconcileSteps, SelectSteps, SummaryReturn,
         SummarySteps, Transition, TxSteps, TypeOK, WatchSteps
<1> QED BY <1>0, <1>1, <1>2, <1>3, <1>4, <1>5, <1>6, BossStepSafe

LEMMA AssessLoadSafe ==
  ASSUME IInv, LInv, NEW p \in Processes, p[1] = "cli", AssessLoad(p)
  PROVE  LInv'
<1>0. pc[p] \in BossSteps
  BY DEF BossSteps, SelectSteps, ReconcileSteps, WatchSteps, SummarySteps,
         AssessLoad
<1>1. /\ SafeProcess(p) /\ p = Boss(Own(p)) /\ BossOK(p) /\ LocalTypes(p)
      /\ ProcessOK(p) /\ DiskTypes
  BY <1>0, SafeAt, LeadAt, IInvAt
<1>2. LocalStep(p)
  BY DEF IInv, TypeOK, LocalStep, kept, Goto, AssessLoad, Decide, Transition
<1>3. UNCHANGED store /\ LeaseKept(p) /\ OrphansGrow(p)
  BY <1>1, LeaseSteps, KindFacts
     DEF DiskTypes, disk, store, kept, OrphansGrow, AssessLoad
<1>4. SafeProcess(p)'
  BY <1>1, KindFacts, RecordFacts
     DEF IInv, TypeOK, LocalTypes, OwnRecordExists, disk, store, kept, Goto,
         ProcessOK, TxSteps, ReconcileSteps, SummarySteps, CurSteps,
         OwnSteps, SelectSteps, HoldSteps, HandSteps, WatchSteps, HostSteps,
         LaterHostSteps, CliSteps, Ended, SafeProcess, KindOK, KnownJob,
         Selecting, UnbornOK, NamedOK, HoldOK, ReconcilerOK, FallenOK,
         WriteOK, BehindOK, AssessLoad, Decide, Transition, Admits, Terminal,
         Active, Fallen, Reconciling, Abandoning, Supervising, Running, None
<1>5. BossOK(p)'
  BY <1>1, KindFacts
     DEF IInv, TypeOK, ProcessOK, disk, store, kept, Goto, RuntimeAlive,
         Succeeded, Selecting, SummaryReturn, TxSteps, ReconcileSteps,
         SummarySteps, CurSteps, OwnSteps, SelectSteps, HoldSteps, CliSteps,
         Ended, RuntimeGone, AliveSteps, SafeProcess, KindOK, KnownJob,
         HoldOK, BossOK, Unstarted, HandSteps, WatchSteps, HostSteps,
         LaterHostSteps, AssessLoad, Decide, Transition
<1>6. pc'[p] \in CliSteps
  BY <1>1
     DEF AssessLoad, CliSteps, Decide, Ended, Goto, IInv, ProcessOK,
         ReconcileReturn, ReconcileSteps, SelectSteps, SummaryReturn,
         SummarySteps, Transition, TxSteps, TypeOK, WatchSteps
<1> QED BY <1>0, <1>1, <1>2, <1>3, <1>4, <1>5, <1>6, BossStepSafe

LEMMA AssessedSafe ==
  ASSUME IInv, LInv, NEW p \in Processes, p[1] = "cli", Assessed(p)
  PROVE  LInv'
<1>0. pc[p] \in BossSteps
  BY DEF BossSteps, SelectSteps, ReconcileSteps, WatchSteps, SummarySteps, Assessed
<1>1. /\ SafeProcess(p) /\ p = Boss(Own(p)) /\ BossOK(p) /\ LocalTypes(p)
      /\ ProcessOK(p) /\ DiskTypes
  BY <1>0, SafeAt, LeadAt, IInvAt
<1>2. LocalStep(p)
  BY DEF IInv, TypeOK, LocalStep, kept, Goto, Assessed, Decide, Transition
<1>3. UNCHANGED store /\ LeaseKept(p) /\ OrphansGrow(p)
  BY <1>1, LeaseSteps, KindFacts
     DEF DiskTypes, disk, store, kept, OrphansGrow, Assessed
<1>4. SafeProcess(p)'
  BY <1>1, KindFacts, RecordFacts
     DEF IInv, TypeOK, LocalTypes, OwnRecordExists, disk, store, kept, Goto,
         ProcessOK, TxSteps, ReconcileSteps, SummarySteps, CurSteps,
         OwnSteps, SelectSteps, HoldSteps, HandSteps, WatchSteps, HostSteps,
         LaterHostSteps, CliSteps, Ended, SafeProcess, KindOK, KnownJob,
         Selecting, UnbornOK, NamedOK, HoldOK, ReconcilerOK, FallenOK,
         WriteOK, BehindOK, Assessed, Decide, Transition, Admits, Terminal,
         Fallen, Reconciling, Abandoning, Supervising, Running, None
<1>5. BossOK(p)'
  BY <1>1, KindFacts
     DEF IInv, TypeOK, ProcessOK, disk, store, kept, Goto, RuntimeAlive,
         Succeeded, Selecting, SummaryReturn, TxSteps, ReconcileSteps,
         SummarySteps, CurSteps, OwnSteps, SelectSteps, HoldSteps, CliSteps,
         Ended, RuntimeGone, AliveSteps, SafeProcess, KindOK, KnownJob,
         HoldOK, BossOK, Unstarted, HandSteps, WatchSteps, HostSteps,
         LaterHostSteps, Assessed, Decide, Transition
<1>6. pc'[p] \in CliSteps
  BY <1>1
     DEF Assessed, CliSteps, Decide, Ended, Goto, IInv, ProcessOK,
         ReconcileReturn, ReconcileSteps, SelectSteps, SummaryReturn,
         SummarySteps, Transition, TxSteps, TypeOK, WatchSteps
<1> QED BY <1>0, <1>1, <1>2, <1>3, <1>4, <1>5, <1>6, BossStepSafe

LEMMA AfterAbandonSafe ==
  ASSUME IInv, LInv, NEW p \in Processes, p[1] = "cli", AfterAbandon(p)
  PROVE  LInv'
<1>0. pc[p] \in BossSteps
  BY DEF BossSteps, SelectSteps, ReconcileSteps, WatchSteps, SummarySteps,
         AfterAbandon
<1>1. /\ SafeProcess(p) /\ p = Boss(Own(p)) /\ BossOK(p) /\ LocalTypes(p)
      /\ ProcessOK(p) /\ DiskTypes
  BY <1>0, SafeAt, LeadAt, IInvAt
<1>2. LocalStep(p)
  BY DEF IInv, TypeOK, LocalStep, kept, Goto, AfterAbandon
<1>3. UNCHANGED store /\ LeaseKept(p) /\ OrphansGrow(p)
  BY <1>1, LeaseSteps, KindFacts
     DEF DiskTypes, disk, store, kept, OrphansGrow, AfterAbandon
<1>4. SafeProcess(p)'
  BY <1>1, KindFacts, RecordFacts
     DEF IInv, TypeOK, LocalTypes, OwnRecordExists, disk, store, kept, Goto,
         ProcessOK, TxSteps, ReconcileSteps, SummarySteps, CurSteps,
         OwnSteps, SelectSteps, HoldSteps, HandSteps, WatchSteps, HostSteps,
         LaterHostSteps, CliSteps, Ended, SafeProcess, KindOK, KnownJob,
         Selecting, UnbornOK, NamedOK, HoldOK, ReconcilerOK, FallenOK,
         WriteOK, BehindOK, AfterAbandon
<1>5. BossOK(p)'
  BY <1>1, KindFacts
     DEF IInv, TypeOK, ProcessOK, disk, store, kept, Goto, RuntimeAlive,
         Succeeded, Selecting, SummaryReturn, TxSteps, ReconcileSteps,
         SummarySteps, CurSteps, OwnSteps, SelectSteps, HoldSteps, CliSteps,
         Ended, RuntimeGone, AliveSteps, SafeProcess, KindOK, KnownJob,
         HoldOK, BossOK, Unstarted, HandSteps, WatchSteps, HostSteps,
         LaterHostSteps, AfterAbandon
<1>6. pc'[p] \in CliSteps
  BY <1>1
     DEF AfterAbandon, CliSteps, Ended, Goto, IInv, ProcessOK,
         ReconcileReturn, ReconcileSteps, SelectSteps, SummaryReturn,
         SummarySteps, TxSteps, TypeOK, WatchSteps
<1> QED BY <1>0, <1>1, <1>2, <1>3, <1>4, <1>5, <1>6, BossStepSafe

LEMMA AcquireLeaseSafe ==
  ASSUME IInv, LInv, NEW p \in Processes, p[1] = "cli", AcquireLease(p)
  PROVE  LInv'
<1>0. pc[p] \in BossSteps
  BY DEF BossSteps, SelectSteps, ReconcileSteps, WatchSteps, SummarySteps,
         AcquireLease
<1>1. /\ SafeProcess(p) /\ p = Boss(Own(p)) /\ BossOK(p) /\ LocalTypes(p)
      /\ ProcessOK(p) /\ DiskTypes
  BY <1>0, SafeAt, LeadAt, IInvAt
<1>2. LocalStep(p)
  BY DEF IInv, TypeOK, LocalStep, kept, Goto, AcquireLease
<1>3. UNCHANGED store /\ LeaseKept(p) /\ OrphansGrow(p)
  BY <1>1, LeaseSteps, KindFacts
     DEF DiskTypes, disk, store, kept, OrphansGrow, AcquireLease
<1>4. SafeProcess(p)'
  BY <1>1, KindFacts, RecordFacts
     DEF IInv, TypeOK, LocalTypes, OwnRecordExists, disk, store, kept, Goto,
         ProcessOK, TxSteps, ReconcileSteps, SummarySteps, CurSteps,
         OwnSteps, SelectSteps, HoldSteps, HandSteps, WatchSteps, HostSteps,
         LaterHostSteps, CliSteps, Ended, SafeProcess, KindOK, KnownJob,
         Selecting, UnbornOK, NamedOK, HoldOK, ReconcilerOK, FallenOK,
         WriteOK, BehindOK, AcquireLease, Acquire, FreeLease
<1>5. BossOK(p)'
  BY <1>1, KindFacts
     DEF IInv, TypeOK, ProcessOK, disk, store, kept, Goto, RuntimeAlive,
         Succeeded, Selecting, SummaryReturn, TxSteps, ReconcileSteps,
         SummarySteps, CurSteps, OwnSteps, SelectSteps, HoldSteps, CliSteps,
         Ended, RuntimeGone, AliveSteps, SafeProcess, KindOK, KnownJob,
         HoldOK, BossOK, Unstarted, HandSteps, WatchSteps, HostSteps,
         LaterHostSteps, AcquireLease
<1>6. pc'[p] \in CliSteps
  BY <1>1
     DEF AcquireLease, CliSteps, Ended, Goto, IInv, ProcessOK,
         ReconcileReturn, ReconcileSteps, SelectSteps, SummaryReturn,
         SummarySteps, TxSteps, TypeOK, WatchSteps
<1> QED BY <1>0, <1>1, <1>2, <1>3, <1>4, <1>5, <1>6, BossStepSafe

LEMMA FailLaunchSafe ==
  ASSUME IInv, LInv, NEW p \in Processes, p[1] \in {"cli", "host"}, FailLaunch(p)
  PROVE  LInv'
<1>0. pc[p] \in BossSteps
  BY DEF BossSteps, SelectSteps, ReconcileSteps, WatchSteps, SummarySteps,
         FailLaunch
<1>1. /\ SafeProcess(p) /\ p = Boss(Own(p)) /\ BossOK(p) /\ LocalTypes(p)
      /\ ProcessOK(p) /\ DiskTypes
  BY <1>0, SafeAt, LeadAt, IInvAt
<1>2. LocalStep(p)
  BY DEF IInv, TypeOK, LocalStep, kept, Goto, FailLaunch, Transition
<1>3. UNCHANGED store /\ LeaseKept(p) /\ OrphansGrow(p)
  BY <1>1, LeaseSteps, KindFacts
     DEF DiskTypes, disk, store, kept, OrphansGrow, FailLaunch
<1>4. SafeProcess(p)'
  BY <1>1, KindFacts, RecordFacts
     DEF IInv, TypeOK, LocalTypes, OwnRecordExists, disk, store, kept, Goto,
         ProcessOK, TxSteps, ReconcileSteps, SummarySteps, CurSteps,
         OwnSteps, SelectSteps, HoldSteps, HandSteps, WatchSteps, HostSteps,
         LaterHostSteps, CliSteps, Ended, SafeProcess, KindOK, KnownJob,
         Selecting, UnbornOK, NamedOK, HoldOK, ReconcilerOK, FallenOK,
         WriteOK, BehindOK, FailLaunch, Transition, Reconciling, Abandoning,
         Supervising, Running, None
<1>5. BossOK(p)'
  BY <1>1, KindFacts
     DEF IInv, TypeOK, ProcessOK, disk, store, kept, Goto, RuntimeAlive,
         Succeeded, Selecting, SummaryReturn, TxSteps, ReconcileSteps,
         SummarySteps, CurSteps, OwnSteps, SelectSteps, HoldSteps, CliSteps,
         Ended, RuntimeGone, AliveSteps, SafeProcess, KindOK, KnownJob,
         HoldOK, BossOK, Unstarted, HandSteps, WatchSteps, HostSteps,
         LaterHostSteps, FailLaunch, Transition
<1>6. pc'[p] \in CliSteps
  BY <1>1
     DEF CliSteps, Ended, FailLaunch, Goto, IInv, ProcessOK, ReconcileReturn,
         ReconcileSteps, SelectSteps, SummaryReturn, SummarySteps,
         Transition, TxSteps, TypeOK, WatchSteps
<1> QED BY <1>0, <1>1, <1>2, <1>3, <1>4, <1>5, <1>6, BossStepSafe

LEMMA ObserveExitSafe ==
  ASSUME IInv, LInv, NEW p \in Processes, p[1] \in {"cli", "host"}, ObserveExit(p)
  PROVE  LInv'
<1>0. pc[p] \in BossSteps
  BY DEF BossSteps, SelectSteps, ReconcileSteps, WatchSteps, SummarySteps,
         ObserveExit
<1>1. /\ SafeProcess(p) /\ p = Boss(Own(p)) /\ BossOK(p) /\ LocalTypes(p)
      /\ ProcessOK(p) /\ DiskTypes
  BY <1>0, SafeAt, LeadAt, IInvAt
<1>2. LocalStep(p)
  BY DEF IInv, TypeOK, LocalStep, kept, Goto, ObserveExit
<1>3. UNCHANGED store /\ LeaseKept(p) /\ OrphansGrow(p)
  BY <1>1, LeaseSteps, KindFacts
     DEF DiskTypes, disk, store, kept, OrphansGrow, ObserveExit
<1>4. SafeProcess(p)'
  BY <1>1, KindFacts, RecordFacts
     DEF IInv, TypeOK, LocalTypes, OwnRecordExists, disk, store, kept, Goto,
         ProcessOK, TxSteps, ReconcileSteps, SummarySteps, CurSteps,
         OwnSteps, SelectSteps, HoldSteps, HandSteps, WatchSteps, HostSteps,
         LaterHostSteps, CliSteps, Ended, SafeProcess, KindOK, KnownJob,
         Selecting, UnbornOK, NamedOK, HoldOK, ReconcilerOK, FallenOK,
         WriteOK, BehindOK, ObserveExit
<1>5. BossOK(p)'
  BY <1>1, KindFacts
     DEF IInv, TypeOK, ProcessOK, disk, store, kept, Goto, RuntimeAlive,
         Succeeded, Selecting, SummaryReturn, TxSteps, ReconcileSteps,
         SummarySteps, CurSteps, OwnSteps, SelectSteps, HoldSteps, CliSteps,
         Ended, RuntimeGone, AliveSteps, SafeProcess, KindOK, KnownJob,
         HoldOK, BossOK, Unstarted, HandSteps, WatchSteps, HostSteps,
         LaterHostSteps, ObserveExit
<1>6. pc'[p] \in CliSteps
  BY <1>1
     DEF CliSteps, Ended, Goto, IInv, ObserveExit, ProcessOK,
         ReconcileReturn, ReconcileSteps, SelectSteps, SummaryReturn,
         SummarySteps, TxSteps, TypeOK, WatchSteps
<1> QED BY <1>0, <1>1, <1>2, <1>3, <1>4, <1>5, <1>6, BossStepSafe

LEMMA ReconcileExitSafe ==
  ASSUME IInv, LInv, NEW p \in Processes, p[1] \in {"cli", "host"}, ReconcileExit(p)
  PROVE  LInv'
<1>0. pc[p] \in BossSteps
  BY DEF BossSteps, SelectSteps, ReconcileSteps, WatchSteps, SummarySteps,
         ReconcileExit
<1>1. /\ SafeProcess(p) /\ p = Boss(Own(p)) /\ BossOK(p) /\ LocalTypes(p)
      /\ ProcessOK(p) /\ DiskTypes
  BY <1>0, SafeAt, LeadAt, IInvAt
<1>2. LocalStep(p)
  BY DEF IInv, TypeOK, LocalStep, kept, Goto, ReconcileExit, PersistAbnormal,
     Conclude, GiveUp, Transition
<1>3. UNCHANGED store /\ LeaseKept(p) /\ OrphansGrow(p)
  BY <1>1, LeaseSteps, KindFacts
     DEF DiskTypes, disk, store, kept, OrphansGrow, ReconcileExit
<1>4. SafeProcess(p)'
  BY <1>1, KindFacts, RecordFacts
     DEF IInv, TypeOK, LocalTypes, OwnRecordExists, disk, store, kept, Goto,
         ProcessOK, TxSteps, ReconcileSteps, SummarySteps, CurSteps,
         OwnSteps, SelectSteps, HoldSteps, HandSteps, WatchSteps, HostSteps,
         LaterHostSteps, CliSteps, Ended, SafeProcess, KindOK, KnownJob,
         Selecting, UnbornOK, NamedOK, HoldOK, ReconcilerOK, FallenOK,
         WriteOK, BehindOK, ReconcileExit, PersistAbnormal, Conclude, GiveUp,
         Transition, Reconciling, Abandoning, Supervising, Running, None
<1>5. BossOK(p)'
  BY <1>1, KindFacts
     DEF IInv, TypeOK, ProcessOK, disk, store, kept, Goto, RuntimeAlive,
         Succeeded, Selecting, SummaryReturn, TxSteps, ReconcileSteps,
         SummarySteps, CurSteps, OwnSteps, SelectSteps, HoldSteps, CliSteps,
         Ended, RuntimeGone, AliveSteps, SafeProcess, KindOK, KnownJob,
         HoldOK, BossOK, Unstarted, HandSteps, WatchSteps, HostSteps,
         LaterHostSteps, ReconcileExit, PersistAbnormal, Conclude, GiveUp,
         Transition
<1>6. pc'[p] \in CliSteps
  BY <1>1
     DEF CliSteps, Conclude, Ended, GiveUp, Goto, IInv, PersistAbnormal,
         ProcessOK, ReconcileExit, ReconcileReturn, ReconcileSteps,
         SelectSteps, SummaryReturn, SummarySteps, Transition, TxSteps,
         TypeOK, WatchSteps
<1> QED BY <1>0, <1>1, <1>2, <1>3, <1>4, <1>5, <1>6, BossStepSafe

LEMMA RecoverExitSafe ==
  ASSUME IInv, LInv, NEW p \in Processes, p[1] \in {"cli", "host"}, RecoverExit(p)
  PROVE  LInv'
<1>0. pc[p] \in BossSteps
  BY DEF BossSteps, SelectSteps, ReconcileSteps, WatchSteps, SummarySteps,
         RecoverExit
<1>1. /\ SafeProcess(p) /\ p = Boss(Own(p)) /\ BossOK(p) /\ LocalTypes(p)
      /\ ProcessOK(p) /\ DiskTypes
  BY <1>0, SafeAt, LeadAt, IInvAt
<1>2. LocalStep(p)
  BY DEF IInv, TypeOK, LocalStep, kept, Goto, RecoverExit, PersistAbnormal,
     Conclude, Transition
<1>3. UNCHANGED store /\ LeaseKept(p) /\ OrphansGrow(p)
  BY <1>1, LeaseSteps, KindFacts
     DEF DiskTypes, disk, store, kept, OrphansGrow, RecoverExit
<1>4. SafeProcess(p)'
  BY <1>1, KindFacts, RecordFacts
     DEF IInv, TypeOK, LocalTypes, OwnRecordExists, disk, store, kept, Goto,
         ProcessOK, TxSteps, ReconcileSteps, SummarySteps, CurSteps,
         OwnSteps, SelectSteps, HoldSteps, HandSteps, WatchSteps, HostSteps,
         LaterHostSteps, CliSteps, Ended, SafeProcess, KindOK, KnownJob,
         Selecting, UnbornOK, NamedOK, HoldOK, ReconcilerOK, FallenOK,
         WriteOK, BehindOK, RecoverExit, PersistAbnormal, Conclude,
         Transition, Reconciling, Abandoning, Supervising, Running, None
<1>5. BossOK(p)'
  BY <1>1, KindFacts
     DEF IInv, TypeOK, ProcessOK, disk, store, kept, Goto, RuntimeAlive,
         Succeeded, Selecting, SummaryReturn, TxSteps, ReconcileSteps,
         SummarySteps, CurSteps, OwnSteps, SelectSteps, HoldSteps, CliSteps,
         Ended, RuntimeGone, AliveSteps, SafeProcess, KindOK, KnownJob,
         HoldOK, BossOK, Unstarted, HandSteps, WatchSteps, HostSteps,
         LaterHostSteps, RecoverExit, PersistAbnormal, Conclude, Transition
<1>6. pc'[p] \in CliSteps
  BY <1>1
     DEF CliSteps, Conclude, Ended, Goto, IInv, PersistAbnormal, ProcessOK,
         ReconcileReturn, ReconcileSteps, RecoverExit, SelectSteps,
         SummaryReturn, SummarySteps, Transition, TxSteps, TypeOK,
         WatchSteps
<1> QED BY <1>0, <1>1, <1>2, <1>3, <1>4, <1>5, <1>6, BossStepSafe

LEMMA BestEffortSafe ==
  ASSUME IInv, LInv, NEW p \in Processes, p[1] \in {"cli", "host"}, BestEffort(p)
  PROVE  LInv'
<1>0. pc[p] \in BossSteps
  BY DEF BossSteps, SelectSteps, ReconcileSteps, WatchSteps, SummarySteps,
         BestEffort
<1>1. /\ SafeProcess(p) /\ p = Boss(Own(p)) /\ BossOK(p) /\ LocalTypes(p)
      /\ ProcessOK(p) /\ DiskTypes
  BY <1>0, SafeAt, LeadAt, IInvAt
<1>2. LocalStep(p)
  BY DEF IInv, TypeOK, LocalStep, kept, Goto, BestEffort, Conclude, GiveUp
<1>3. UNCHANGED store /\ LeaseKept(p) /\ OrphansGrow(p)
  BY <1>1, LeaseSteps, KindFacts
     DEF DiskTypes, disk, store, kept, OrphansGrow, BestEffort
<1>4. SafeProcess(p)'
  BY <1>1, KindFacts, RecordFacts
     DEF IInv, TypeOK, LocalTypes, OwnRecordExists, disk, store, kept, Goto,
         ProcessOK, TxSteps, ReconcileSteps, SummarySteps, CurSteps,
         OwnSteps, SelectSteps, HoldSteps, HandSteps, WatchSteps, HostSteps,
         LaterHostSteps, CliSteps, Ended, SafeProcess, KindOK, KnownJob,
         Selecting, UnbornOK, NamedOK, HoldOK, ReconcilerOK, FallenOK,
         WriteOK, BehindOK, BestEffort, Conclude, GiveUp
<1>5. BossOK(p)'
  BY <1>1, KindFacts
     DEF IInv, TypeOK, ProcessOK, disk, store, kept, Goto, RuntimeAlive,
         Succeeded, Selecting, SummaryReturn, TxSteps, ReconcileSteps,
         SummarySteps, CurSteps, OwnSteps, SelectSteps, HoldSteps, CliSteps,
         Ended, RuntimeGone, AliveSteps, SafeProcess, KindOK, KnownJob,
         HoldOK, BossOK, Unstarted, HandSteps, WatchSteps, HostSteps,
         LaterHostSteps, BestEffort, Conclude, GiveUp
<1>6. pc'[p] \in CliSteps
  BY <1>1
     DEF BestEffort, CliSteps, Conclude, Ended, GiveUp, Goto, IInv,
         ProcessOK, ReconcileReturn, ReconcileSteps, SelectSteps,
         SummaryReturn, SummarySteps, TxSteps, TypeOK, WatchSteps
<1> QED BY <1>0, <1>1, <1>2, <1>3, <1>4, <1>5, <1>6, BossStepSafe

LEMMA ValidateSummarySafe ==
  ASSUME IInv, LInv, NEW p \in Processes, p[1] \in {"cli", "host"}, ValidateSummary(p)
  PROVE  LInv'
<1>0. pc[p] \in BossSteps
  BY DEF BossSteps, SelectSteps, ReconcileSteps, WatchSteps, SummarySteps,
         ValidateSummary
<1>1. /\ SafeProcess(p) /\ p = Boss(Own(p)) /\ BossOK(p) /\ LocalTypes(p)
      /\ ProcessOK(p) /\ DiskTypes
  BY <1>0, SafeAt, LeadAt, IInvAt
<1>2. LocalStep(p)
  BY DEF IInv, TypeOK, LocalStep, kept, Goto, ValidateSummary
<1>3. UNCHANGED store /\ LeaseKept(p) /\ OrphansGrow(p)
  BY <1>1, LeaseSteps, KindFacts
     DEF DiskTypes, disk, store, kept, OrphansGrow, ValidateSummary
<1>4. SafeProcess(p)'
  BY <1>1, KindFacts, RecordFacts
     DEF IInv, TypeOK, LocalTypes, OwnRecordExists, disk, store, kept, Goto,
         ProcessOK, TxSteps, ReconcileSteps, SummarySteps, CurSteps,
         OwnSteps, SelectSteps, HoldSteps, HandSteps, WatchSteps, HostSteps,
         LaterHostSteps, CliSteps, Ended, SafeProcess, KindOK, KnownJob,
         Selecting, UnbornOK, NamedOK, HoldOK, ReconcilerOK, FallenOK,
         WriteOK, BehindOK, ValidateSummary, SummaryReturn
<1>5. BossOK(p)'
  BY <1>1, KindFacts
     DEF IInv, TypeOK, ProcessOK, disk, store, kept, Goto, RuntimeAlive,
         Succeeded, Selecting, SummaryReturn, TxSteps, ReconcileSteps,
         SummarySteps, CurSteps, OwnSteps, SelectSteps, HoldSteps, CliSteps,
         Ended, RuntimeGone, AliveSteps, SafeProcess, KindOK, KnownJob,
         HoldOK, BossOK, Unstarted, HandSteps, WatchSteps, HostSteps,
         LaterHostSteps, ValidateSummary
<1>6. pc'[p] \in CliSteps
  BY <1>1
     DEF CliSteps, Ended, Goto, IInv, ProcessOK, ReconcileReturn,
         ReconcileSteps, SelectSteps, SummaryReturn, SummarySteps, TxSteps,
         TypeOK, ValidateSummary, WatchSteps
<1> QED BY <1>0, <1>1, <1>2, <1>3, <1>4, <1>5, <1>6, BossStepSafe

LEMMA RebuildLoadSafe ==
  ASSUME IInv, LInv, NEW p \in Processes, p[1] \in {"cli", "host"}, RebuildLoad(p)
  PROVE  LInv'
<1>0. pc[p] \in BossSteps
  BY DEF BossSteps, SelectSteps, ReconcileSteps, WatchSteps, SummarySteps,
         RebuildLoad
<1>1. /\ SafeProcess(p) /\ p = Boss(Own(p)) /\ BossOK(p) /\ LocalTypes(p)
      /\ ProcessOK(p) /\ DiskTypes
  BY <1>0, SafeAt, LeadAt, IInvAt
<1>2. LocalStep(p)
  BY DEF IInv, TypeOK, LocalStep, kept, Goto, RebuildLoad
<1>3. UNCHANGED store /\ LeaseKept(p) /\ OrphansGrow(p)
  BY <1>1, LeaseSteps, KindFacts
     DEF DiskTypes, disk, store, kept, OrphansGrow, RebuildLoad
<1>4. SafeProcess(p)'
  BY <1>1, KindFacts, RecordFacts
     DEF IInv, TypeOK, LocalTypes, OwnRecordExists, disk, store, kept, Goto,
         ProcessOK, TxSteps, ReconcileSteps, SummarySteps, CurSteps,
         OwnSteps, SelectSteps, HoldSteps, HandSteps, WatchSteps, HostSteps,
         LaterHostSteps, CliSteps, Ended, SafeProcess, KindOK, KnownJob,
         Selecting, UnbornOK, NamedOK, HoldOK, ReconcilerOK, FallenOK,
         WriteOK, BehindOK, RebuildLoad, Behind
<1>5. BossOK(p)'
  BY <1>1, KindFacts
     DEF IInv, TypeOK, ProcessOK, disk, store, kept, Goto, RuntimeAlive,
         Succeeded, Selecting, SummaryReturn, TxSteps, ReconcileSteps,
         SummarySteps, CurSteps, OwnSteps, SelectSteps, HoldSteps, CliSteps,
         Ended, RuntimeGone, AliveSteps, SafeProcess, KindOK, KnownJob,
         HoldOK, BossOK, Unstarted, HandSteps, WatchSteps, HostSteps,
         LaterHostSteps, RebuildLoad
<1>6. pc'[p] \in CliSteps
  BY <1>1
     DEF CliSteps, Ended, Goto, IInv, ProcessOK, RebuildLoad,
         ReconcileReturn, ReconcileSteps, SelectSteps, SummaryReturn,
         SummarySteps, TxSteps, TypeOK, WatchSteps
<1> QED BY <1>0, <1>1, <1>2, <1>3, <1>4, <1>5, <1>6, BossStepSafe

LEMMA RevalidateSafe ==
  ASSUME IInv, LInv, NEW p \in Processes, p[1] \in {"cli", "host"}, Revalidate(p)
  PROVE  LInv'
<1>0. pc[p] \in BossSteps
  BY DEF BossSteps, SelectSteps, ReconcileSteps, WatchSteps, SummarySteps,
         Revalidate
<1>1. /\ SafeProcess(p) /\ p = Boss(Own(p)) /\ BossOK(p) /\ LocalTypes(p)
      /\ ProcessOK(p) /\ DiskTypes
  BY <1>0, SafeAt, LeadAt, IInvAt
<1>2. LocalStep(p)
  BY DEF IInv, TypeOK, LocalStep, kept, Goto, Revalidate
<1>3. UNCHANGED store /\ LeaseKept(p) /\ OrphansGrow(p)
  BY <1>1, LeaseSteps, KindFacts
     DEF DiskTypes, disk, store, kept, OrphansGrow, Revalidate
<1>4. SafeProcess(p)'
  BY <1>1, KindFacts, RecordFacts
     DEF IInv, TypeOK, LocalTypes, OwnRecordExists, disk, store, kept, Goto,
         ProcessOK, TxSteps, ReconcileSteps, SummarySteps, CurSteps,
         OwnSteps, SelectSteps, HoldSteps, HandSteps, WatchSteps, HostSteps,
         LaterHostSteps, CliSteps, Ended, SafeProcess, KindOK, KnownJob,
         Selecting, UnbornOK, NamedOK, HoldOK, ReconcilerOK, FallenOK,
         WriteOK, BehindOK, Revalidate, SummaryReturn
<1>5. BossOK(p)'
  BY <1>1, KindFacts
     DEF IInv, TypeOK, ProcessOK, disk, store, kept, Goto, RuntimeAlive,
         Succeeded, Selecting, SummaryReturn, TxSteps, ReconcileSteps,
         SummarySteps, CurSteps, OwnSteps, SelectSteps, HoldSteps, CliSteps,
         Ended, RuntimeGone, AliveSteps, SafeProcess, KindOK, KnownJob,
         HoldOK, BossOK, Unstarted, HandSteps, WatchSteps, HostSteps,
         LaterHostSteps, Revalidate
<1>6. pc'[p] \in CliSteps
  BY <1>1
     DEF CliSteps, Ended, Goto, IInv, ProcessOK, ReconcileReturn,
         ReconcileSteps, Revalidate, SelectSteps, SummaryReturn,
         SummarySteps, TxSteps, TypeOK, WatchSteps
<1> QED BY <1>0, <1>1, <1>2, <1>3, <1>4, <1>5, <1>6, BossStepSafe

LEMMA ExitSafe ==
  ASSUME IInv, LInv, NEW p \in Processes, p[1] \in {"cli", "host"}, Exit(p)
  PROVE  LInv'
<1>1. /\ SafeProcess(p) /\ PairOK(Own(p)) /\ LocalTypes(p) /\ ProcessOK(p)
      /\ DiskTypes
  BY SafeAt, IInvAt
<1>2. LocalStep(p)
  BY DEF IInv, TypeOK, LocalStep, kept, Goto, Exit, ClearLocals
<1>3. UNCHANGED store /\ LeaseKept(p) /\ OrphansGrow(p)
  BY <1>1, LeaseSteps, KindFacts
     DEF DiskTypes, disk, store, kept, OrphansGrow, Exit, Orphans
<1>4. SafeProcess(p)'
  BY <1>1, KindFacts, RecordFacts
     DEF IInv, TypeOK, LocalTypes, OwnRecordExists, disk, store, kept, Goto,
         ProcessOK, TxSteps, ReconcileSteps, SummarySteps, CurSteps, OwnSteps,
         SelectSteps, HoldSteps, HandSteps, WatchSteps, HostSteps,
         LaterHostSteps, CliSteps, Ended, SafeProcess, KindOK, KnownJob,
         Selecting, UnbornOK, NamedOK, HoldOK, ReconcilerOK, FallenOK, WriteOK,
         BehindOK, Exit, ClearLocals
<1>5. CASE p = Boss(Own(p))
  <2>1. BossOK(p)
    BY <1>1, <1>5 DEF PairOK
  <2>2. BossOK(p)'
    BY <1>1, <2>1, KindFacts
       DEF IInv, TypeOK, store, Goto, BossOK, RuntimeAlive, Succeeded, Unstarted,
           Selecting, TxSteps, ReconcileSteps, SummarySteps, SelectSteps,
           HandSteps, HostSteps, Ended, RuntimeGone, Exit, ClearLocals, Orphans,
           Release
  <2>3. pc'[p] \in Ended /\ pc'[p] \in CliSteps
    BY DEF Exit, Goto, IInv, TypeOK, Ended, CliSteps
  <2>4. PairOK(Own(p))'
    BY <1>2, <1>5, <2>2, <2>3, BossMoves
  <2> QED BY <1>2, <1>3, <1>4, <2>4, QuietStepSafe
<1>6. CASE p # Boss(Own(p))
  <2>1. /\ p[1] = "cli" /\ p = Cli(Own(p)) /\ pc[Host(Own(p))] # "off"
        /\ Own(p) \in Sessions
    BY <1>6, <1>1, KindFacts DEF Boss, Exit, Ended
  <2>2. Own(p) \in orphaned' <=> Own(p) \in orphaned
    BY <1>1, <2>1, HostFacts DEF PairOK, BossOK, Boss, Exit, Orphans
  <2>3. InitiatorMovesOn(p)
    BY <1>1, <2>1
      DEF PairOK, HandoffOK, InitiatorMovesOn, LeftIt, Failing, TxSteps, Ended,
          Exit, Goto, IInv, TypeOK
  <2>4. PairOK(Own(p))'
    BY <1>2, <1>3, <1>6, <2>1, <2>2, <2>3, InitiatorMoves DEF store
  <2> QED BY <1>2, <1>3, <1>4, <2>4, QuietStepSafe
<1> QED BY <1>5, <1>6

LEMMA CrashSafe ==
  ASSUME IInv, LInv, NEW p \in Processes, p[1] \in {"cli", "host"}, Crash(p)
  PROVE  LInv'
<1>1. /\ SafeProcess(p) /\ PairOK(Own(p)) /\ LocalTypes(p) /\ ProcessOK(p)
      /\ DiskTypes
  BY SafeAt, IInvAt
<1>2. LocalStep(p)
  BY DEF IInv, TypeOK, LocalStep, kept, Goto, Crash, ClearLocals
<1>3. UNCHANGED store /\ LeaseKept(p) /\ OrphansGrow(p)
  BY <1>1, LeaseSteps, KindFacts
     DEF DiskTypes, disk, store, kept, OrphansGrow, Crash, Orphans
<1>4. SafeProcess(p)'
  BY <1>1, KindFacts, RecordFacts
     DEF IInv, TypeOK, LocalTypes, OwnRecordExists, disk, store, kept, Goto,
         ProcessOK, TxSteps, ReconcileSteps, SummarySteps, CurSteps, OwnSteps,
         SelectSteps, HoldSteps, HandSteps, WatchSteps, HostSteps,
         LaterHostSteps, CliSteps, Ended, SafeProcess, KindOK, KnownJob,
         Selecting, UnbornOK, NamedOK, HoldOK, ReconcilerOK, FallenOK, WriteOK,
         BehindOK, Crash, ClearLocals
<1>5. CASE p = Boss(Own(p))
  <2>1. BossOK(p)
    BY <1>1, <1>5 DEF PairOK
  <2>2. BossOK(p)'
    BY <1>1, <2>1, KindFacts
       DEF IInv, TypeOK, store, Goto, BossOK, RuntimeAlive, Succeeded, Unstarted,
           Selecting, TxSteps, ReconcileSteps, SummarySteps, SelectSteps,
           HandSteps, HostSteps, Ended, RuntimeGone, Crash, ClearLocals, Orphans,
           Release
  <2>3. pc'[p] \in Ended /\ pc'[p] \in CliSteps
    BY DEF Crash, Goto, IInv, TypeOK, Ended, CliSteps
  <2>4. PairOK(Own(p))'
    BY <1>2, <1>5, <2>2, <2>3, BossMoves
  <2> QED BY <1>2, <1>3, <1>4, <2>4, QuietStepSafe
<1>6. CASE p # Boss(Own(p))
  <2>1. /\ p[1] = "cli" /\ p = Cli(Own(p)) /\ pc[Host(Own(p))] # "off"
        /\ Own(p) \in Sessions
    BY <1>6, <1>1, KindFacts DEF Boss, Crash, Ended
  <2>2. Own(p) \in orphaned' <=> Own(p) \in orphaned
    BY <1>1, <2>1, HostFacts DEF PairOK, BossOK, Boss, Crash, Orphans
  <2>3. InitiatorMovesOn(p)
    BY <1>1, <2>1
      DEF PairOK, HandoffOK, InitiatorMovesOn, LeftIt, Failing, TxSteps, Ended,
          Crash, Goto, IInv, TypeOK
  <2>4. PairOK(Own(p))'
    BY <1>2, <1>3, <1>6, <2>1, <2>2, <2>3, InitiatorMoves DEF store
  <2> QED BY <1>2, <1>3, <1>4, <2>4, QuietStepSafe
<1> QED BY <1>5, <1>6

LEMMA BindSafe ==
  ASSUME IInv, LInv, NEW p \in Processes, p[1] = "runtime", Bind(p)
  PROVE  LInv'
<1>1. /\ SafeProcess(p) /\ LocalTypes(p) /\ ProcessOK(p) /\ DiskTypes
  BY SafeAt, IInvAt
<1>0. PICK b \in Processes : b = Boss(Own(p)) /\ Led(p, b)
  BY BossAt
<1>2. LocalStep(p)
  BY DEF IInv, TypeOK, LocalStep, kept, Goto, Bind
<1>3. UNCHANGED store /\ LeaseKept(p) /\ OrphansGrow(p)
  BY <1>1, LeaseSteps, KindFacts
     DEF DiskTypes, disk, store, kept, OrphansGrow, Bind
<1>4. SafeProcess(p)'
  BY <1>1, KindFacts, RecordFacts
     DEF IInv, TypeOK, LocalTypes, OwnRecordExists, disk, store, kept, Goto,
         ProcessOK, TxSteps, ReconcileSteps, SummarySteps, CurSteps,
         OwnSteps, HoldSteps, HandSteps, WatchSteps, RuntimeSteps, Ended,
         RuntimeGone, SafeProcess, KindOK, KnownJob, Selecting, UnbornOK,
         NamedOK, HoldOK, ReconcilerOK, FallenOK, WriteOK, BehindOK, Bind
<1>5. BossOK(b)'
  BY <1>0, <1>1, KindFacts
     DEF IInv, TypeOK, ProcessOK, disk, store, kept, Goto, RuntimeAlive,
         Succeeded, Selecting, SummaryReturn, TxSteps, ReconcileSteps,
         SummarySteps, CurSteps, OwnSteps, Ended, RuntimeGone, AliveSteps,
         SafeProcess, KindOK, KnownJob, HoldOK, BossOK, Unstarted, Led, Bind
<1>6. pc[p] # "off"
  BY DEF Bind
<1> QED BY <1>0, <1>2, <1>3, <1>4, <1>5, <1>6, RuntimeMoveSafe

LEMMA BindLeaseSafe ==
  ASSUME IInv, LInv, NEW p \in Processes, p[1] = "runtime", BindLease(p)
  PROVE  LInv'
<1>1. /\ SafeProcess(p) /\ LocalTypes(p) /\ ProcessOK(p) /\ DiskTypes
  BY SafeAt, IInvAt
<1>0. PICK b \in Processes : b = Boss(Own(p)) /\ Led(p, b)
  BY BossAt
<1>2. LocalStep(p)
  BY DEF IInv, TypeOK, LocalStep, kept, Goto, BindLease, Transition
<1>3. UNCHANGED store /\ LeaseKept(p) /\ OrphansGrow(p)
  BY <1>1, LeaseSteps, KindFacts
     DEF DiskTypes, disk, store, kept, OrphansGrow, BindLease
<1>4. SafeProcess(p)'
  BY <1>1, KindFacts, RecordFacts
     DEF IInv, TypeOK, LocalTypes, OwnRecordExists, disk, store, kept, Goto,
         ProcessOK, TxSteps, ReconcileSteps, SummarySteps, CurSteps,
         OwnSteps, HoldSteps, HandSteps, WatchSteps, RuntimeSteps, Ended,
         RuntimeGone, SafeProcess, KindOK, KnownJob, Selecting, UnbornOK,
         NamedOK, HoldOK, ReconcilerOK, FallenOK, WriteOK, BehindOK,
         BindLease, Transition, Reconciling, Abandoning, Supervising,
         Running, None
<1>5. BossOK(b)'
  BY <1>0, <1>1, KindFacts
     DEF IInv, TypeOK, ProcessOK, disk, store, kept, Goto, RuntimeAlive,
         Succeeded, Selecting, SummaryReturn, TxSteps, ReconcileSteps,
         SummarySteps, CurSteps, OwnSteps, Ended, RuntimeGone, AliveSteps,
         SafeProcess, KindOK, KnownJob, HoldOK, BossOK, Unstarted, Led,
         BindLease, Transition, FreeLease, Acquire
<1>6. pc[p] # "off"
  BY DEF BindLease
<1> QED BY <1>0, <1>2, <1>3, <1>4, <1>5, <1>6, RuntimeMoveSafe

LEMMA HandlerInspectsSafe ==
  ASSUME IInv, LInv, NEW p \in Processes, p[1] = "runtime", HandlerInspects(p)
  PROVE  LInv'
<1>1. /\ SafeProcess(p) /\ LocalTypes(p) /\ ProcessOK(p) /\ DiskTypes
  BY SafeAt, IInvAt
<1>0. PICK b \in Processes : b = Boss(Own(p)) /\ Led(p, b)
  BY BossAt
<1>2. LocalStep(p)
  BY DEF IInv, TypeOK, LocalStep, kept, Goto, HandlerInspects
<1>3. UNCHANGED store /\ LeaseKept(p) /\ OrphansGrow(p)
  BY <1>1, LeaseSteps, KindFacts
     DEF DiskTypes, disk, store, kept, OrphansGrow, HandlerInspects
<1>4. SafeProcess(p)'
  BY <1>1, KindFacts, RecordFacts
     DEF IInv, TypeOK, LocalTypes, OwnRecordExists, disk, store, kept, Goto,
         ProcessOK, TxSteps, ReconcileSteps, SummarySteps, CurSteps,
         OwnSteps, HoldSteps, HandSteps, WatchSteps, RuntimeSteps, Ended,
         RuntimeGone, SafeProcess, KindOK, KnownJob, Selecting, UnbornOK,
         NamedOK, HoldOK, ReconcilerOK, FallenOK, WriteOK, BehindOK,
         HandlerInspects
<1>5. BossOK(b)'
  BY <1>0, <1>1, KindFacts
     DEF IInv, TypeOK, ProcessOK, disk, store, kept, Goto, RuntimeAlive,
         Succeeded, Selecting, SummaryReturn, TxSteps, ReconcileSteps,
         SummarySteps, CurSteps, OwnSteps, Ended, RuntimeGone, AliveSteps,
         SafeProcess, KindOK, KnownJob, HoldOK, BossOK, Unstarted, Led,
         HandlerInspects, FreeLease, Acquire
<1>6. pc[p] # "off"
  BY DEF HandlerInspects
<1> QED BY <1>0, <1>2, <1>3, <1>4, <1>5, <1>6, RuntimeMoveSafe

LEMMA InspectionDropSafe ==
  ASSUME IInv, LInv, NEW p \in Processes, p[1] = "runtime", InspectionDrop(p)
  PROVE  LInv'
<1>1. /\ SafeProcess(p) /\ LocalTypes(p) /\ ProcessOK(p) /\ DiskTypes
  BY SafeAt, IInvAt
<1>0. PICK b \in Processes : b = Boss(Own(p)) /\ Led(p, b)
  BY BossAt
<1>2. LocalStep(p)
  BY DEF IInv, TypeOK, LocalStep, kept, Goto, InspectionDrop
<1>3. UNCHANGED store /\ LeaseKept(p) /\ OrphansGrow(p)
  BY <1>1, LeaseSteps, KindFacts
     DEF DiskTypes, disk, store, kept, OrphansGrow, InspectionDrop
<1>4. SafeProcess(p)'
  BY <1>1, KindFacts, RecordFacts
     DEF IInv, TypeOK, LocalTypes, OwnRecordExists, disk, store, kept, Goto,
         ProcessOK, TxSteps, ReconcileSteps, SummarySteps, CurSteps,
         OwnSteps, HoldSteps, HandSteps, WatchSteps, RuntimeSteps, Ended,
         RuntimeGone, SafeProcess, KindOK, KnownJob, Selecting, UnbornOK,
         NamedOK, HoldOK, ReconcilerOK, FallenOK, WriteOK, BehindOK,
         InspectionDrop
<1>5. BossOK(b)'
  BY <1>0, <1>1, KindFacts
     DEF IInv, TypeOK, ProcessOK, disk, store, kept, Goto, RuntimeAlive,
         Succeeded, Selecting, SummaryReturn, TxSteps, ReconcileSteps,
         SummarySteps, CurSteps, OwnSteps, Ended, RuntimeGone, AliveSteps,
         SafeProcess, KindOK, KnownJob, HoldOK, BossOK, Unstarted, Led,
         InspectionDrop, Release
<1>6. pc[p] # "off"
  BY DEF InspectionDrop
<1> QED BY <1>0, <1>2, <1>3, <1>4, <1>5, <1>6, RuntimeMoveSafe

LEMMA HandlerReturnsSafe ==
  ASSUME IInv, LInv, NEW p \in Processes, p[1] = "runtime", HandlerReturns(p)
  PROVE  LInv'
<1>1. /\ SafeProcess(p) /\ LocalTypes(p) /\ ProcessOK(p) /\ DiskTypes
  BY SafeAt, IInvAt
<1>0. PICK b \in Processes : b = Boss(Own(p)) /\ Led(p, b)
  BY BossAt
<1>2. LocalStep(p)
  BY DEF IInv, TypeOK, LocalStep, kept, Goto, HandlerReturns, Transition
<1>3. UNCHANGED store /\ LeaseKept(p) /\ OrphansGrow(p)
  BY <1>1, LeaseSteps, KindFacts
     DEF DiskTypes, disk, store, kept, OrphansGrow, HandlerReturns
<1>4. SafeProcess(p)'
  BY <1>1, KindFacts, RecordFacts
     DEF IInv, TypeOK, LocalTypes, OwnRecordExists, disk, store, kept, Goto,
         ProcessOK, TxSteps, ReconcileSteps, SummarySteps, CurSteps,
         OwnSteps, HoldSteps, HandSteps, WatchSteps, RuntimeSteps, Ended,
         RuntimeGone, SafeProcess, KindOK, KnownJob, Selecting, UnbornOK,
         NamedOK, HoldOK, ReconcilerOK, FallenOK, WriteOK, BehindOK,
         HandlerReturns, Transition, Reconciling, Abandoning, Supervising,
         Running, None
<1>5. BossOK(b)'
  BY <1>0, <1>1, KindFacts
     DEF IInv, TypeOK, ProcessOK, disk, store, kept, Goto, RuntimeAlive,
         Succeeded, Selecting, SummaryReturn, TxSteps, ReconcileSteps,
         SummarySteps, CurSteps, OwnSteps, Ended, RuntimeGone, AliveSteps,
         SafeProcess, KindOK, KnownJob, HoldOK, BossOK, Unstarted, Led,
         HandlerReturns, Transition
<1>6. pc[p] # "off"
  BY DEF HandlerReturns
<1> QED BY <1>0, <1>2, <1>3, <1>4, <1>5, <1>6, RuntimeMoveSafe

LEMMA RuntimeExitsSafe ==
  ASSUME IInv, LInv, NEW p \in Processes, p[1] = "runtime", RuntimeExits(p)
  PROVE  LInv'
<1>1. /\ SafeProcess(p) /\ LocalTypes(p) /\ ProcessOK(p) /\ DiskTypes
  BY SafeAt, IInvAt
<1>0. PICK b \in Processes : b = Boss(Own(p)) /\ Led(p, b)
  BY BossAt
<1>2. LocalStep(p)
  BY DEF IInv, TypeOK, LocalStep, kept, Goto, RuntimeExits
<1>3. UNCHANGED store /\ LeaseKept(p) /\ OrphansGrow(p)
  BY <1>1, LeaseSteps, KindFacts
     DEF DiskTypes, disk, store, kept, OrphansGrow, RuntimeExits
<1>4. SafeProcess(p)'
  BY <1>1, KindFacts, RecordFacts
     DEF IInv, TypeOK, LocalTypes, OwnRecordExists, disk, store, kept, Goto,
         ProcessOK, TxSteps, ReconcileSteps, SummarySteps, CurSteps,
         OwnSteps, HoldSteps, HandSteps, WatchSteps, RuntimeSteps, Ended,
         RuntimeGone, SafeProcess, KindOK, KnownJob, Selecting, UnbornOK,
         NamedOK, HoldOK, ReconcilerOK, FallenOK, WriteOK, BehindOK,
         RuntimeExits
<1>5. BossOK(b)'
  BY <1>0, <1>1, KindFacts
     DEF IInv, TypeOK, ProcessOK, disk, store, kept, Goto, RuntimeAlive,
         Succeeded, Selecting, SummaryReturn, TxSteps, ReconcileSteps,
         SummarySteps, CurSteps, OwnSteps, Ended, RuntimeGone, AliveSteps,
         SafeProcess, KindOK, KnownJob, HoldOK, BossOK, Unstarted, Led,
         RuntimeExits
<1>6. pc[p] # "off"
  BY DEF RuntimeExits
<1> QED BY <1>0, <1>2, <1>3, <1>4, <1>5, <1>6, RuntimeMoveSafe

LEMMA RuntimeKilledSafe ==
  ASSUME IInv, LInv, NEW p \in Processes, p[1] = "runtime", RuntimeKilled(p)
  PROVE  LInv'
<1>1. /\ SafeProcess(p) /\ LocalTypes(p) /\ ProcessOK(p) /\ DiskTypes
  BY SafeAt, IInvAt
<1>0. PICK b \in Processes : b = Boss(Own(p)) /\ Led(p, b)
  BY BossAt
<1>2. LocalStep(p)
  BY DEF IInv, TypeOK, LocalStep, kept, Goto, RuntimeKilled, Return
<1>3. UNCHANGED store /\ LeaseKept(p) /\ OrphansGrow(p)
  BY <1>1, LeaseSteps, KindFacts
     DEF DiskTypes, disk, store, kept, OrphansGrow, RuntimeKilled
<1>4. SafeProcess(p)'
  BY <1>1, KindFacts, RecordFacts
     DEF IInv, TypeOK, LocalTypes, OwnRecordExists, disk, store, kept, Goto,
         ProcessOK, TxSteps, ReconcileSteps, SummarySteps, CurSteps,
         OwnSteps, HoldSteps, HandSteps, WatchSteps, RuntimeSteps, Ended,
         RuntimeGone, SafeProcess, KindOK, KnownJob, Selecting, UnbornOK,
         NamedOK, HoldOK, ReconcilerOK, FallenOK, WriteOK, BehindOK,
         RuntimeKilled, Return
<1>5. BossOK(b)'
  BY <1>0, <1>1, KindFacts
     DEF IInv, TypeOK, ProcessOK, disk, store, kept, Goto, RuntimeAlive,
         Succeeded, Selecting, SummaryReturn, TxSteps, ReconcileSteps,
         SummarySteps, CurSteps, OwnSteps, Ended, RuntimeGone, AliveSteps,
         SafeProcess, KindOK, KnownJob, HoldOK, BossOK, Unstarted, Led,
         RuntimeKilled, Return, Release
<1>6. pc[p] # "off"
  BY DEF RuntimeKilled, RuntimeGone
<1> QED BY <1>0, <1>2, <1>3, <1>4, <1>5, <1>6, RuntimeMoveSafe

-----------------------------------------------------------------------------
(* Steps that write the summary.                                           *)

LEMMA SummaryFromRecord ==
  ASSUME NEW s \in Sessions, NEW r, Behind(r, s), record[s] # NoRecord,
         summary' = SummaryOf(s, r), UNCHANGED record
  PROVE  SummaryOK'
BY DEF SummaryOK, SummaryNeverAhead, SummaryOf, Behind

LEMMA SummaryOfOrphan ==
  ASSUME NEW s \in Sessions, NEW r, s \in orphaned', record[s] # NoRecord,
         summary' = SummaryOf(s, r), UNCHANGED record
  PROVE  SummaryOK'
BY DEF SummaryOK, SummaryNeverAhead, SummaryOf

LEMMA TransitionSummarySafe ==
  ASSUME IInv, LInv, NEW p \in Processes, TransitionSummary(p), UNCHANGED kept
  PROVE  LInv'
<1>1. /\ SafeProcess(p) /\ PairOK(Own(p)) /\ LocalTypes(p) /\ ProcessOK(p)
      /\ DiskTypes /\ SummaryOK
  BY SafeAt, IInvAt DEF LInv
<1>2. LocalStep(p)
  BY DEF IInv, TypeOK, LocalStep, kept, Goto, TransitionSummary, Return
<1>3. UNCHANGED record /\ LeaseKept(p) /\ OrphansGrow(p) /\ UNCHANGED <<lease, cur, back>>
  BY <1>1, LeaseSteps, KindFacts DEF DiskTypes, kept, OrphansGrow, TransitionSummary
<1>4. /\ cur[p] \in Sessions /\ JobOK(p) /\ pc[p] = "txSummary"
      /\ record[cur[p]] # NoRecord
      /\ Reconciling(p) \/ Abandoning(p) \/ Supervising(p) \/ Running(p)
  BY <1>1
    DEF ProcessOK, CurSteps, TxSteps, TransitionSummary, SafeProcess, NamedOK,
        KnownJob
<1>5. \/ pc'[p] = job[p].done /\ snap'[p] = snap[p]
      \/ pc'[p] = job[p].fail /\ snap'[p] = NoRecord
  BY DEF TransitionSummary, Return, Goto, IInv, TypeOK
<1>6. SafeProcess(p)'
  BY <1>1, <1>3, <1>4, <1>5, KindFacts
     DEF IInv, TypeOK, LocalTypes, OwnRecordExists, kept, ProcessOK, JobOK,
         ReconcileReturn, SummaryReturn, TxSteps, ReconcileSteps, SummarySteps,
         CurSteps, OwnSteps, SelectSteps, HoldSteps, HandSteps, WatchSteps,
         HostSteps, LaterHostSteps, CliSteps, RuntimeSteps, Ended, RuntimeGone,
         SafeProcess, KindOK, KnownJob, Selecting, UnbornOK, NamedOK, HoldOK,
         ReconcilerOK, FallenOK, Fallen, WriteOK, BehindOK, Reconciling,
         Abandoning, Supervising, Running
<1>7. PairOK(Own(p))'
  BY <1>2, <1>3, <1>4, <1>5, TransitionMoves DEF kept, TxSteps
<1>8. SummaryOK'
  <2>1. CASE summary' = summary
    BY <1>1, <1>3, <2>1 DEF SummaryOK, SummaryNeverAhead, SummaryOf, OrphansGrow
  <2>2. CASE summary' = SummaryOf(cur[p], snap[p])
    <3>1. Behind(snap[p], cur[p]) \/ cur[p] \in orphaned
      BY <1>1, <1>4 DEF SafeProcess, BehindOK
    <3>2. orphaned' = orphaned
      BY DEF kept
    <3> QED
      BY <1>3, <1>4, <2>2, <3>1, <3>2, SummaryFromRecord, SummaryOfOrphan
  <2> QED BY <2>1, <2>2 DEF TransitionSummary
<1> QED BY <1>2, <1>3, <1>6, <1>7, <1>8, LocalStepSafe

LEMMA CreateSummarySafe ==
  ASSUME IInv, LInv, NEW p \in Processes, p[1] = "cli", CreateSummary(p)
  PROVE  LInv'
<1>0. pc[p] \in BossSteps
  BY DEF BossSteps, WatchSteps, SummarySteps, CreateSummary
<1>1. /\ SafeProcess(p) /\ p = Boss(Own(p)) /\ BossOK(p) /\ LocalTypes(p)
      /\ ProcessOK(p) /\ DiskTypes /\ SummaryOK
  BY <1>0, SafeAt, LeadAt, IInvAt DEF LInv
<1>2. LocalStep(p)
  BY DEF IInv, TypeOK, LocalStep, kept, Goto, CreateSummary
<1>3. /\ UNCHANGED record /\ LeaseKept(p) /\ OrphansGrow(p)
      /\ Own(p) \in Sessions /\ record[Own(p)] # NoRecord
  BY <1>1, LeaseSteps, KindFacts, RecordFacts
    DEF DiskTypes, kept, OrphansGrow, CreateSummary, ProcessOK, OwnSteps,
        OwnRecordExists
<1>4. SafeProcess(p)'
  BY <1>1, <1>3, KindFacts
     DEF IInv, TypeOK, LocalTypes, kept, Goto, CreateSummary, TxSteps,
         ReconcileSteps, SummarySteps, CurSteps, SelectSteps, HoldSteps,
         HandSteps, WatchSteps, LaterHostSteps, CliSteps, Ended, SafeProcess,
         KindOK, KnownJob, Selecting, UnbornOK, NamedOK, HoldOK, ReconcilerOK,
         FallenOK, WriteOK, BehindOK
<1>5. PairOK(Own(p))'
  <2>1. BossOK(p)'
    BY <1>1, <1>3, KindFacts
      DEF IInv, TypeOK, kept, Goto, CreateSummary, BossOK, RuntimeAlive, Succeeded,
          Unstarted, Selecting, TxSteps, ReconcileSteps, SummarySteps,
          SelectSteps, HandSteps, HostSteps, Ended, RuntimeGone, AliveSteps
  <2>2. pc'[p] \in CliSteps
    BY DEF IInv, TypeOK, Goto, CreateSummary, CliSteps, WatchSteps, SummarySteps
  <2> QED BY <1>0, <1>1, <1>2, <2>1, <2>2, BossMoves
<1>6. SummaryOK'
  <2>1. CASE summary' = summary
    BY <1>1, <1>3, <2>1 DEF SummaryOK, SummaryNeverAhead, SummaryOf, OrphansGrow
  <2>2. CASE summary' = SummaryOf(Own(p), snap[p])
    <3>1. Behind(snap[p], Own(p))
      BY <1>1 DEF SafeProcess, BehindOK, CreateSummary
    <3> QED BY <1>3, <2>2, <3>1, SummaryFromRecord
  <2> QED BY <2>1, <2>2 DEF CreateSummary
<1> QED BY <1>2, <1>3, <1>4, <1>5, <1>6, LocalStepSafe

LEMMA RebuildWriteSafe ==
  ASSUME IInv, LInv, NEW p \in Processes, p[1] \in {"cli", "host"}, RebuildWrite(p)
  PROVE  LInv'
<1>0. pc[p] \in BossSteps
  BY DEF BossSteps, WatchSteps, SummarySteps, RebuildWrite
<1>1. /\ SafeProcess(p) /\ p = Boss(Own(p)) /\ BossOK(p) /\ LocalTypes(p)
      /\ ProcessOK(p) /\ DiskTypes /\ SummaryOK
  BY <1>0, SafeAt, LeadAt, IInvAt DEF LInv
<1>2. LocalStep(p)
  BY DEF IInv, TypeOK, LocalStep, Goto, RebuildWrite
<1>3. /\ UNCHANGED record /\ LeaseKept(p) /\ OrphansGrow(p)
      /\ Own(p) \in Sessions /\ record[Own(p)] # NoRecord
  BY <1>1, LeaseSteps, KindFacts, RecordFacts
    DEF DiskTypes, OrphansGrow, RebuildWrite, ProcessOK, OwnSteps, SummarySteps,
        OwnRecordExists
<1>4. SafeProcess(p)'
  BY <1>1, <1>3, KindFacts
     DEF IInv, TypeOK, LocalTypes, Goto, RebuildWrite, TxSteps, ReconcileSteps,
         SummarySteps, CurSteps, SelectSteps, HoldSteps, HandSteps, WatchSteps,
         LaterHostSteps, CliSteps, Ended, SafeProcess, KindOK, KnownJob,
         Selecting, UnbornOK, NamedOK, HoldOK, ReconcilerOK, FallenOK, WriteOK,
         BehindOK
<1>5. PairOK(Own(p))'
  <2>1. BossOK(p)'
    BY <1>1, <1>3, KindFacts
      DEF IInv, TypeOK, Goto, RebuildWrite, BossOK, RuntimeAlive, Succeeded,
          Unstarted, Selecting, TxSteps, ReconcileSteps, SummarySteps,
          SelectSteps, HandSteps, HostSteps, Ended, RuntimeGone, AliveSteps
  <2>2. pc'[p] \in CliSteps
    BY DEF IInv, TypeOK, Goto, RebuildWrite, CliSteps, WatchSteps, SummarySteps
  <2> QED BY <1>0, <1>1, <1>2, <2>1, <2>2, BossMoves
<1>6. SummaryOK'
  <2>1. CASE summary' = summary
    BY <1>1, <1>3, <2>1 DEF SummaryOK, SummaryNeverAhead, SummaryOf, OrphansGrow
  <2>2. CASE summary' = SummaryOf(Own(p), fresh[p])
    <3>1. Behind(fresh[p], Own(p))
      BY <1>1 DEF SafeProcess, BehindOK, RebuildWrite
    <3> QED BY <1>3, <2>2, <3>1, SummaryFromRecord
  <2> QED BY <2>1, <2>2 DEF RebuildWrite
<1> QED BY <1>2, <1>3, <1>4, <1>5, <1>6, LocalStepSafe

-----------------------------------------------------------------------------
(* The transitions and reconciliations.                                    *)

LEMMA ReconcileLoadSafe ==
  ASSUME IInv, LInv, NEW p \in Processes, p[1] = "cli", ReconcileLoad(p), UNCHANGED kept
  PROVE  LInv'
<1>0. pc[p] \in BossSteps
  BY DEF BossSteps, SelectSteps, ReconcileSteps, WatchSteps, SummarySteps,
         ReconcileLoad
<1>1. /\ SafeProcess(p) /\ p = Boss(Own(p)) /\ BossOK(p) /\ LocalTypes(p)
      /\ ProcessOK(p) /\ DiskTypes
  BY <1>0, SafeAt, LeadAt, IInvAt
<1>2. LocalStep(p)
  BY DEF IInv, TypeOK, LocalStep, kept, Goto, ReconcileLoad
<1>3. UNCHANGED store /\ LeaseKept(p) /\ OrphansGrow(p)
  BY <1>1, LeaseSteps, KindFacts
     DEF DiskTypes, disk, store, kept, OrphansGrow, ReconcileLoad,
        ProcessOK, CurSteps, ReconcileSteps
<1>4. SafeProcess(p)'
  BY <1>1, KindFacts, RecordFacts
     DEF IInv, TypeOK, LocalTypes, OwnRecordExists, disk, store, kept, Goto,
         ProcessOK, TxSteps, ReconcileSteps, SummarySteps, CurSteps,
         OwnSteps, SelectSteps, HoldSteps, HandSteps, WatchSteps, HostSteps,
         LaterHostSteps, CliSteps, Ended, SafeProcess, KindOK, KnownJob,
         Selecting, UnbornOK, NamedOK, HoldOK, ReconcilerOK, FallenOK,
         WriteOK, BehindOK, ReconcileLoad, ReconcileReturn
<1>5. BossOK(p)'
  BY <1>1, KindFacts
     DEF IInv, TypeOK, ProcessOK, disk, store, kept, Goto, RuntimeAlive,
         Succeeded, Selecting, SummaryReturn, TxSteps, ReconcileSteps,
         SummarySteps, CurSteps, OwnSteps, SelectSteps, HoldSteps, CliSteps,
         Ended, RuntimeGone, AliveSteps, SafeProcess, KindOK, KnownJob,
         HoldOK, BossOK, Unstarted, HandSteps, WatchSteps, HostSteps,
         LaterHostSteps, ReconcileLoad, ReconcileReturn
<1>6. pc'[p] \in CliSteps
  BY <1>1
     DEF CliSteps, Ended, Goto, IInv, ProcessOK, ReconcileLoad,
         ReconcileReturn, ReconcileSteps, SelectSteps, SummaryReturn,
         SummarySteps, TxSteps, TypeOK, WatchSteps
<1> QED BY <1>0, <1>1, <1>2, <1>3, <1>4, <1>5, <1>6, BossStepSafe

LEMMA ReconcileLockSafe ==
  ASSUME IInv, LInv, NEW p \in Processes, p[1] = "cli", ReconcileLock(p), UNCHANGED kept
  PROVE  LInv'
<1>0. pc[p] \in BossSteps
  BY DEF BossSteps, SelectSteps, ReconcileSteps, WatchSteps, SummarySteps,
         ReconcileLock
<1>1. /\ SafeProcess(p) /\ p = Boss(Own(p)) /\ BossOK(p) /\ LocalTypes(p)
      /\ ProcessOK(p) /\ DiskTypes
  BY <1>0, SafeAt, LeadAt, IInvAt
<1>2. LocalStep(p)
  BY DEF IInv, TypeOK, LocalStep, kept, Goto, ReconcileLock, Transition
<1>3. UNCHANGED store /\ LeaseKept(p) /\ OrphansGrow(p)
  BY <1>1, LeaseSteps, KindFacts
     DEF DiskTypes, disk, store, kept, OrphansGrow, ReconcileLock,
        ProcessOK, CurSteps, ReconcileSteps
<1>4. SafeProcess(p)'
  BY <1>1, KindFacts, RecordFacts
     DEF IInv, TypeOK, LocalTypes, OwnRecordExists, disk, store, kept, Goto,
         ProcessOK, TxSteps, ReconcileSteps, SummarySteps, CurSteps,
         OwnSteps, SelectSteps, HoldSteps, HandSteps, WatchSteps, HostSteps,
         LaterHostSteps, CliSteps, Ended, SafeProcess, KindOK, KnownJob,
         Selecting, UnbornOK, NamedOK, HoldOK, ReconcilerOK, FallenOK,
         WriteOK, BehindOK, ReconcileLock, Transition, ReconcileReturn,
         FreeLease, Acquire, Reconciling, Abandoning, Supervising, Running,
         None
<1>5. BossOK(p)'
  BY <1>1, KindFacts
     DEF IInv, TypeOK, ProcessOK, disk, store, kept, Goto, RuntimeAlive,
         Succeeded, Selecting, SummaryReturn, TxSteps, ReconcileSteps,
         SummarySteps, CurSteps, OwnSteps, SelectSteps, HoldSteps, CliSteps,
         Ended, RuntimeGone, AliveSteps, SafeProcess, KindOK, KnownJob,
         HoldOK, BossOK, Unstarted, HandSteps, WatchSteps, HostSteps,
         LaterHostSteps, ReconcileLock, Transition, ReconcileReturn,
         FreeLease, Acquire
<1>6. pc'[p] \in CliSteps
  BY <1>1
     DEF CliSteps, Ended, Goto, IInv, ProcessOK, ReconcileLock,
         ReconcileReturn, ReconcileSteps, SelectSteps, SummaryReturn,
         SummarySteps, Transition, TxSteps, TypeOK, WatchSteps
<1> QED BY <1>0, <1>1, <1>2, <1>3, <1>4, <1>5, <1>6, BossStepSafe

LEMMA ReconcileDropSafe ==
  ASSUME IInv, LInv, NEW p \in Processes, p[1] = "cli", ReconcileDrop(p), UNCHANGED kept
  PROVE  LInv'
<1>0. pc[p] \in BossSteps
  BY DEF BossSteps, SelectSteps, ReconcileSteps, WatchSteps, SummarySteps,
         ReconcileDrop
<1>1. /\ SafeProcess(p) /\ p = Boss(Own(p)) /\ BossOK(p) /\ LocalTypes(p)
      /\ ProcessOK(p) /\ DiskTypes
  BY <1>0, SafeAt, LeadAt, IInvAt
<1>2. LocalStep(p)
  BY DEF IInv, TypeOK, LocalStep, kept, Goto, ReconcileDrop
<1>3. UNCHANGED store /\ LeaseKept(p) /\ OrphansGrow(p)
  BY <1>1, LeaseSteps, KindFacts
     DEF DiskTypes, disk, store, kept, OrphansGrow, ReconcileDrop,
        ProcessOK, CurSteps, ReconcileSteps
<1>4. SafeProcess(p)'
  BY <1>1, KindFacts, RecordFacts
     DEF IInv, TypeOK, LocalTypes, OwnRecordExists, disk, store, kept, Goto,
         ProcessOK, TxSteps, ReconcileSteps, SummarySteps, CurSteps,
         OwnSteps, SelectSteps, HoldSteps, HandSteps, WatchSteps, HostSteps,
         LaterHostSteps, CliSteps, Ended, SafeProcess, KindOK, KnownJob,
         Selecting, UnbornOK, NamedOK, HoldOK, ReconcilerOK, FallenOK,
         WriteOK, BehindOK, ReconcileDrop, ReconcileReturn, Release, Fallen
<1>5. BossOK(p)'
  BY <1>1, KindFacts
     DEF IInv, TypeOK, ProcessOK, disk, store, kept, Goto, RuntimeAlive,
         Succeeded, Selecting, SummaryReturn, TxSteps, ReconcileSteps,
         SummarySteps, CurSteps, OwnSteps, SelectSteps, HoldSteps, CliSteps,
         Ended, RuntimeGone, AliveSteps, SafeProcess, KindOK, KnownJob,
         HoldOK, BossOK, Unstarted, HandSteps, WatchSteps, HostSteps,
         LaterHostSteps, ReconcileDrop, ReconcileReturn, Release
<1>6. pc'[p] \in CliSteps
  BY <1>1
     DEF CliSteps, Ended, Goto, IInv, ProcessOK, ReconcileDrop,
         ReconcileReturn, ReconcileSteps, SelectSteps, SummaryReturn,
         SummarySteps, TxSteps, TypeOK, WatchSteps
<1> QED BY <1>0, <1>1, <1>2, <1>3, <1>4, <1>5, <1>6, BossStepSafe

\* A transition computes the new record from the one it loads.
LEMMA TransitionLoadSafe ==
  ASSUME IInv, LInv, NEW p \in Processes, TransitionLoad(p), UNCHANGED kept
  PROVE  LInv'
<1> DEFINE r  == record[cur[p]]
           r2 == ApplyTransition(r, job[p].to, job[p].why)
<1>1. /\ SafeProcess(p) /\ PairOK(Own(p)) /\ LocalTypes(p) /\ ProcessOK(p)
      /\ DiskTypes
  BY SafeAt, IInvAt
<1>2. LocalStep(p)
  BY DEF IInv, TypeOK, LocalStep, kept, Goto, TransitionLoad, Return
<1>3. /\ UNCHANGED <<record, lease, cur, back, want, fresh, orphaned>>
      /\ UNCHANGED store /\ LeaseKept(p) /\ OrphansGrow(p)
  BY <1>1, LeaseSteps, KindFacts
    DEF DiskTypes, disk, store, kept, OrphansGrow, TransitionLoad
<1>4. /\ cur[p] \in Sessions /\ JobOK(p) /\ pc[p] = "txLoad" /\ r # NoRecord
      /\ Reconciling(p) \/ Abandoning(p) \/ Supervising(p) \/ Running(p)
  BY <1>1
    DEF ProcessOK, CurSteps, TxSteps, TransitionLoad, SafeProcess, NamedOK, KnownJob
<1>5. \/ pc'[p] = "txWrite" /\ snap'[p] = r2 /\ job' = job /\ Legal(r.state, job[p].to)
      \/ pc'[p] = job[p].fail /\ snap'[p] = NoRecord
  BY DEF TransitionLoad, Return, Goto, IInv, TypeOK
<1>6. SafeProcess(p)'
  <2>1. CASE pc'[p] = job[p].fail /\ snap'[p] = NoRecord
    BY <1>1, <1>3, <1>4, <2>1, KindFacts
       DEF TxSteps, ReconcileSteps, SummarySteps, CurSteps, SelectSteps,
           HoldSteps, HandSteps, WatchSteps, LaterHostSteps, CliSteps,
           RuntimeSteps, RuntimeGone, SafeProcess, KindOK, KnownJob, Selecting,
           UnbornOK, NamedOK, HoldOK, ReconcilerOK, FallenOK, WriteOK, BehindOK,
           Reconciling, Abandoning, Supervising, Running
  <2>2. CASE pc'[p] = "txWrite" /\ snap'[p] = r2 /\ job' = job /\ Legal(r.state, job[p].to)
    <3>1. KindOK(p)' /\ KnownJob(p)' /\ UnbornOK(p)' /\ NamedOK(p)'
      BY <1>1, <1>3, <1>4, <2>2
        DEF SafeProcess, KindOK, KnownJob, UnbornOK, NamedOK, Selecting, TxSteps,
            SelectSteps, CliSteps, LaterHostSteps, RuntimeSteps, RuntimeGone,
            ReconcileSteps, CurSteps, Reconciling, Abandoning, Supervising, Running
    <3>2. HoldOK(p)' /\ ReconcilerOK(p)' /\ FallenOK(p)' /\ BehindOK(p)'
      BY <1>1, <1>3, <1>4, <2>2
        DEF SafeProcess, HoldOK, ReconcilerOK, FallenOK, BehindOK, Fallen,
            HoldSteps, HandSteps, WatchSteps, SummarySteps, TxSteps,
            Reconciling, Abandoning, Supervising
    <3>3. WriteOK(p)'
      <4>1. job[p].to = "failed" => r2.failure = job[p].why
        BY DEF ApplyTransition
      <4>2. Computed(p)'
        BY <1>3, <2>2 DEF Computed
      <4>3. ~Abandoning(p) => r.state \in Active
        BY <1>4, <2>2
          DEF Legal, Active, States, Terminal, Reconciling, Abandoning,
              Supervising, Running
      <4> QED
        BY <1>3, <2>2, <4>1, <4>2, <4>3 DEF WriteOK, Abandoning
    <3> QED BY <3>1, <3>2, <3>3 DEF SafeProcess
  <2> QED BY <1>5, <2>1, <2>2
<1>7. PairOK(Own(p))'
  <2>1. \/ pc'[p] \in TxSteps /\ job' = job
        \/ pc'[p] = job[p].fail
    BY <1>5 DEF TxSteps
  <2> QED BY <1>2, <1>3, <1>4, <2>1, TransitionMoves DEF TxSteps
<1> QED BY <1>2, <1>3, <1>6, <1>7, QuietStepSafe

\* Of two processes about to write the same record, one is abandoning it,
\* unless its runtime is an orphan.
LEMMA OneWriter ==
  ASSUME IInv, LInv, NEW p \in Processes, NEW q \in Processes,
         pc[p] \in TxSteps, pc[q] \in TxSteps, cur[p] = cur[q],
         cur[p] \notin orphaned, ~Abandoning(p), ~Abandoning(q)
  PROVE  p = q
<1>1. SafeProcess(p) /\ SafeProcess(q) /\ cur[p] \in Sessions
  BY SafeAt, IInvAt DEF ProcessOK, CurSteps
<1>2. ASSUME NEW x \in Processes, SafeProcess(x), pc[x] \in TxSteps,
             cur[x] = cur[p], Running(x)
      PROVE  /\ x = Runtime(cur[p])
             /\ lease[cur[p]] = Boss(cur[p]) /\ pc[Boss(cur[p])] \notin TxSteps
             /\ Boss(cur[p]) # x
  <2>1. x = Runtime(cur[p]) /\ PairOK(cur[p]) /\ Own(Boss(cur[p])) = cur[p]
    BY <1>1, <1>2, KindFacts, BossFacts DEF Running, LInv
  <2> QED
    BY <1>1, <1>2, <2>1, BossFacts
      DEF PairOK, BossOK, RuntimeAlive, RuntimeGone, TxSteps, AliveSteps,
          SummarySteps
<1>3. ASSUME NEW x \in Processes, SafeProcess(x), pc[x] \in TxSteps,
             cur[x] = cur[p], ~Abandoning(x), ~Running(x)
      PROVE  lease[cur[p]] = x
  BY <1>3 DEF SafeProcess, KnownJob, HoldOK, ReconcilerOK, Supervising
<1> QED BY <1>1, <1>2, <1>3

\* A step that replaces the record of s by r2, a successor or the same.
LEMMA OtherProcessWritten ==
  ASSUME IInv, NEW p \in Processes, NEW q \in Processes, q # p, SafeProcess(q),
         pc'[q] = pc[q], cur'[q] = cur[q], snap'[q] = snap[q],
         job'[q] = job[q], back'[q] = back[q], fresh'[q] = fresh[q],
         UNCHANGED <<lease, orphaned>>,
         NEW s \in Sessions, NEW r2 \in SessionRecords, record[s] # NoRecord,
         record' = [record EXCEPT ![s] = r2],
         s \notin orphaned =>
           /\ record[s] = r2 \/ record[s].rev < r2.rev
           /\ Fallen(s) => r2.state \in {"failed", "abandoned"},
         pc[q] = "txWrite" /\ cur[q] = s => WriteOK(q)',
         Own(q) = s /\ pc[q] \in {"createSummary", "rebuildWrite"} => s \notin orphaned
  PROVE  SafeProcess(q)'
<1>1. /\ r2 # NoRecord /\ record'[s] = r2 /\ \A t \in Sessions : t # s => record'[t] = record[t]
      /\ DiskTypes /\ LocalTypes(q) /\ Own(q) \in Sessions
      /\ pc[q] \in CurSteps => cur[q] \in Sessions
  BY RecordFacts, IInvAt, KindFacts DEF DiskTypes, ProcessOK
<1>2. \A t \in Sessions : record[t] # NoRecord => record'[t] # NoRecord
  BY <1>1
<1>3. KindOK(q)' /\ KnownJob(q)' /\ UnbornOK(q)' /\ NamedOK(q)'
  <2>1. KindOK(q)' /\ KnownJob(q)'
    BY DEF SafeProcess, KindOK, KnownJob, Reconciling, Abandoning, Supervising,
           Running
  <2>2. UnbornOK(q)'
    BY <1>1 DEF SafeProcess, UnbornOK, Selecting
  <2>3. NamedOK(q)'
    BY <1>1, <1>2 DEF SafeProcess, NamedOK
  <2> QED BY <2>1, <2>2, <2>3
<1>4. HoldOK(q)' /\ ReconcilerOK(q)'
  BY DEF SafeProcess, HoldOK, ReconcilerOK, Reconciling, Supervising
<1>5. FallenOK(q)'
  <2>1. Fallen(cur[q]) /\ cur[q] \in Sessions /\ cur[q] \notin orphaned => Fallen(cur[q])'
    BY <1>1 DEF Fallen
  <2>2. pc[q] \in TxSteps \cup {"reconcileDrop", "assessed"} => cur[q] \in Sessions
    BY <1>1 DEF CurSteps, ReconcileSteps
  <2> QED
    BY <2>1, <2>2 DEF SafeProcess, FallenOK, Abandoning, Reconciling, TxSteps,
                      Fallen
<1>6. WriteOK(q)'
  <2>1. CASE pc[q] = "txWrite" /\ cur[q] # s
    <3>1. cur[q] \in Sessions /\ record'[cur[q]] = record[cur[q]]
      BY <1>1, <2>1 DEF CurSteps, TxSteps
    <3> QED BY <2>1, <3>1 DEF SafeProcess, WriteOK, Computed, Abandoning
  <2>2. CASE pc[q] # "txWrite"
    BY <2>2 DEF WriteOK
  <2> QED BY <2>1, <2>2
<1>7. BehindOK(q)'
  <2>1. ASSUME NEW t \in Sessions, NEW r \in SessionRecords \cup {NoRecord},
               Behind(r, t), t \notin orphaned \/ t # s
        PROVE  Behind(r, t)'
    <3>1. CASE t # s
      BY <1>1, <2>1, <3>1 DEF Behind
    <3>2. CASE t = s
      <4>1. r.rev \in Nat /\ record[s].rev \in Nat /\ r2.rev \in Nat
        BY <1>1, <2>1, RecordFacts DEF SessionRecords, DiskTypes
      <4> QED BY <1>1, <2>1, <3>2, <4>1 DEF Behind
    <3> QED BY <3>1, <3>2
  <2>2. pc[q] = "txSummary" => cur[q] \in Sessions
    BY <1>1 DEF CurSteps, TxSteps
  <2>3. pc[q] = "txSummary" /\ cur[q] \notin orphaned => Behind(snap[q], cur[q])'
    BY <1>1, <2>1, <2>2 DEF SafeProcess, BehindOK, LocalTypes
  <2>4. /\ pc[q] = "createSummary" => Behind(snap[q], Own(q))'
        /\ pc[q] = "rebuildWrite" => Behind(fresh[q], Own(q))'
    BY <1>1, <2>1 DEF SafeProcess, BehindOK, LocalTypes
  <2> QED BY <2>3, <2>4 DEF BehindOK, Behind
<1> QED BY <1>3, <1>4, <1>5, <1>6, <1>7 DEF SafeProcess

\* A process writes the record it computed.  Whoever else is about to write the
\* same record is abandoning it too, and writes the same.
LEMMA TransitionWriteSafe ==
  ASSUME IInv, LInv, NEW p \in Processes, TransitionWrite(p), UNCHANGED kept
  PROVE  LInv'
<1> DEFINE s  == cur[p]
           r2 == snap[p]
<1>1. /\ SafeProcess(p) /\ PairOK(Own(p)) /\ LocalTypes(p) /\ ProcessOK(p)
      /\ DiskTypes /\ SummaryOK
  BY SafeAt, IInvAt DEF LInv
<1>2. LocalStep(p)
  BY DEF IInv, TypeOK, LocalStep, kept, Goto, TransitionWrite, Return
<1>3. UNCHANGED <<summary, lease, cur, back, want, fresh, orphaned>>
  BY DEF TransitionWrite, kept
<1>4. /\ s \in Sessions /\ JobOK(p) /\ pc[p] = "txWrite"
      /\ record[s] # NoRecord /\ r2 \in SessionRecords /\ r2.state = job[p].to
      /\ Reconciling(p) \/ Abandoning(p) \/ Supervising(p) \/ Running(p)
  BY <1>1
    DEF ProcessOK, CurSteps, TxSteps, TransitionWrite, SafeProcess, NamedOK,
        KnownJob
<1>5. \/ /\ pc'[p] = "txSummary" /\ UNCHANGED <<snap, job>>
         /\ record' = [record EXCEPT ![s] = r2]
      \/ pc'[p] = job[p].fail /\ snap'[p] = NoRecord /\ UNCHANGED record
  BY DEF TransitionWrite, Return, Goto, IInv, TypeOK
<1>6. PairOK(Own(p))'
  <2>1. s \notin orphaned => record[s].state # "succeeded" \/ record'[s] = record[s]
    BY <1>1, <1>4, <1>5
      DEF DiskTypes, SafeProcess, WriteOK, Computed, Legal
  <2>2. Succeeded(Own(p)) /\ Own(p) \notin orphaned => record'[Own(p)] = record[Own(p)]
    <3>1. Own(p) \in Sessions /\ (Own(p) # s => record'[Own(p)] = record[Own(p)])
      BY <1>1, <1>5, KindFacts DEF DiskTypes
    <3> QED BY <2>1, <3>1 DEF Succeeded
  <2>3. \/ pc'[p] \in TxSteps /\ job' = job
        \/ pc'[p] \in {job[p].done, job[p].fail}
    BY <1>5 DEF TxSteps
  <2> QED BY <1>2, <1>3, <1>4, <2>2, <2>3, TransitionMoves DEF TxSteps
<1>7. CASE pc'[p] = job[p].fail /\ snap'[p] = NoRecord /\ UNCHANGED record
  <2>1. SafeProcess(p)'
    BY <1>1, <1>3, <1>4, <1>7, KindFacts
       DEF TxSteps, ReconcileSteps, SummarySteps, CurSteps, SelectSteps,
           HoldSteps, HandSteps, WatchSteps, LaterHostSteps, CliSteps,
           RuntimeSteps, RuntimeGone, SafeProcess, KindOK, KnownJob,
           Selecting, UnbornOK, NamedOK, HoldOK, ReconcilerOK,
           FallenOK, WriteOK, BehindOK, Reconciling, Abandoning, Supervising,
           Running
  <2>2. UNCHANGED store /\ LeaseKept(p) /\ OrphansGrow(p)
    BY <1>1, <1>3, <1>7, LeaseSteps, KindFacts DEF DiskTypes, store, OrphansGrow
  <2> QED BY <1>2, <1>6, <2>1, <2>2, QuietStepSafe
<1>8. CASE /\ pc'[p] = "txSummary" /\ UNCHANGED <<snap, job>>
           /\ record' = [record EXCEPT ![s] = r2]
  <2>1. /\ record'[s] = r2 /\ \A t \in Sessions : t # s => record'[t] = record[t]
        /\ r2 # NoRecord
    BY <1>1, <1>4, <1>8, RecordFacts DEF DiskTypes
  <2>2. s \notin orphaned =>
          /\ record[s] = r2 \/ record[s].rev < r2.rev
          /\ Fallen(s) => r2.state \in {"failed", "abandoned"}
          /\ record[s].state = "succeeded" => record[s] = r2
    <3>1. CASE Computed(p)
      <4>1. r2.rev = record[s].rev + 1 /\ record[s].rev \in Nat
        BY <1>1, <1>4, <3>1, RecordFacts
          DEF Computed, ApplyTransition, DiskTypes, SessionRecords
      <4>2. Fallen(s) => r2.state \in {"failed", "abandoned"}
        BY <1>4, <3>1 DEF Computed, Fallen, Legal
      <4>3. record[s].state # "succeeded"
        BY <3>1 DEF Computed, Legal
      <4> QED BY <4>1, <4>2, <4>3
    <3>2. CASE Abandoning(p) /\ r2 = record[s]
      BY <1>4, <3>2 DEF Abandoning
    <3> QED BY <1>1, <1>4, <3>1, <3>2 DEF SafeProcess, WriteOK
  <2>3. ASSUME NEW q \in Processes, q # p, pc[q] = "txWrite", cur[q] = s
        PROVE  WriteOK(q)'
    <3>1. /\ pc'[q] = pc[q] /\ cur'[q] = cur[q] /\ snap'[q] = snap[q] /\ job'[q] = job[q]
      BY <1>2, <2>3 DEF LocalStep, IInv, TypeOK
    <3>2. SafeProcess(q) /\ ProcessOK(q)
      BY SafeAt, IInvAt
    <3>3. CASE s \in orphaned
      BY <1>3, <2>3, <3>1, <3>2, <3>3 DEF SafeProcess, WriteOK
    <3>4. CASE s \notin orphaned
      <4>1. Abandoning(p) \/ Abandoning(q)
        BY <1>4, <2>3, <3>4, OneWriter DEF TxSteps
      <4>2. Fallen(s)
        BY <1>1, <1>4, <2>3, <3>2, <3>4, <4>1 DEF SafeProcess, FallenOK, TxSteps
      <4>3. Abandoning(p) /\ Abandoning(q)
        BY <1>1, <1>4, <2>3, <3>2, <3>4, <4>2
          DEF SafeProcess, WriteOK, Fallen, Active, States, Terminal
      <4>4. snap[q] = record'[s]
        <5>1. CASE r2 = record[s] /\ snap[q] = record[s]
          BY <2>1, <5>1
        <5>2. CASE Computed(p) /\ Computed(q)
          BY <2>1, <2>3, <4>3, <5>2 DEF Computed, Abandoning
        <5>3. CASE (r2 = record[s]) # (snap[q] = record[s])
          <6>1. Legal(record[s].state, "abandoned") /\ record[s].state = "abandoned"
            BY <1>1, <1>4, <2>3, <3>2, <3>4, <4>3, <5>3
              DEF SafeProcess, WriteOK, Computed, Abandoning, ProcessOK
          <6> QED BY <6>1 DEF Legal
        <5> QED
          BY <1>1, <1>4, <2>3, <3>2, <3>4, <5>1, <5>2, <5>3 DEF SafeProcess, WriteOK
      <4> QED
        BY <2>3, <3>1, <3>2, <4>3, <4>4 DEF SafeProcess, WriteOK, Abandoning
    <3> QED BY <3>3, <3>4
  <2>4. ASSUME NEW q \in Processes, q # p PROVE SafeProcess(q)'
    <3>1. /\ pc'[q] = pc[q] /\ cur'[q] = cur[q] /\ snap'[q] = snap[q]
          /\ job'[q] = job[q] /\ back'[q] = back[q] /\ fresh'[q] = fresh[q]
      BY <1>2, <2>4 DEF LocalStep, IInv, TypeOK
    <3>2. SafeProcess(q) /\ PairOK(Own(q))
      BY SafeAt
    <3>3. Own(q) = s /\ pc[q] \in {"createSummary", "rebuildWrite"} => s \notin orphaned
      <4> HAVE Own(q) = s /\ pc[q] \in {"createSummary", "rebuildWrite"}
      <4>1. q[1] \in {"cli", "host"}
        BY <3>2, KindFacts DEF SafeProcess, KindOK, RuntimeSteps, RuntimeGone,
                               TxSteps
      <4>2. BossOK(q)
        BY <4>1, LeadAt DEF BossSteps, WatchSteps, SummarySteps
      <4> QED BY <4>2 DEF BossOK, Ended
    <3> QED
      BY <1>3, <1>4, <1>8, <2>2, <2>3, <2>4, <3>1, <3>2, <3>3, OtherProcessWritten
  <2>5. SafeProcess(p)'
    <3>1. KindOK(p)' /\ KnownJob(p)'
      BY <1>1, <1>3, <1>4, <1>8
        DEF SafeProcess, KindOK, KnownJob, TxSteps, CliSteps, LaterHostSteps,
            RuntimeSteps, Reconciling, Abandoning, Supervising, Running
    <3>2. UnbornOK(p)' /\ NamedOK(p)'
      <4>1. Own(p) \in Sessions /\ (record'[Own(p)] # record[Own(p)] => Own(p) = s)
        BY <2>1, KindFacts
      <4>2. UnbornOK(p)'
        <5>1. Selecting(p)' => Selecting(p)
          BY <1>4, <1>8 DEF Selecting, TxSteps, SelectSteps, ReconcileSteps
        <5> QED BY <1>1, <1>4, <4>1, <5>1 DEF SafeProcess, UnbornOK
      <4>3. NamedOK(p)'
        BY <1>1, <1>3, <1>4, <1>8, <2>1, <4>1 DEF SafeProcess, NamedOK
      <4> QED BY <4>2, <4>3
    <3>3. HoldOK(p)' /\ ReconcilerOK(p)'
      BY <1>1, <1>3, <1>4, <1>8
        DEF SafeProcess, HoldOK, ReconcilerOK, HoldSteps, HandSteps, WatchSteps,
            SummarySteps, TxSteps, Reconciling, Supervising
    <3>4. FallenOK(p)'
      BY <1>3, <1>4, <1>8, <2>1 DEF FallenOK, Fallen, Abandoning, Reconciling
    <3>5. WriteOK(p)' /\ BehindOK(p)'
      BY <1>3, <1>8, <2>1 DEF WriteOK, BehindOK, Behind
    <3> QED BY <3>1, <3>2, <3>3, <3>4, <3>5 DEF SafeProcess
  <2>6. ASSUME NEW t \in Sessions PROVE PairOK(t)'
    <3>1. CASE t = Own(p)
      BY <1>6, <3>1
    <3>2. CASE t # Own(p)
      <4>1. PairOK(t) /\ Unmoved(t) /\ LeaseKept(p) /\ OrphansGrow(p)
        BY <1>1, <1>2, <1>3, <3>2, OthersUnmoved, LeaseSteps, KindFacts
          DEF LInv, DiskTypes, OrphansGrow
      <4>2. Succeeded(t) /\ t \notin orphaned => record'[t] = record[t]
        BY <2>1, <2>2 DEF Succeeded
      <4> QED BY <3>2, <4>1, <4>2, OtherPairOK
    <3> QED BY <3>1, <3>2
  <2>7. SummaryOK'
    <3>1. CASE summary # NoSummary /\ summary.session = s
      <4>1. /\ summary.rev \in Nat /\ record[s].rev \in Nat /\ r2.rev \in Nat
        BY <1>1, <1>4, <3>1, RecordFacts DEF DiskTypes, Summaries, SessionRecords
      <4> QED
        BY <1>1, <1>3, <2>1, <2>2, <3>1, <4>1
          DEF SummaryOK, SummaryNeverAhead, SummaryOf
    <3>2. CASE summary # NoSummary /\ summary.session # s
      <4>1. summary.session \in Sessions
        BY <1>1, <3>2 DEF DiskTypes, Summaries
      <4> QED
        BY <1>1, <1>3, <2>1, <3>2, <4>1 DEF SummaryOK, SummaryNeverAhead, SummaryOf
    <3>3. CASE summary = NoSummary
      BY <1>3, <3>3 DEF SummaryOK
    <3> QED BY <3>1, <3>2, <3>3
  <2> QED BY <2>4, <2>5, <2>6, <2>7 DEF LInv
<1> QED BY <1>5, <1>7, <1>8

\* A new record: until now nobody named the session.
LEMMA CreateRecordSafe ==
  ASSUME IInv, LInv, NEW p \in Processes, p[1] = "cli", CreateRecord(p)
  PROVE  LInv'
<1> DEFINE s == Own(p)
<1>0. pc[p] \in BossSteps
  BY DEF BossSteps, SelectSteps, CreateRecord
<1>1. /\ SafeProcess(p) /\ p = Boss(s) /\ BossOK(p) /\ LocalTypes(p) /\ ProcessOK(p)
      /\ DiskTypes /\ SummaryOK /\ s \in Sessions /\ p = Cli(s)
      /\ Runtime(s) \in Processes /\ Runtime(s) # p
  BY <1>0, SafeAt, LeadAt, IInvAt, KindFacts DEF LInv
<1>2. LocalStep(p)
  BY DEF IInv, TypeOK, LocalStep, kept, Goto, CreateRecord
<1>3. /\ pc[p] = "create" /\ Selecting(p)
      /\ UNCHANGED <<summary, lease, job, back, want, fresh, orphaned>>
  BY DEF CreateRecord, kept, Selecting, SelectSteps
<1>4. record[s] = NoRecord /\ pc[Runtime(s)] = "off" /\ s \notin orphaned
  BY <1>1, <1>3 DEF SafeProcess, UnbornOK, BossOK, Unstarted, Ended
<1>5. CASE record' = record
  <2>1. /\ pc'[p] \in {"errExit", "createSummary"}
        /\ pc'[p] = "createSummary" => record'[s] = NewPrepared
    BY <1>1, <1>3, <1>5 DEF CreateRecord, Goto, IInv, TypeOK, DiskTypes
  <2>2. pc'[p] = "errExit"
    BY <1>4, <1>5, <2>1, RecordFacts
  <2>3. SafeProcess(p)'
    BY <1>1, <1>3, <1>5, <2>2
      DEF TxSteps, ReconcileSteps, SummarySteps, CurSteps, SelectSteps,
          HoldSteps, HandSteps, WatchSteps, CliSteps, Ended, SafeProcess,
          KindOK, KnownJob, Selecting, UnbornOK, NamedOK, HoldOK, ReconcilerOK,
          FallenOK, WriteOK, BehindOK
  <2>4. pc'[Runtime(s)] = "off"
    BY <1>1, <1>2, <1>4, OthersUnmoved
  <2>5. BossOK(p)' /\ pc'[p] \in CliSteps
    BY <1>1, <1>3, <1>4, <2>2, <2>4
      DEF BossOK, RuntimeAlive, RuntimeGone, SummarySteps, Unstarted, Selecting,
          CliSteps
  <2>6. UNCHANGED store /\ LeaseKept(p) /\ OrphansGrow(p)
    BY <1>1, <1>3, <1>5, LeaseSteps DEF DiskTypes, store, OrphansGrow
  <2> QED BY <1>0, <1>1, <1>2, <2>3, <2>5, <2>6, BossStepSafe
<1>6. CASE record' # record
  <2>1. /\ record' = [record EXCEPT ![s] = NewPrepared] /\ pc'[p] = "createSummary"
        /\ cur'[p] = s /\ snap'[p] = NewPrepared
    BY <1>6 DEF CreateRecord, Goto, IInv, TypeOK
  <2>2. /\ record'[s] = NewPrepared /\ NewPrepared # NoRecord
        /\ \A t \in Sessions : t # s => record'[t] = record[t]
    BY <1>1, <2>1, RecordFacts DEF DiskTypes
  <2>3. ASSUME NEW q \in Processes, q # p PROVE SafeProcess(q)'
    <3>1. /\ pc'[q] = pc[q] /\ cur'[q] = cur[q] /\ snap'[q] = snap[q]
          /\ job'[q] = job[q] /\ back'[q] = back[q] /\ fresh'[q] = fresh[q]
      BY <1>2, <2>3 DEF LocalStep, IInv, TypeOK
    <3>2. SafeProcess(q) /\ ProcessOK(q) /\ Own(q) \in Sessions
      BY SafeAt, IInvAt, KindFacts
    <3>3. pc[q] \in CurSteps => cur[q] \in Sessions /\ record'[cur[q]] = record[cur[q]]
      BY <1>4, <2>2, <3>2 DEF SafeProcess, NamedOK, ProcessOK
    <3>4. q[1] = "cli" => Own(q) # s
      BY <1>1, <2>3, KindFacts
    <3>5. pc[q] \in {"createSummary", "rebuildWrite"} => Own(q) # s
      BY <1>4, <3>2, <3>4, KindFacts
        DEF SafeProcess, KindOK, NamedOK, RuntimeSteps, RuntimeGone, TxSteps
    <3>6. KindOK(q)' /\ KnownJob(q)' /\ UnbornOK(q)'
      BY <2>2, <3>1, <3>2, <3>4
        DEF SafeProcess, KindOK, KnownJob, UnbornOK, Selecting, Reconciling,
            Abandoning, Supervising, Running
    <3>7. NamedOK(q)'
      BY <2>2, <3>1, <3>2, <3>3 DEF SafeProcess, NamedOK
    <3>8. HoldOK(q)' /\ ReconcilerOK(q)'
      BY <1>3, <3>1, <3>2 DEF SafeProcess, HoldOK, ReconcilerOK, Reconciling,
                              Supervising
    <3>9. FallenOK(q)' /\ WriteOK(q)'
      BY <1>3, <3>1, <3>2, <3>3
        DEF SafeProcess, FallenOK, WriteOK, Computed, Fallen, Abandoning,
            Reconciling, CurSteps, TxSteps, ReconcileSteps
    <3>10. BehindOK(q)'
      <4>1. pc[q] = "txSummary" => record'[cur[q]] = record[cur[q]]
        BY <3>3 DEF CurSteps, TxSteps
      <4>2. pc[q] \in {"createSummary", "rebuildWrite"} => record'[Own(q)] = record[Own(q)]
        BY <2>2, <3>2, <3>5
      <4> QED BY <1>3, <3>1, <3>2, <4>1, <4>2 DEF SafeProcess, BehindOK, Behind
    <3> QED BY <3>6, <3>7, <3>8, <3>9, <3>10 DEF SafeProcess
  <2>4. SafeProcess(p)'
    BY <1>1, <1>3, <2>1, <2>2
      DEF TxSteps, ReconcileSteps, SummarySteps, CurSteps, SelectSteps,
          HoldSteps, HandSteps, WatchSteps, CliSteps, SafeProcess, KindOK,
          KnownJob, Selecting, UnbornOK, NamedOK, HoldOK, ReconcilerOK,
          FallenOK, WriteOK, BehindOK, Behind
  <2>5. ASSUME NEW t \in Sessions PROVE PairOK(t)'
    <3>1. CASE t = s
      <4>1. pc'[Runtime(s)] = "off"
        BY <1>1, <1>2, <1>4, OthersUnmoved
      <4>2. BossOK(p)' /\ pc'[p] \in CliSteps
        BY <1>1, <1>3, <1>4, <2>1, <4>1
          DEF BossOK, RuntimeAlive, RuntimeGone, SummarySteps, Ended, CliSteps
      <4> QED BY <1>0, <1>1, <1>2, <3>1, <4>2, BossMoves
    <3>2. CASE t # s
      <4>1. PairOK(t) /\ Unmoved(t) /\ record'[t] = record[t]
        BY <1>2, <2>2, <3>2, OthersUnmoved DEF LInv
      <4>2. LeaseKept(p) /\ OrphansGrow(p)
        BY <1>1, <1>3, LeaseSteps DEF DiskTypes, OrphansGrow
      <4> QED BY <3>2, <4>1, <4>2, OtherPairOK
    <3> QED BY <3>1, <3>2
  <2>6. SummaryOK'
    <3>1. summary # NoSummary => summary.session \in Sessions /\ summary.session # s
      BY <1>1, <1>4 DEF DiskTypes, Summaries, SummaryOK
    <3>2. summary # NoSummary => record'[summary.session] = record[summary.session]
      BY <2>2, <3>1
    <3> QED BY <1>1, <1>3, <3>2 DEF SummaryOK, SummaryNeverAhead, SummaryOf
  <2> QED BY <2>3, <2>4, <2>5, <2>6 DEF LInv
<1> QED BY <1>5, <1>6

-----------------------------------------------------------------------------
(* Steps of a supervisor that start or kill its runtime.                   *)

\* Two processes of a session move on; nothing is written.
LEMMA TwoProcessesSafe ==
  ASSUME IInv, LInv, NEW p \in Processes, NEW q \in Processes, q # p,
         Own(q) = Own(p), NEW next, NEW then,
         pc' = [pc EXCEPT ![p] = next, ![q] = then], UNCHANGED store,
         \A x \in Processes \ {p, q} :
           /\ cur'[x] = cur[x] /\ snap'[x] = snap[x] /\ job'[x] = job[x]
           /\ back'[x] = back[x] /\ fresh'[x] = fresh[x],
         LeaseKept(q), OrphansGrow(q),
         SafeProcess(p)', SafeProcess(q)', PairOK(Own(p))'
  PROVE  LInv'
<1>1. UNCHANGED <<record, summary>>
  BY DEF store
<1>2. ASSUME NEW x \in Processes PROVE SafeProcess(x)'
  <2>1. CASE x # p /\ x # q
    <3>1. pc'[x] = pc[x] /\ SafeProcess(x)
      BY <2>1, SafeAt DEF IInv, TypeOK
    <3> QED BY <1>1, <2>1, <3>1, OtherProcessSafe
  <2> QED BY <2>1
<1>3. ASSUME NEW t \in Sessions PROVE PairOK(t)'
  <2>1. CASE t # Own(p)
    <3>1. {Cli(t), Host(t), Runtime(t)} \subseteq Processes \ {p, q}
      BY <2>1, CliRuntimeFacts, HostFacts
    <3>2. Unmoved(t) /\ PairOK(t)
      BY <3>1 DEF Unmoved, IInv, TypeOK, LInv
    <3> QED BY <1>1, <2>1, <3>2, OtherPairOK
  <2> QED BY <2>1
<1>4. SummaryOK'
  BY <1>1 DEF LInv, SummaryOK, SummaryNeverAhead, SummaryOf, OrphansGrow
<1> QED BY <1>2, <1>3, <1>4 DEF LInv

\* A supervisor starts its runtime, or kills it.
LEMMA BossAndRuntimeMove ==
  ASSUME IInv, LInv, NEW p \in Processes, p[1] \in {"cli", "host"},
         p = Boss(Own(p)), pc[p] \in {"launch", "wait"},
         NEW next \in {"wait", "recoverExit"}, NEW then,
         pc' = [pc EXCEPT ![p] = next, ![Runtime(Own(p))] = then],
         UNCHANGED job, BossOK(p)'
  PROVE  PairOK(Own(p))'
<1> DEFINE s == Own(p)
<1>1. /\ s \in Sessions /\ HandoffOK(s)
      /\ Cli(s) \in Processes /\ Host(s) \in Processes /\ Runtime(s) \in Processes
      /\ Host(s) # Cli(s) /\ Host(s) # Runtime(s) /\ Cli(s) # Runtime(s)
  BY SafeAt, KindFacts, CliRuntimeFacts, HostFacts DEF PairOK
<1>2. CASE p = Cli(s)
  <2>1. pc[Host(s)] = "off" /\ pc'[Host(s)] = "off" /\ pc'[p] = next
    BY <1>1, <1>2 DEF Boss, IInv, TypeOK
  <2> QED
    BY <1>2, <2>1 DEF PairOK, Boss, HandoffOK, Handing, HandSteps
<1>3. CASE p = Host(s)
  <2>1. pc'[Cli(s)] = pc[Cli(s)] /\ pc'[p] = next
    BY <1>1, <1>3 DEF IInv, TypeOK
  <2>2. Acting(p)
    BY DEF Acting, LaterHostSteps, WatchSteps, SummarySteps, TxSteps, Ended
  <2>3. HandoffOK(s)'
    BY <1>1, <1>3, <2>1, <2>2
      DEF HandoffOK, Handing, Failing, LeftIt, Acting, Ended
  <2> QED BY <1>3, <2>1, <2>3 DEF PairOK, Boss
<1> QED BY <1>2, <1>3 DEF Boss

LEMMA SpawnSafe ==
  ASSUME IInv, LInv, NEW p \in Processes, p[1] \in {"cli", "host"}, Spawn(p)
  PROVE  LInv'
<1> DEFINE s == Own(p)
           q == Runtime(s)
<1>0. pc[p] \in BossSteps
  BY DEF BossSteps, WatchSteps, Spawn
<1>1. /\ SafeProcess(p) /\ p = Boss(s) /\ BossOK(p) /\ ProcessOK(p) /\ DiskTypes
      /\ s \in Sessions /\ q \in Processes /\ q # p
      /\ SafeProcess(q) /\ Own(q) = s /\ q[1] = "runtime"
  BY <1>0, SafeAt, LeadAt, IInvAt, KindFacts, CliRuntimeFacts
<1>2. /\ pc[p] = "launch" /\ pc' = [pc EXCEPT ![p] = "wait", ![q] = "bind"]
      /\ UNCHANGED <<store, cur, snap, job, back, kept>>
      /\ UNCHANGED <<record, lease, fresh, orphaned>>
  BY DEF Spawn, disk, store, kept
<1>3. pc'[p] = "wait" /\ pc'[q] = "bind" /\ record[s] # NoRecord
  BY <1>1, <1>2, RecordFacts DEF IInv, TypeOK, ProcessOK, OwnSteps, OwnRecordExists
<1>4. LeaseKept(q) /\ OrphansGrow(q)
  BY <1>1, <1>2, LeaseSteps DEF DiskTypes, OrphansGrow
<1>5. SafeProcess(p)' /\ SafeProcess(q)'
  BY <1>1, <1>2, <1>3, KindFacts
    DEF TxSteps, ReconcileSteps, SummarySteps, CurSteps, SelectSteps, HoldSteps,
        HandSteps, WatchSteps, CliSteps, LaterHostSteps, RuntimeSteps,
        SafeProcess, KindOK, KnownJob, Selecting, UnbornOK, NamedOK, HoldOK,
        ReconcilerOK, FallenOK, WriteOK, BehindOK
<1>6. BossOK(p)'
  BY <1>1, <1>2, <1>3
    DEF BossOK, RuntimeAlive, Unstarted, Selecting, SelectSteps, SummarySteps,
        TxSteps, HandSteps, HostSteps, ReconcileSteps, AliveSteps, Ended,
        SafeProcess, HoldOK, HoldSteps, WatchSteps
<1>7. PairOK(s)'
  BY <1>1, <1>2, <1>6, BossAndRuntimeMove
<1> QED BY <1>1, <1>2, <1>4, <1>5, <1>7, TwoProcessesSafe DEF kept

LEMMA WaitFailsSafe ==
  ASSUME IInv, LInv, NEW p \in Processes, p[1] \in {"cli", "host"}, WaitFails(p)
  PROVE  LInv'
<1> DEFINE s == Own(p)
           q == Runtime(s)
<1>0. pc[p] \in BossSteps
  BY DEF BossSteps, WatchSteps, WaitFails
<1>1. /\ SafeProcess(p) /\ p = Boss(s) /\ BossOK(p) /\ ProcessOK(p) /\ DiskTypes
      /\ s \in Sessions /\ q \in Processes /\ q # p
      /\ SafeProcess(q) /\ Own(q) = s /\ q[1] = "runtime"
  BY <1>0, SafeAt, LeadAt, IInvAt, KindFacts, CliRuntimeFacts
<1>2. /\ pc[p] = "wait" /\ UNCHANGED <<store, cur, snap, job, back, kept>>
      /\ UNCHANGED <<record, fresh, orphaned>> /\ lease[s] = p
  BY <1>1 DEF WaitFails, store, kept, SafeProcess, HoldOK, HoldSteps, WatchSteps
<1>3. ASSUME NEW next \in {"recoverExit", "uncertain"}, Goto(p, next), UNCHANGED lease,
             next = "recoverExit" => ~RuntimeAlive(s)
      PROVE  LInv'
  <2>1. LocalStep(p) /\ pc'[p] = next /\ pc'[q] = pc[q]
    BY <1>1, <1>2, <1>3 DEF IInv, TypeOK, LocalStep, kept, Goto
  <2>2. SafeProcess(p)'
    BY <1>1, <1>2, <1>3, <2>1, KindFacts
      DEF TxSteps, ReconcileSteps, SummarySteps, CurSteps, SelectSteps, HoldSteps,
          HandSteps, WatchSteps, CliSteps, LaterHostSteps, SafeProcess, KindOK,
          KnownJob, Selecting, UnbornOK, NamedOK, HoldOK, ReconcilerOK, FallenOK,
          WriteOK, BehindOK
  <2>3. BossOK(p)' /\ pc'[p] \in CliSteps
    BY <1>1, <1>2, <1>3, <2>1
      DEF BossOK, RuntimeAlive, Unstarted, Selecting, SelectSteps, SummarySteps,
          TxSteps, HandSteps, HostSteps, ReconcileSteps, AliveSteps, Ended,
          CliSteps, WatchSteps
  <2>4. UNCHANGED store /\ LeaseKept(p) /\ OrphansGrow(p)
    BY <1>1, <1>2, <1>3, LeaseSteps DEF DiskTypes, OrphansGrow
  <2> QED BY <1>0, <1>1, <2>1, <2>2, <2>3, <2>4, BossStepSafe
<1>4. CASE /\ pc' = [pc EXCEPT ![p] = "recoverExit", ![q] = "killed"]
           /\ lease' = [t \in Sessions |-> IF lease[t] = q THEN Nobody ELSE lease[t]]
  <2>1. pc'[p] = "recoverExit" /\ pc'[q] = "killed"
    BY <1>1, <1>4 DEF IInv, TypeOK
  <2>2. LeaseKept(q) /\ OrphansGrow(q) /\ lease'[s] = p
    BY <1>1, <1>2, <1>4, LeaseSteps DEF Release, DiskTypes, OrphansGrow
  <2>3. NamedOK(q)' /\ record[s] # NoRecord
    <3>1. record[s] # NoRecord
      BY <1>1, <1>2, RecordFacts DEF ProcessOK, OwnSteps, OwnRecordExists
    <3> QED
      BY <1>1, <1>2, <2>1, <3>1 DEF NamedOK, CurSteps, TxSteps, ReconcileSteps
  <2>4. SafeProcess(p)' /\ SafeProcess(q)'
    BY <1>1, <1>2, <2>1, <2>2, <2>3, KindFacts
      DEF TxSteps, ReconcileSteps, SummarySteps, CurSteps, SelectSteps, HoldSteps,
          HandSteps, WatchSteps, CliSteps, LaterHostSteps, RuntimeSteps,
          RuntimeGone, SafeProcess, KindOK, KnownJob, Selecting, UnbornOK,
          NamedOK, HoldOK, ReconcilerOK, FallenOK, WriteOK, BehindOK
  <2>5. BossOK(p)'
    BY <1>1, <1>2, <2>1, <2>2
      DEF BossOK, RuntimeAlive, RuntimeGone, Unstarted, Selecting, SelectSteps,
          SummarySteps, TxSteps, HandSteps, HostSteps, ReconcileSteps, Ended
  <2>6. PairOK(s)'
    BY <1>1, <1>2, <1>4, <2>5, BossAndRuntimeMove
  <2> QED BY <1>1, <1>2, <1>4, <2>2, <2>4, <2>6, TwoProcessesSafe DEF kept
<1> QED BY <1>3, <1>4 DEF WaitFails

-----------------------------------------------------------------------------
(* The invariant.                                                          *)

LEMMA InitSafe == Init => LInv
<1> SUFFICES ASSUME Init PROVE LInv
  OBVIOUS
<1>1. ASSUME NEW p \in Processes PROVE SafeProcess(p)
  <2>1. /\ pc[p] = IF p[1] = "cli" THEN "start" ELSE "off"
        /\ record[Own(p)] = NoRecord
    BY <1>1, KindFacts DEF Init
  <2> QED
    BY <2>1, KindFacts
      DEF TxSteps, ReconcileSteps, SummarySteps, CurSteps, SelectSteps, HoldSteps,
          HandSteps, WatchSteps, CliSteps, RuntimeSteps, RuntimeGone, SafeProcess,
          KindOK, KnownJob, Selecting, UnbornOK, NamedOK, HoldOK, ReconcilerOK,
          FallenOK, WriteOK, BehindOK
<1>2. ASSUME NEW s \in Sessions PROVE PairOK(s)
  <2>1. /\ pc[Cli(s)] = "start" /\ pc[Runtime(s)] = "off" /\ pc[Host(s)] = "off"
        /\ orphaned = {} /\ Own(Cli(s)) = s
    BY <1>2, CliRuntimeFacts, HostFacts DEF Init
  <2> QED
    BY <2>1
      DEF PairOK, Boss, BossOK, HandoffOK, Handing, HandSteps, RuntimeAlive,
          RuntimeGone, SummarySteps
<1>3. SummaryOK
  BY DEF Init, SummaryOK
<1> QED BY <1>1, <1>2, <1>3 DEF LInv

LEMMA SharedStepSafe ==
  ASSUME IInv, LInv, NEW p \in Processes, SharedStep(p)
  PROVE  LInv'
<1>1. ReconcileLoad(p) \/ ReconcileLock(p) \/ ReconcileDrop(p) => p[1] = "cli"
  BY SafeAt, KindFacts
    DEF SafeProcess, KindOK, RuntimeSteps, RuntimeGone, HostSteps, LaterHostSteps,
        WatchSteps, SummarySteps, Ended, TxSteps, ReconcileLoad, ReconcileLock,
        ReconcileDrop
<1> QED
  BY <1>1, TransitionLoadSafe, TransitionWriteSafe, TransitionSummarySafe,
     ReconcileLoadSafe, ReconcileLockSafe, ReconcileDropSafe
     DEF SharedStep, StoreStep

LEMMA SelectionStepSafe ==
  ASSUME IInv, LInv, NEW p \in Processes, p[1] = "cli", SelectionStep(p)
  PROVE  LInv'
BY StartSafe, SelectSafe, ClassifySafe, AssessSafe, AssessLoadSafe,
   AssessedSafe, AfterAbandonSafe, CreateRecordSafe, CreateSummarySafe,
   AcquireLeaseSafe
   DEF SelectionStep

LEMMA SuperviseStepSafe ==
  ASSUME IInv, LInv, NEW p \in Processes, p[1] \in {"cli", "host"}, SuperviseStep(p)
  PROVE  LInv'
BY FailLaunchSafe, SpawnSafe, ObserveExitSafe, WaitFailsSafe,
   ReconcileExitSafe, RecoverExitSafe, BestEffortSafe, ValidateSummarySafe,
   RebuildLoadSafe, RebuildWriteSafe, RevalidateSafe, ExitSafe
   DEF SuperviseStep

LEMMA RuntimeStepSafe ==
  ASSUME IInv, LInv, NEW p \in Processes, p[1] = "runtime", RuntimeStep(p)
  PROVE  LInv'
BY BindSafe, BindLeaseSafe, HandlerInspectsSafe, InspectionDropSafe,
   HandlerReturnsSafe, RuntimeExitsSafe, RuntimeKilledSafe
   DEF RuntimeStep

LEMMA StutterSafe ==
  ASSUME LInv, UNCHANGED vars
  PROVE  LInv'
<1>1. ASSUME NEW p \in Processes PROVE SafeProcess(p)'
  <2>1. SafeProcess(p)
    BY DEF LInv
  <2> QED
    BY <2>1
      DEF vars, disk, locals, SafeProcess, KindOK, KnownJob, Selecting, UnbornOK,
          NamedOK, HoldOK, ReconcilerOK, FallenOK, Fallen, WriteOK, Computed,
          BehindOK, Behind, Reconciling, Abandoning, Supervising, Running
<1>2. ASSUME NEW s \in Sessions PROVE PairOK(s)'
  <2>1. PairOK(s)
    BY DEF LInv
  <2>2. Unmoved(s)
    BY DEF Unmoved, vars, locals
  <2>3. HandoffOK(s)' /\ Boss(s)' = Boss(s)
    BY <2>1, <2>2, UnmovedHandoff DEF PairOK
  <2>4. PICK b \in Processes : b = Boss(s)
    BY BossFacts
  <2>5. BossOK(b)'
    BY <2>1, <2>4
      DEF vars, disk, locals, PairOK, BossOK, RuntimeAlive, Succeeded, Unstarted,
          Selecting
  <2> QED BY <2>3, <2>4, <2>5 DEF PairOK
<1>3. SummaryOK'
  BY DEF LInv, vars, disk, SummaryOK, SummaryNeverAhead, SummaryOf
<1> QED BY <1>1, <1>2, <1>3 DEF LInv

LEMMA NextSafe == IInv /\ LInv /\ [Next]_vars => LInv'
<1> SUFFICES ASSUME IInv, LInv, [Next]_vars PROVE LInv'
  OBVIOUS
<1>1. ASSUME NEW s \in Sessions, CliStep(s) PROVE LInv'
  BY <1>1, CliRuntimeFacts, SharedStepSafe, SelectionStepSafe, SuperviseStepSafe,
     CrashSafe
     DEF CliStep
<1>2. ASSUME NEW s \in Sessions, SharedStep(Runtime(s)) \/ RuntimeStep(Runtime(s))
      PROVE  LInv'
  BY <1>2, CliRuntimeFacts, SharedStepSafe, RuntimeStepSafe
<1> QED BY <1>1, <1>2, StutterSafe DEF Next

\* Only p, or only p and the runtime of its session, take a step.
OnlyMoves(p) == \A x \in Processes \ {p} : pc'[x] = pc[x]
PairMoves(p) == \A x \in Processes \ {p, Runtime(Own(p))} : pc'[x] = pc[x]

LEMMA WhoMoves ==
  ASSUME IInv, NEW p \in Processes
  PROVE  /\ SharedStep(p) \/ SelectionStep(p) \/ Crash(p) => OnlyMoves(p)
         /\ RuntimeStep(p) \/ Exit(p) => OnlyMoves(p)
         /\ SuperviseStep(p) => PairMoves(p)
<1>1. SharedStep(p) => OnlyMoves(p)
  BY DEF SharedStep, StoreStep, TransitionLoad, TransitionWrite, TransitionSummary,
         ReconcileLoad, ReconcileLock, ReconcileDrop, Transition, Return, Goto,
         OnlyMoves, IInv, TypeOK
<1>2. SelectionStep(p) => OnlyMoves(p)
  BY DEF SelectionStep, Start, Select, Classify, Assess, AssessLoad, Assessed,
         AfterAbandon, CreateRecord, CreateSummary, AcquireLease, Decide,
         Transition, Goto, OnlyMoves, IInv, TypeOK
<1>3. Crash(p) \/ Exit(p) => OnlyMoves(p)
  BY DEF Crash, Exit, Goto, OnlyMoves, IInv, TypeOK
<1>4. RuntimeStep(p) => OnlyMoves(p)
  BY DEF RuntimeStep, Bind, BindLease, HandlerInspects, InspectionDrop,
         HandlerReturns, RuntimeExits, RuntimeKilled, Transition, Return, Goto,
         OnlyMoves, IInv, TypeOK
<1>5. SuperviseStep(p) => PairMoves(p)
  <2>1. OnlyMoves(p) => PairMoves(p)
    BY DEF OnlyMoves, PairMoves
  <2>2. Spawn(p) \/ WaitFails(p) => PairMoves(p)
    BY DEF Spawn, WaitFails, Goto, PairMoves, IInv, TypeOK
  <2>3. FailLaunch(p) \/ ObserveExit(p) \/ ReconcileExit(p) \/ RecoverExit(p)
          \/ BestEffort(p) => OnlyMoves(p)
    BY DEF FailLaunch, ObserveExit, ReconcileExit, RecoverExit, BestEffort,
           PersistAbnormal, Conclude, GiveUp, Transition, Goto, OnlyMoves, IInv,
           TypeOK
  <2>4. ValidateSummary(p) \/ RebuildLoad(p) \/ RebuildWrite(p) \/ Revalidate(p)
          => OnlyMoves(p)
    BY DEF ValidateSummary, RebuildLoad, RebuildWrite, Revalidate, Goto,
           OnlyMoves, IInv, TypeOK
  <2> QED BY <1>3, <2>1, <2>2, <2>3, <2>4 DEF SuperviseStep
<1> QED BY <1>1, <1>2, <1>3, <1>4, <1>5

\* Foreground invocations have no hosts.
NoHosts == \A s \in Sessions : pc[Host(s)] = "off"

LEMMA HostsStayOff ==
  ASSUME IInv, NoHosts, [Next]_vars
  PROVE  NoHosts'
<1> SUFFICES ASSUME NEW t \in Sessions PROVE pc'[Host(t)] = "off"
  BY DEF NoHosts
<1>1. pc[Host(t)] = "off" /\ Host(t) \in Processes
  BY HostFacts DEF NoHosts
<1>2. ASSUME NEW s \in Sessions, CliStep(s) PROVE pc'[Host(t)] = "off"
  <2>1. OnlyMoves(Cli(s)) \/ PairMoves(Cli(s))
    BY <1>2, WhoMoves, CliRuntimeFacts DEF CliStep
  <2>2. Host(t) # Cli(s) /\ Host(t) # Runtime(Own(Cli(s)))
    BY HostFacts, CliRuntimeFacts
  <2> QED BY <1>1, <2>1, <2>2 DEF OnlyMoves, PairMoves
<1>3. ASSUME NEW s \in Sessions, SharedStep(Runtime(s)) \/ RuntimeStep(Runtime(s))
      PROVE  pc'[Host(t)] = "off"
  <2>1. OnlyMoves(Runtime(s)) /\ Host(t) # Runtime(s)
    BY <1>3, WhoMoves, CliRuntimeFacts, HostFacts
  <2> QED BY <1>1, <2>1 DEF OnlyMoves
<1> QED BY <1>1, <1>2, <1>3 DEF Next, vars, locals

\* The lease discipline holds in every behaviour.
THEOREM LeaseDiscipline == Spec => [](IInv /\ LInv /\ NoHosts)
<1>1. Init => IInv /\ LInv /\ NoHosts
  BY InitOK, InitSafe, HostFacts DEF Init, NoHosts
<1>2. IInv /\ LInv /\ NoHosts /\ [Next]_vars => (IInv /\ LInv /\ NoHosts)'
  BY NextKeeps, NextSafe, HostsStayOff
<1> QED BY <1>1, <1>2, PTL DEF Spec

-----------------------------------------------------------------------------
(* What it gives.                                                          *)

LEMMA WritesAreCurrent == IInv /\ LInv => CheckedRevisionCurrent
<1> SUFFICES ASSUME IInv, LInv,
                    NEW p \in Processes, pc[p] = "txWrite", cur[p] \notin orphaned
             PROVE  \/ record[cur[p]] = snap[p]
                    \/ /\ Legal(record[cur[p]].state, snap[p].state)
                       /\ snap[p].rev = record[cur[p]].rev + 1
  BY DEF CheckedRevisionCurrent
<1>1. WriteOK(p)
  BY SafeAt DEF SafeProcess
<1> QED BY <1>1 DEF WriteOK, Computed, ApplyTransition

\* Between the revision check and the rename of a transition nobody replaces
\* the record, unless a runtime has outlived its lease.
THEOREM RevisionStaysCurrent == Spec => []CheckedRevisionCurrent
BY WritesAreCurrent, LeaseDiscipline, PTL

\* The root summary never runs ahead of the record it names.
THEOREM SummaryBehindRecord == Spec => []SummaryNeverAhead
<1>1. LInv => SummaryNeverAhead
  BY DEF LInv, SummaryOK, SummaryNeverAhead
<1> QED BY <1>1, LeaseDiscipline, PTL

THEOREM SuccessIsReal == Spec => []SuccessOutcomeSound
<1>1. ASSUME LInv, NoHosts PROVE SuccessOutcomeSound
  <2> SUFFICES ASSUME NEW s \in Sessions, pc[Cli(s)] \in {"okExit", "ok"}
               PROVE  record[s].state = "succeeded" /\ pc[Runtime(s)] = "exit0"
    BY DEF SuccessOutcomeSound
  <2>1. PairOK(s) /\ Boss(s) = Cli(s) /\ Own(Cli(s)) = s
    BY <1>1, CliRuntimeFacts DEF LInv, NoHosts, Boss
  <2> QED BY <2>1 DEF PairOK, BossOK, Succeeded
<1> QED BY <1>1, LeaseDiscipline, PTL

\* What a step that changes the record of s does.
LEMMA RecordChange ==
  ASSUME IInv, LInv, [Next]_vars, NEW s \in Sessions, record'[s] # record[s]
  PROVE  \/ record[s] = NoRecord /\ record'[s] = NewPrepared
         \/ \E p \in Processes :
              /\ TransitionWrite(p) /\ cur[p] = s /\ record'[s] = snap[p]
              /\ WriteOK(p) /\ snap[p].state = job[p].to
<1>1. PICK p \in Processes : TransitionWrite(p) \/ CreateRecord(p)
  BY WhoWritesRecords
<1>2. SafeProcess(p) /\ ProcessOK(p) /\ DiskTypes
  BY SafeAt, IInvAt
<1>3. CASE CreateRecord(p)
  <2>1. p[1] = "cli" /\ Selecting(p)
    BY <1>2, <1>3, KindFacts
      DEF CreateRecord, SafeProcess, KindOK, RuntimeSteps, RuntimeGone, HostSteps,
          LaterHostSteps, WatchSteps, SummarySteps, Ended, TxSteps, Selecting,
          SelectSteps
  <2>2. record[Own(p)] = NoRecord
    BY <1>2, <2>1 DEF SafeProcess, UnbornOK
  <2> QED BY <1>2, <1>3, <2>2 DEF CreateRecord, DiskTypes
<1>4. CASE TransitionWrite(p)
  BY <1>2, <1>4 DEF TransitionWrite, DiskTypes, SafeProcess, ProcessOK
<1> QED BY <1>1, <1>3, <1>4

\* What is durable moves by single legal transitions.
THEOREM DurablyLegal == Spec => DurableTransitionsLegal
<1> DEFINE Step == \A s \in Sessions \ orphaned : LegalStep(s)
<1>1. ASSUME IInv, LInv, [Next]_vars PROVE Step
  <2> SUFFICES ASSUME NEW s \in Sessions, s \notin orphaned, record'[s] # record[s]
               PROVE  \/ record[s] = NoRecord /\ record'[s] = NewPrepared
                      \/ /\ Legal(record[s].state, record'[s].state)
                         /\ record'[s].rev = record[s].rev + 1
    BY DEF LegalStep
  <2>1. CASE record[s] = NoRecord /\ record'[s] = NewPrepared
    BY <2>1
  <2>2. ASSUME NEW p \in Processes, TransitionWrite(p), cur[p] = s,
               record'[s] = snap[p], WriteOK(p)
        PROVE  Legal(record[s].state, record'[s].state) /\ record'[s].rev = record[s].rev + 1
    BY <2>2 DEF WriteOK, Computed, ApplyTransition, TransitionWrite
  <2> QED BY <1>1, <2>1, <2>2, RecordChange
<1> QED BY <1>1, LeaseDiscipline, PTL DEF Spec, DurableTransitionsLegal

\* Only a failed session is abandoned.
THEOREM LiveNeverAbandoned == Spec => OnlyFailuresAbandoned
<1> DEFINE Step ==
      \A s \in Sessions \ orphaned :
        (record'[s].state = "abandoned" /\ record[s].state # "abandoned") =>
          record[s].state = "failed"
<1>1. ASSUME IInv, LInv, [Next]_vars PROVE Step
  <2> SUFFICES ASSUME NEW s \in Sessions, s \notin orphaned,
                      record'[s].state = "abandoned", record[s].state # "abandoned"
               PROVE  record[s].state = "failed"
    OBVIOUS
  <2>1. PICK p \in Processes :
           /\ TransitionWrite(p) /\ cur[p] = s /\ record'[s] = snap[p]
           /\ WriteOK(p) /\ snap[p].state = job[p].to
    BY <1>1, RecordChange DEF NewPrepared
  <2>2. pc[p] = "txWrite" /\ SafeProcess(p)
    BY <1>1, <2>1, SafeAt DEF TransitionWrite
  <2>3. Abandoning(p)
    BY <2>1, <2>2
      DEF SafeProcess, KnownJob, TxSteps, Reconciling, Supervising, Running
  <2>4. Fallen(s)
    BY <2>1, <2>2, <2>3 DEF SafeProcess, FallenOK, TxSteps
  <2> QED BY <2>4 DEF Fallen
<1> QED BY <1>1, LeaseDiscipline, PTL DEF Spec, OnlyFailuresAbandoned

\* A session is failed as stale only while nobody supervises it.
THEOREM StaleIsUnsupervised == Spec => StaleOnlyUnsupervised
<1> DEFINE Step ==
      \A s \in Sessions :
        (record'[s].failure = "stale" /\ record[s].failure # "stale") =>
          /\ lease[s] \notin {Cli(s), Runtime(s)}
          /\ pc[Cli(s)] \in {"createSummary", "acquire", "errExit"} \cup Ended
<1>1. ASSUME IInv, LInv, NoHosts, [Next]_vars PROVE Step
  <2> SUFFICES ASSUME NEW s \in Sessions,
                      record'[s].failure = "stale", record[s].failure # "stale"
               PROVE  /\ lease[s] \notin {Cli(s), Runtime(s)}
                      /\ pc[Cli(s)] \in {"createSummary", "acquire", "errExit"} \cup Ended
    OBVIOUS
  <2>1. PICK p \in Processes :
           /\ TransitionWrite(p) /\ cur[p] = s /\ record'[s] = snap[p]
           /\ WriteOK(p) /\ snap[p].state = job[p].to
    BY <1>1, RecordChange DEF NewPrepared, None
  <2>2. /\ pc[p] = "txWrite" /\ SafeProcess(p) /\ ProcessOK(p)
        /\ SafeProcess(Cli(s)) /\ PairOK(s) /\ record[s] # NoRecord
    BY <1>1, <2>1, SafeAt, IInvAt, CliRuntimeFacts
      DEF TransitionWrite, LInv, SafeProcess, NamedOK, CurSteps, TxSteps
  <2>3. job[p].to = "failed" /\ job[p].why = "stale"
    BY <2>1, <2>2 DEF ProcessOK, ValidRecord, WriteOK, None
  <2>4. Reconciling(p)
    BY <2>2, <2>3
      DEF SafeProcess, KnownJob, TxSteps, Abandoning, Supervising, Running
  <2>5. lease[s] = p /\ p = Cli(Own(p)) /\ Own(p) \in Sessions
    BY <2>1, <2>2, <2>4, KindFacts
      DEF SafeProcess, ReconcilerOK, TxSteps, Reconciling
  <2>6. Own(p) # s
    BY <2>1, <2>2, <2>4
      DEF SafeProcess, UnbornOK, Selecting, TxSteps, Reconciling
  <2>7. p # Cli(s) /\ p # Runtime(s)
    BY <2>5, <2>6, CliRuntimeFacts
  <2>8. pc[Cli(s)] \in {"createSummary", "acquire", "errExit"} \cup Ended
    <3>1. Cli(s)[1] = "cli" /\ Own(Cli(s)) = s
      BY CliRuntimeFacts
    <3>2. Boss(s) = Cli(s) /\ pc[Host(s)] = "off"
      BY <1>1 DEF NoHosts, Boss
    <3>3. ~Selecting(Cli(s)) /\ KindOK(Cli(s)) /\ pc[Cli(s)] \notin HoldSteps
      BY <2>2, <2>5, <2>7, <3>1 DEF SafeProcess, UnbornOK, HoldOK
    <3>4. pc[Cli(s)] # "released"
      BY <2>2, <3>2 DEF PairOK, HandoffOK, Handing
    <3>5. pc[Cli(s)] # "okExit"
      <4> SUFFICES ASSUME pc[Cli(s)] = "okExit" PROVE FALSE
        OBVIOUS
      <4>1. record[s].state = "succeeded" /\ s \notin orphaned
        BY <2>2, <3>1, <3>2 DEF PairOK, BossOK, Succeeded, Ended
      <4> QED
        BY <2>1, <2>2, <2>3, <2>4, <4>1
          DEF WriteOK, Computed, Legal, Abandoning, Reconciling
    <3>6. pc[Cli(s)] \notin TxSteps
      BY <2>2, <2>5, <2>7, <3>1, <3>3
        DEF SafeProcess, KnownJob, HoldOK, Selecting, Reconciling, Abandoning,
            Running
    <3> QED
      BY <3>1, <3>3, <3>4, <3>5, <3>6
        DEF KindOK, CliSteps, HoldSteps, Selecting
  <2> QED BY <2>5, <2>7, <2>8
<1> QED BY <1>1, LeaseDiscipline, PTL DEF Spec, StaleOnlyUnsupervised

-----------------------------------------------------------------------------
(* The hand-over: the steps of the initiator that has a host.              *)

\* The initiator p, which has a host, goes on to `next`.
LEMMA InitiatorGoes ==
  ASSUME IInv, LInv, NEW p \in Processes, p[1] = "cli", Handing(p),
         NEW next \in (HandSteps \ {"spawnHost"}) \cup {"released", "okExit"},
         Goto(p, next), UNCHANGED <<store, cur, snap, job, back, kept>>,
         \/ UNCHANGED lease
         \/ Release(p) /\ next \notin HandSteps,
         pc[p] = "released" => next = "okExit",
         InitiatorMovesOn(p)
  PROVE  IInv' /\ LInv'
<1>1. /\ SafeProcess(p) /\ PairOK(Own(p)) /\ LocalTypes(p) /\ ProcessOK(p)
      /\ DiskTypes /\ Own(p) \in Sessions
  BY SafeAt, IInvAt, KindFacts
<1>2. LocalStep(p) /\ pc'[p] = next
  BY DEF IInv, TypeOK, LocalStep, kept, Goto
<1>3. /\ UNCHANGED <<record, orphaned, want, fresh>>
      /\ LeaseKept(p) /\ OrphansGrow(p)
      /\ lease' \in [Sessions -> Processes \cup {Nobody}]
  BY <1>1, LeaseSteps, LeaseTypes DEF DiskTypes, store, kept, OrphansGrow
<1>4. IInv'
  <2>1. LocalTypes(p)' /\ ProcessOK(p)'
    BY <1>1, <1>2, <1>3
      DEF LocalTypes, ProcessOK, Steps, Handing, HandSteps, CurSteps,
          ReconcileSteps, SummarySteps, OwnSteps, TxSteps, OwnRecordExists
  <2> QED BY <1>1, <1>2, <1>3, <2>1, QuietStepKeeps DEF DiskTypes
<1>5. SafeProcess(p)'
  BY <1>1, <1>2, <1>3, KindFacts
    DEF Handing, HandSteps, TxSteps, ReconcileSteps, SummarySteps, CurSteps,
        SelectSteps, HoldSteps, WatchSteps, CliSteps, SafeProcess, KindOK,
        KnownJob, Selecting, UnbornOK, NamedOK, HoldOK, ReconcilerOK, FallenOK,
        WriteOK, BehindOK
<1>6. PairOK(Own(p))'
  <2>1. p # Boss(Own(p))
    BY <1>1, KindFacts, HostFacts DEF PairOK, HandoffOK, Boss
  <2> QED BY <1>1, <1>2, <1>3, <2>1, InitiatorMoves
<1> QED BY <1>2, <1>3, <1>4, <1>5, <1>6, QuietStepSafe

\* The initiator p, before the hand-over or after it failed, fails the launch.
LEMMA FailHandoffSafe ==
  ASSUME IInv, LInv, NEW p \in Processes, p[1] = "cli",
         pc[p] \in {"launch", "spawnHost", "abort"},
         FailHandoff(p), UNCHANGED <<disk, snap, back, kept>>
  PROVE  IInv' /\ LInv'
<1>1. /\ SafeProcess(p) /\ PairOK(Own(p)) /\ LocalTypes(p) /\ ProcessOK(p)
      /\ DiskTypes /\ Own(p) \in Sessions /\ record[Own(p)] # NoRecord
  BY SafeAt, IInvAt, KindFacts, RecordFacts DEF ProcessOK, OwnSteps, OwnRecordExists
<1>2. /\ LocalStep(p) /\ pc'[p] = "txLoad" /\ cur'[p] = Own(p)
      /\ job'[p] = [to |-> "failed", why |-> "source", rev |-> snap[p].rev,
                    done |-> "errExit", fail |-> "errExit"]
  BY DEF IInv, TypeOK, LocalStep, kept, Goto, FailHandoff, Transition
<1>3. /\ UNCHANGED <<record, lease, orphaned, want, fresh, back, snap>> /\ UNCHANGED store
      /\ LeaseKept(p) /\ OrphansGrow(p)
      /\ lease' \in [Sessions -> Processes \cup {Nobody}]
  BY <1>1, LeaseSteps DEF DiskTypes, disk, store, kept, OrphansGrow
<1>4. IInv'
  <2>1. JobOK(p)'
    BY <1>1, <1>2, RecordFacts
      DEF JobOK, Jobs, Steps, States, Failures, LocalTypes, SessionRecords
  <2>2. LocalTypes(p)' /\ ProcessOK(p)'
    BY <1>1, <1>2, <1>3, <2>1
      DEF LocalTypes, ProcessOK, JobOK, Steps, CurSteps, ReconcileSteps,
          SummarySteps, OwnSteps, TxSteps
  <2> QED BY <1>1, <1>2, <1>3, <2>2, QuietStepKeeps DEF DiskTypes
<1>5. SafeProcess(p)'
  BY <1>1, <1>2, <1>3, KindFacts
    DEF HandSteps, TxSteps, ReconcileSteps, SummarySteps, CurSteps,
        SelectSteps, HoldSteps, WatchSteps, CliSteps, SafeProcess, KindOK,
        KnownJob, Selecting, UnbornOK, NamedOK, HoldOK, ReconcilerOK, FallenOK,
        WriteOK, BehindOK, Reconciling, Abandoning, Supervising
<1>6. PairOK(Own(p))'
  <2>1. CASE pc[p] = "abort"
    <3>1. p = Cli(Own(p)) /\ pc[Host(Own(p))] # "off"
      BY <1>1, <2>1, KindFacts DEF PairOK, HandoffOK, Handing, HandSteps
    <3>2. p # Boss(Own(p)) /\ InitiatorMovesOn(p)
      BY <1>1, <1>2, <2>1, <3>1, HostFacts
        DEF Boss, PairOK, HandoffOK, InitiatorMovesOn, Failing, LeftIt, TxSteps
    <3> QED BY <1>1, <1>2, <1>3, <3>2, InitiatorMoves
  <2>2. CASE pc[p] # "abort"
    <3>1. pc[p] \in BossSteps \cup {"spawnHost"}
      BY <2>2 DEF BossSteps, WatchSteps
    <3>2. /\ p = Boss(Own(p)) /\ BossOK(p) /\ Runtime(Own(p)) # p
          /\ pc'[Runtime(Own(p))] = pc[Runtime(Own(p))]
      BY <1>1, <1>2, <3>1, LeadAt, KindFacts, OthersUnmoved
    <3>3. BossOK(p)'
      BY <1>1, <1>2, <1>3, <2>2, <3>2
        DEF BossOK, RuntimeAlive, AliveSteps, SummarySteps, Ended, Unstarted,
            Selecting, SelectSteps, ReconcileSteps, TxSteps, HandSteps, HostSteps
    <3>4. pc'[p] \in CliSteps
      BY <1>2 DEF CliSteps, TxSteps
    <3> QED BY <1>1, <1>2, <3>1, <3>2, <3>3, <3>4, BossMoves
  <2> QED BY <2>1, <2>2
<1> QED BY <1>2, <1>3, <1>4, <1>5, <1>6, QuietStepSafe

LEMMA WriteIntentSafe ==
  ASSUME IInv, LInv, NEW p \in Processes, p[1] = "cli", WriteIntent(p)
  PROVE  IInv' /\ LInv'
<1>1. CASE FailHandoff(p)
  BY <1>1, FailHandoffSafe DEF WriteIntent
<1>2. CASE Goto(p, "spawnHost") /\ UNCHANGED <<cur, job>>
  <2>0. pc[p] \in BossSteps
    BY DEF BossSteps, WatchSteps, WriteIntent
  <2>1. /\ SafeProcess(p) /\ p = Boss(Own(p)) /\ BossOK(p) /\ LocalTypes(p)
        /\ ProcessOK(p) /\ DiskTypes /\ Own(p) \in Sessions
        /\ pc[p] = "launch" /\ Runtime(Own(p)) # p
    BY <2>0, SafeAt, LeadAt, IInvAt, KindFacts DEF WriteIntent
  <2>2. LocalStep(p) /\ pc'[p] = "spawnHost"
    BY <1>2 DEF IInv, TypeOK, LocalStep, kept, Goto, WriteIntent
  <2>3. /\ UNCHANGED <<record, lease, orphaned, want, fresh, back, snap, cur, job>>
        /\ UNCHANGED store /\ LeaseKept(p) /\ OrphansGrow(p)
    BY <1>2, <2>1, LeaseSteps
      DEF WriteIntent, DiskTypes, disk, store, kept, OrphansGrow
  <2>4. IInv'
    <3>1. LocalTypes(p)' /\ ProcessOK(p)'
      BY <2>1, <2>2, <2>3
        DEF LocalTypes, ProcessOK, Steps, CurSteps, ReconcileSteps,
            SummarySteps, OwnSteps, TxSteps, OwnRecordExists
    <3> QED BY <2>1, <2>2, <2>3, <3>1, QuietStepKeeps DEF DiskTypes
  <2>5. SafeProcess(p)'
    BY <2>1, <2>2, <2>3, KindFacts
      DEF HandSteps, TxSteps, ReconcileSteps, SummarySteps, CurSteps,
          SelectSteps, HoldSteps, WatchSteps, CliSteps, SafeProcess, KindOK,
          KnownJob, Selecting, UnbornOK, NamedOK, HoldOK, ReconcilerOK, FallenOK,
          WriteOK, BehindOK
  <2>6. BossOK(p)'
    <3>1. pc'[Runtime(Own(p))] = pc[Runtime(Own(p))]
      BY <2>1, <2>2, KindFacts, OthersUnmoved
    <3> QED
      BY <2>1, <2>2, <2>3, <3>1
        DEF BossOK, RuntimeAlive, AliveSteps, SummarySteps, Ended, Unstarted
  <2>7. PairOK(Own(p))'
    BY <2>0, <2>1, <2>2, <2>6, BossMoves
  <2> QED BY <2>2, <2>3, <2>4, <2>5, <2>7, QuietStepSafe
<1> QED BY <1>1, <1>2 DEF WriteIntent

LEMMA PollingSafe ==
  ASSUME IInv, LInv, NEW p \in Processes, p[1] = "cli",
         PollHost(p) \/ PollAck(p) \/ PollAgain(p) \/ DeadlinePasses(p)
  PROVE  IInv' /\ LInv'
<1>1. /\ Handing(p) /\ PairOK(Own(p)) /\ p = Cli(Own(p)) /\ pc \in [Processes -> Steps]
      /\ pc[Host(Own(p))] # "off" /\ ~LeftIt(p) /\ pc[p] # "released"
  BY SafeAt, KindFacts
    DEF PairOK, HandoffOK, Handing, HandSteps, LeftIt, PollHost, PollAck, PollAgain,
        DeadlinePasses, IInv, TypeOK
<1>2. PICK next \in {"poll", "pollAck", "pollDeadline", "killHost", "abort", "release"} :
        Goto(p, next) /\ (next = "abort" => pc[Host(Own(p))] \in Ended)
  BY <1>1, KindFacts DEF PollHost, PollAck, PollAgain, DeadlinePasses, HostAlive
<1>3. InitiatorMovesOn(p)
  BY <1>1, <1>2
    DEF InitiatorMovesOn, Goto, Handing, HandSteps, Failing, TxSteps
<1>4. UNCHANGED <<store, cur, snap, job, back, kept>> /\ UNCHANGED lease
  BY DEF PollHost, PollAck, PollAgain, DeadlinePasses, disk, store
<1> QED BY <1>1, <1>2, <1>3, <1>4, InitiatorGoes DEF HandSteps

LEMMA ReleaseForHandoffSafe ==
  ASSUME IInv, LInv, NEW p \in Processes, p[1] = "cli",
         ReleaseForHandoff(p) \/ RemoveIntent(p)
  PROVE  IInv' /\ LInv'
<1>1. Handing(p) /\ p = Cli(Own(p)) /\ pc \in [Processes -> Steps]
  BY KindFacts DEF Handing, HandSteps, ReleaseForHandoff, RemoveIntent, IInv, TypeOK
<1>2. CASE ReleaseForHandoff(p)
  <2>1. InitiatorMovesOn(p)
    BY <1>1, <1>2
      DEF InitiatorMovesOn, Goto, Handing, Failing, LeftIt, TxSteps,
          ReleaseForHandoff
  <2> QED BY <1>1, <1>2, <2>1, InitiatorGoes DEF ReleaseForHandoff, HandSteps
<1>3. CASE RemoveIntent(p)
  <2>1. InitiatorMovesOn(p)
    BY <1>1, <1>3 DEF InitiatorMovesOn, Goto, Failing, LeftIt, TxSteps, RemoveIntent
  <2> QED
    BY <1>1, <1>3, <2>1, InitiatorGoes DEF RemoveIntent, HandSteps, disk, store
<1> QED BY <1>2, <1>3

LEMMA AbortSafe ==
  ASSUME IInv, LInv, NEW p \in Processes, p[1] = "cli", Abort(p)
  PROVE  IInv' /\ LInv'
BY FailHandoffSafe DEF Abort

-----------------------------------------------------------------------------
(* The hand-over: the steps that start or kill the host.                   *)

LEMMA SpawnHostSafe ==
  ASSUME IInv, LInv, NEW p \in Processes, p[1] = "cli", SpawnHost(p)
  PROVE  IInv' /\ LInv'
<1> DEFINE s == Own(p)
           h == Host(s)
<1>1. CASE FailHandoff(p)
  BY <1>1, FailHandoffSafe DEF SpawnHost
<1>2. CASE /\ pc' = [pc EXCEPT ![p] = "poll", ![h] = "hostStart"]
           /\ UNCHANGED <<cur, job>>
  <2>1. /\ SafeProcess(p) /\ p = Boss(s) /\ BossOK(p) /\ HandoffOK(s)
        /\ ProcessOK(p) /\ DiskTypes /\ pc[p] = "spawnHost" /\ s \in Sessions
        /\ p = Cli(s) /\ h \in Processes /\ h # p /\ Own(h) = s /\ h[1] = "host"
        /\ SafeProcess(h) /\ Runtime(s) \in Processes
        /\ Runtime(s) # p /\ Runtime(s) # h
    BY SafeAt, LeadAt, IInvAt, KindFacts, CliRuntimeFacts, HostFacts
      DEF SpawnHost, PairOK
  <2>2. /\ pc'[p] = "poll" /\ pc'[h] = "hostStart"
        /\ pc'[Runtime(s)] = pc[Runtime(s)] /\ record[s] # NoRecord
        /\ OwnRecordExists(p)
    BY <1>2, <2>1, RecordFacts DEF IInv, TypeOK, ProcessOK, OwnSteps,
                                   OwnRecordExists
  <2>3. /\ UNCHANGED <<store, cur, snap, job, back, kept>>
        /\ UNCHANGED <<record, lease, fresh, orphaned>>
        /\ LeaseKept(h) /\ OrphansGrow(h)
    BY <1>2, <2>1, LeaseSteps
      DEF SpawnHost, disk, store, kept, DiskTypes, OrphansGrow
  <2>4. IInv'
    <3>1. "poll" \in Steps /\ "poll" \notin CurSteps \cup SummarySteps \cup {"createSummary"}
      BY DEF Steps, CurSteps, SummarySteps, TxSteps, ReconcileSteps
    <3>2. lease' \in [Sessions -> Processes \cup {Nobody}]
      BY <2>1, <2>3 DEF DiskTypes
    <3> QED BY <1>2, <2>1, <2>2, <2>3, <3>1, <3>2, TwoProcessesKeep DEF kept
  <2>5. SafeProcess(p)' /\ SafeProcess(h)'
    BY <2>1, <2>2, <2>3, KindFacts
      DEF HandSteps, HostSteps, TxSteps, ReconcileSteps, SummarySteps, CurSteps,
          SelectSteps, HoldSteps, WatchSteps, CliSteps, SafeProcess, KindOK,
          KnownJob, Selecting, UnbornOK, NamedOK, HoldOK, ReconcilerOK, FallenOK,
          WriteOK, BehindOK
  <2>6. PairOK(s)'
    <3>1. pc[Runtime(s)] = "off" /\ s \notin orphaned
      BY <2>1 DEF BossOK, Unstarted, HandSteps, Ended
    <3>2. BossOK(h)'
      BY <2>1, <2>2, <2>3, <3>1
        DEF BossOK, RuntimeAlive, RuntimeGone, SummarySteps
    <3>3. HandoffOK(s)'
      BY <2>1, <2>2, <3>1
        DEF HandoffOK, Handing, HandSteps, Failing, TxSteps, Acting,
            LaterHostSteps, WatchSteps, SummarySteps, Ended
    <3>4. Boss(s)' = h
      BY <2>2 DEF Boss
    <3> QED BY <3>2, <3>3, <3>4 DEF PairOK
  <2> QED BY <1>2, <2>1, <2>3, <2>4, <2>5, <2>6, TwoProcessesSafe DEF kept
<1> QED BY <1>1, <1>2 DEF SpawnHost

\* The initiator kills its host, which has no runtime yet.
LEMMA KillHostSafe ==
  ASSUME IInv, LInv, NEW p \in Processes, p[1] = "cli", KillHost(p)
  PROVE  IInv' /\ LInv'
<1> DEFINE s == Own(p)
           h == Host(s)
<1>1. /\ SafeProcess(p) /\ PairOK(s) /\ ProcessOK(p) /\ DiskTypes
      /\ pc[p] = "killHost" /\ s \in Sessions /\ p = Cli(s)
      /\ h \in Processes /\ h # p /\ Own(h) = s /\ h[1] = "host" /\ SafeProcess(h)
      /\ Runtime(s) \in Processes /\ Runtime(s) # p /\ Runtime(s) # h
  BY SafeAt, IInvAt, KindFacts, CliRuntimeFacts, HostFacts DEF KillHost
<1>2. pc[h] # "off" /\ Boss(s) = h /\ ~LeftIt(p) /\ pc[Runtime(s)] = "off"
  BY <1>1 DEF PairOK, HandoffOK, Handing, HandSteps, LeftIt, Boss
<1>3. CASE ~HostAlive(s) /\ Goto(p, "abort") /\ UNCHANGED <<disk, cur, snap, job, back, kept>>
  <2>1. pc[h] \in Ended
    BY <1>2, <1>3 DEF HostAlive
  <2>2. InitiatorMovesOn(p)
    BY <1>1, <1>2, <1>3, <2>1
      DEF InitiatorMovesOn, Goto, Handing, HandSteps, IInv, TypeOK
  <2> QED
    BY <1>1, <1>3, <2>2, InitiatorGoes DEF Handing, HandSteps, disk, store
<1>4. CASE /\ HostAlive(s)
           /\ pc' = [pc EXCEPT ![p] = "abort", ![h] = "crashed"]
           /\ Release(h)
           /\ orphaned' = orphaned \cup Orphans(h)
           /\ cur'   = [cur EXCEPT ![h] = None]
           /\ snap'  = [snap EXCEPT ![h] = NoRecord]
           /\ job'   = [job EXCEPT ![h] = NoJob]
           /\ back'  = [back EXCEPT ![h] = None]
           /\ fresh' = [fresh EXCEPT ![h] = NoRecord]
           /\ UNCHANGED <<store, want>>
  <2>1. /\ pc'[p] = "abort" /\ pc'[h] = "crashed"
        /\ pc'[Runtime(s)] = "off" /\ record[s] # NoRecord /\ OwnRecordExists(p)
    BY <1>1, <1>2, <1>4, RecordFacts
      DEF IInv, TypeOK, ProcessOK, OwnSteps, OwnRecordExists
  <2>2. UNCHANGED <<record, orphaned>> /\ s \notin orphaned
    BY <1>1, <1>2, <1>4
      DEF store, Orphans, RuntimeAlive, RuntimeGone, PairOK, BossOK, HostAlive,
          Ended
  <2>3. /\ LeaseKept(h) /\ OrphansGrow(h) /\ lease'[s] = p
        /\ lease' \in [Sessions -> Processes \cup {Nobody}]
    BY <1>1, <1>4, <2>2, LeaseSteps, LeaseTypes
      DEF DiskTypes, OrphansGrow, SafeProcess, HoldOK, HoldSteps, HandSteps, Release
  <2>4. /\ cur'[p] = cur[p] /\ snap'[p] = snap[p] /\ job'[p] = job[p]
        /\ back'[p] = back[p] /\ fresh'[p] = fresh[p] /\ cur'[h] = None
    BY <1>1, <1>4 DEF IInv, TypeOK
  <2>5. IInv'
    <3>1. TypeOK'
      BY <1>4, <2>2, <2>3 DEF IInv, TypeOK, Steps, Ended, store
    <3>2. RecordsLoadable'
      BY <2>2 DEF IInv, RecordsLoadable
    <3>3. ASSUME NEW x \in Processes PROVE ProcessOK(x)'
      <4>1. CASE x \in {p, h}
        BY <2>1, <2>2, <4>1
          DEF ProcessOK, CurSteps, ReconcileSteps, SummarySteps, OwnSteps,
              TxSteps, OwnRecordExists
      <4>2. CASE x \notin {p, h}
        <5>1. /\ pc'[x] = pc[x] /\ cur'[x] = cur[x] /\ snap'[x] = snap[x]
              /\ job'[x] = job[x] /\ back'[x] = back[x] /\ fresh'[x] = fresh[x]
              /\ ProcessOK(x) /\ RecordsStay
          BY <1>4, <2>2, <4>2 DEF IInv, TypeOK, RecordsStay
        <5> QED BY <5>1, UntouchedProcess
      <4> QED BY <4>1, <4>2
    <3> QED BY <3>1, <3>2, <3>3 DEF IInv
  <2>6. SafeProcess(p)' /\ SafeProcess(h)'
    BY <1>1, <2>1, <2>2, <2>3, <2>4, KindFacts
      DEF HandSteps, LaterHostSteps, TxSteps, ReconcileSteps, SummarySteps,
          CurSteps, SelectSteps, HoldSteps, WatchSteps, CliSteps, SafeProcess,
          KindOK, KnownJob, Selecting, UnbornOK, NamedOK, HoldOK, ReconcilerOK,
          FallenOK, WriteOK, BehindOK, Ended
  <2>7. PairOK(s)'
    <3>1. BossOK(h)'
      BY <1>1, <2>1, <2>2
        DEF BossOK, RuntimeAlive, RuntimeGone, SummarySteps
    <3>2. HandoffOK(s)'
      BY <1>1, <2>1
        DEF HandoffOK, Handing, HandSteps, Acting, LaterHostSteps, Ended
    <3>3. Boss(s)' = h
      BY <2>1 DEF Boss
    <3> QED BY <3>1, <3>2, <3>3 DEF PairOK
  <2>8. \A x \in Processes \ {p, h} :
          /\ cur'[x] = cur[x] /\ snap'[x] = snap[x] /\ job'[x] = job[x]
          /\ back'[x] = back[x] /\ fresh'[x] = fresh[x]
    BY <1>4 DEF IInv, TypeOK
  <2> QED BY <1>1, <1>4, <2>3, <2>5, <2>6, <2>7, <2>8, TwoProcessesSafe
<1> QED BY <1>3, <1>4 DEF KillHost

LEMMA InitiatorStepSafe ==
  ASSUME IInv, LInv, NEW p \in Processes, p[1] = "cli", InitiatorStep(p)
  PROVE  IInv' /\ LInv'
BY WriteIntentSafe, SpawnHostSafe, PollingSafe, KillHostSafe, AbortSafe,
   ReleaseForHandoffSafe
   DEF InitiatorStep

-----------------------------------------------------------------------------
(* The hand-over: the steps of the host.                                   *)

\* The host p, not past the lease before, goes on to `next`.
LEMMA HostGoes ==
  ASSUME IInv, LInv, NEW p \in Processes, p[1] = "host", pc[p] \in HostSteps,
         NEW next \in HostSteps \cup {"errExit", "launch"}, Goto(p, next),
         UNCHANGED <<store, cur, job, back, kept>>,
         snap' = [snap EXCEPT ![p] = snap'[p]],
         snap'[p] \in {snap[p], NoRecord, record[Own(p)]},
         next = "hostLock" => record[Own(p)].state = "prepared",
         \/ UNCHANGED lease /\ next # "launch"
         \/ /\ pc[p] = "hostLock" /\ next = "launch"
            /\ FreeLease(Own(p)) /\ Acquire(p, Own(p))
  PROVE  IInv' /\ LInv'
<1> DEFINE s == Own(p)
<1>1. /\ SafeProcess(p) /\ LocalTypes(p) /\ ProcessOK(p) /\ DiskTypes
      /\ s \in Sessions /\ p = Host(s) /\ p = Boss(s) /\ BossOK(p) /\ HandoffOK(s)
      /\ Cli(s) \in Processes /\ Cli(s) # p /\ SafeProcess(Cli(s))
      /\ Runtime(s) \in Processes /\ Runtime(s) # p
      /\ Own(Cli(s)) = s /\ Cli(s) # Nobody
  BY SafeAt, LeadAt, IInvAt, KindFacts, CliRuntimeFacts, HostFacts
    DEF HostSteps, PairOK
<1>2. LocalStep(p) /\ pc'[p] = next
  BY DEF IInv, TypeOK, LocalStep, kept, Goto
<1>3. /\ UNCHANGED <<record, orphaned, want, fresh>>
      /\ LeaseKept(p) /\ OrphansGrow(p)
      /\ lease' \in [Sessions -> Processes \cup {Nobody}]
      /\ next = "launch" => lease'[s] = p
  BY <1>1, LeaseSteps, LeaseTypes DEF DiskTypes, store, kept, OrphansGrow
<1>4. /\ pc'[Cli(s)] = pc[Cli(s)] /\ job'[Cli(s)] = job[Cli(s)]
      /\ pc'[Runtime(s)] = pc[Runtime(s)]
      /\ cur'[p] = cur[p] /\ job'[p] = job[p] /\ back'[p] = back[p]
  BY <1>1, <1>2, OthersUnmoved
<1>5. IInv'
  <2>1. next \in OwnSteps => OwnRecordExists(p)
    BY <1>1, RecordFacts
      DEF DiskTypes, OwnSteps, SummarySteps, HostSteps, ProcessOK,
          OwnRecordExists, None
  <2>2. LocalTypes(p)' /\ ProcessOK(p)'
    BY <1>1, <1>2, <1>3, <2>1
      DEF DiskTypes, LocalTypes, ProcessOK, Steps, HostSteps, CurSteps,
          ReconcileSteps, SummarySteps, OwnSteps, TxSteps, OwnRecordExists
  <2> QED BY <1>1, <1>2, <1>3, <2>2, QuietStepKeeps DEF DiskTypes
<1>6. SafeProcess(p)'
  BY <1>1, <1>2, <1>3, <1>4, KindFacts
    DEF HandSteps, HostSteps, LaterHostSteps, TxSteps, ReconcileSteps,
        SummarySteps, CurSteps, SelectSteps, HoldSteps, WatchSteps, SafeProcess,
        KindOK, KnownJob, Selecting, UnbornOK, NamedOK, HoldOK, ReconcilerOK,
        FallenOK, WriteOK, BehindOK
<1>7. PairOK(s)'
  <2>1. pc[Runtime(s)] = "off" /\ s \notin orphaned
    BY <1>1 DEF BossOK, Unstarted, HostSteps, Ended
  <2>2. BossOK(p)'
    BY <1>1, <1>2, <1>3, <1>4, <2>1
      DEF BossOK, RuntimeAlive, RuntimeGone, HostSteps, SummarySteps
  <2>3. next = "launch" => LeftIt(Cli(s))
    BY <1>1, NobodyIsNoProcess
      DEF HandoffOK, HostSteps, Handing, Failing, LeftIt, Ended, FreeLease,
          SafeProcess, HoldOK, HoldSteps
  <2>4. HandoffOK(s)'
    BY <1>1, <1>2, <1>4, <2>1, <2>3
      DEF HandoffOK, Handing, Failing, LeftIt, Acting, HostSteps, LaterHostSteps,
          TxSteps, WatchSteps, SummarySteps, Ended
  <2>5. Boss(s)' = p
    BY <1>1, <1>2 DEF Boss, HostSteps
  <2> QED BY <2>2, <2>4, <2>5 DEF PairOK
<1> QED BY <1>2, <1>3, <1>5, <1>6, <1>7, QuietStepSafe

LEMMA HostStepSafe ==
  ASSUME IInv, LInv, NEW p \in Processes, p[1] = "host", HostStep(p)
  PROVE  IInv' /\ LInv'
<1>1. pc[p] \in HostSteps /\ UNCHANGED <<store, cur, job, back, kept>>
  BY DEF HostStep, HostStart, HostAckBegins, HostAckEnds, HostLoad, HostLock,
         HostRetries, HostGivesUp, HostSteps, disk, store
<1>2. CASE HostStart(p) \/ HostAckBegins(p) \/ HostAckEnds(p) \/ HostGivesUp(p)
  <2>1. UNCHANGED lease /\ snap' = [snap EXCEPT ![p] = snap'[p]] /\ snap'[p] = snap[p]
    BY <1>2 DEF HostStart, HostAckBegins, HostAckEnds, HostGivesUp, disk, IInv,
                TypeOK
  <2>2. PICK next \in {"hostAck", "hostAckWrite", "hostLoad", "errExit"} : Goto(p, next)
    BY <1>2 DEF HostStart, HostAckBegins, HostAckEnds, HostGivesUp
  <2> QED BY <1>1, <2>1, <2>2, HostGoes DEF HostSteps
<1>3. CASE HostLoad(p) \/ HostRetries(p)
  <2>1. /\ UNCHANGED lease /\ snap' = [snap EXCEPT ![p] = snap'[p]]
        /\ snap'[p] \in {snap[p], NoRecord, record[Own(p)]}
    BY <1>3 DEF HostLoad, HostRetries, disk, IInv, TypeOK
  <2>2. PICK next \in {"hostLock", "hostLoad", "errExit"} :
          Goto(p, next) /\ (next = "hostLock" => record[Own(p)].state = "prepared")
    BY <1>3 DEF HostLoad, HostRetries
  <2> QED BY <1>1, <2>1, <2>2, HostGoes DEF HostSteps
<1>4. CASE HostLock(p)
  <2>1. snap' = [snap EXCEPT ![p] = snap'[p]] /\ snap'[p] = snap[p]
    BY <1>4 DEF HostLock, IInv, TypeOK
  <2>2. PICK next \in {"hostRetry", "launch"} :
          /\ Goto(p, next)
          /\ \/ UNCHANGED lease /\ next # "launch"
             \/ /\ pc[p] = "hostLock" /\ next = "launch"
                /\ FreeLease(Own(p)) /\ Acquire(p, Own(p))
    BY <1>4 DEF HostLock
  <2> QED BY <1>1, <2>1, <2>2, HostGoes DEF HostSteps
<1> QED BY <1>2, <1>3, <1>4 DEF HostStep

-----------------------------------------------------------------------------
(* Hosts and runtimes start in order.                                      *)

\* Only background invocations have hosts, and their runtimes are started by
\* the hosts.
HostsFirst ==
  /\ \A s \in Sessions \ Background : pc[Host(s)] = "off"
  /\ \A s \in Background : pc[Host(s)] = "off" => pc[Runtime(s)] = "off"

\* A step leaves hosts off, and with them their runtimes.
LeavesOff ==
  /\ \A s \in Sessions \ Background : pc'[Host(s)] = pc[Host(s)]
  /\ \A s \in Background :
       pc'[Host(s)] = "off" =>
         pc[Host(s)] = "off" /\ pc'[Runtime(s)] = pc[Runtime(s)]

\* A host that has started is never off again.
LEMMA NeverOffAgain ==
  ASSUME IInv, NEW p \in Processes,
         SharedStep(p) \/ SuperviseStep(p) \/ Crash(p) \/ HostStep(p)
  PROVE  pc'[p] # "off"
<1>1. ProcessOK(p) /\ pc \in [Processes -> Steps]
  BY IInvAt DEF IInv, TypeOK
<1>2. CASE SharedStep(p)
  BY <1>1, <1>2
    DEF SharedStep, StoreStep, TransitionLoad, TransitionWrite, TransitionSummary,
        ReconcileLoad, ReconcileLock, ReconcileDrop, Transition, Return, Goto,
        ProcessOK, JobOK, ReconcileReturn, ReconcileSteps, TxSteps
<1>3. CASE SuperviseStep(p)
  <2>1. CASE \/ FailLaunch(p) \/ ObserveExit(p) \/ ReconcileExit(p) \/ RecoverExit(p)
             \/ BestEffort(p)
    BY <1>1, <2>1
      DEF FailLaunch, ObserveExit, ReconcileExit, RecoverExit, BestEffort,
          PersistAbnormal, Conclude, GiveUp, Transition, Goto
  <2>2. CASE \/ ValidateSummary(p) \/ RebuildLoad(p) \/ RebuildWrite(p) \/ Revalidate(p)
             \/ Exit(p)
    BY <1>1, <2>2
      DEF ValidateSummary, RebuildLoad, RebuildWrite, Revalidate, Exit, Goto,
          ProcessOK, SummaryReturn, SummarySteps
  <2>3. CASE Spawn(p) \/ WaitFails(p)
    <3>1. pc'[p] \in {"wait", "bind", "recoverExit", "killed", "uncertain"}
      BY <1>1, <2>3 DEF Spawn, WaitFails, Goto
    <3> QED BY <3>1
  <2> QED BY <1>3, <2>1, <2>2, <2>3 DEF SuperviseStep
<1>4. CASE Crash(p) \/ HostStep(p)
  BY <1>1, <1>4
    DEF Crash, HostStep, HostStart, HostAckBegins, HostAckEnds, HostLoad, HostLock,
        HostRetries, HostGivesUp, Goto
<1> QED BY <1>2, <1>3, <1>4

LEMMA OffStaysOff ==
  ASSUME IInv, NEW s \in Background, HostsFirst, pc[Host(s)] = "off"
  PROVE  ~SharedStep(Runtime(s)) /\ ~RuntimeStep(Runtime(s))
<1>1. pc[Runtime(s)] = "off"
  BY DEF HostsFirst
<1> QED
  BY <1>1
    DEF SharedStep, StoreStep, TransitionLoad, TransitionWrite, TransitionSummary,
        ReconcileLoad, ReconcileLock, ReconcileDrop, RuntimeStep, Bind, BindLease,
        HandlerInspects, InspectionDrop, HandlerReturns, RuntimeExits,
        RuntimeKilled, RuntimeGone

\* The steps of a session of its processes move no other session's.
LEMMA BackgroundLeavesOff ==
  ASSUME IInv, HostsFirst, [BackgroundNext]_allVars
  PROVE  LeavesOff
<1> USE BackgroundAssumption
<1>1. \A s, t \in Sessions :
        /\ Host(s) # Cli(t) /\ Host(s) # Runtime(t) /\ Runtime(s) # Cli(t)
        /\ s # t => Host(s) # Host(t) /\ Runtime(s) # Runtime(t)
        /\ {Cli(s), Host(s), Runtime(s)} \subseteq Processes
        /\ Own(Cli(s)) = s /\ Own(Host(s)) = s
  BY CliRuntimeFacts, HostFacts
<1>2. ASSUME NEW s \in Sessions \ Background, CliStep(s) PROVE LeavesOff
  <2>1. PairMoves(Cli(s))
    BY <1>1, <1>2, WhoMoves DEF CliStep, OnlyMoves, PairMoves
  <2> QED BY <1>1, <2>1 DEF PairMoves, LeavesOff
<1>3. ASSUME NEW s \in Background,
             \/ SharedStep(Cli(s)) \/ SelectionStep(Cli(s))
             \/ Exit(Cli(s)) \/ Crash(Cli(s))
      PROVE  LeavesOff
  <2>1. OnlyMoves(Cli(s))
    BY <1>1, <1>3, WhoMoves
  <2> QED BY <1>1, <2>1 DEF OnlyMoves, LeavesOff
<1>4. ASSUME NEW s \in Background, InitiatorStep(Cli(s)) PROVE LeavesOff
  <2>1. /\ \A x \in Processes \ {Cli(s), Host(s)} : pc'[x] = pc[x]
        /\ pc'[Host(s)] \in {pc[Host(s)], "hostStart", "crashed"}
    BY <1>1, <1>4
      DEF InitiatorStep, WriteIntent, SpawnHost, PollHost, PollAck, PollAgain,
          DeadlinePasses, KillHost, Abort, ReleaseForHandoff, RemoveIntent,
          FailHandoff, Transition, Goto, IInv, TypeOK
  <2> QED BY <1>1, <2>1 DEF LeavesOff
<1>5. ASSUME NEW s \in Background,
             \/ SharedStep(Host(s)) \/ SuperviseStep(Host(s))
             \/ Crash(Host(s)) \/ HostStep(Host(s))
      PROVE  LeavesOff
  <2>1. HostStep(Host(s)) => OnlyMoves(Host(s))
    BY DEF HostStep, HostStart, HostAckBegins, HostAckEnds, HostLoad, HostLock,
           HostRetries, HostGivesUp, Goto, OnlyMoves, IInv, TypeOK
  <2>2. PairMoves(Host(s)) /\ pc'[Host(s)] # "off"
    BY <1>1, <1>5, <2>1, WhoMoves, NeverOffAgain DEF OnlyMoves, PairMoves
  <2> QED BY <1>1, <2>2 DEF PairMoves, LeavesOff
<1>6. ASSUME NEW s \in Sessions, SharedStep(Runtime(s)) \/ RuntimeStep(Runtime(s))
      PROVE  LeavesOff
  <2>1. OnlyMoves(Runtime(s)) /\ (s \in Background => pc[Host(s)] # "off")
    BY <1>1, <1>6, WhoMoves, OffStaysOff
  <2> QED BY <1>1, <2>1 DEF OnlyMoves, LeavesOff
<1>7. CASE UNCHANGED allVars
  BY <1>7 DEF allVars, vars, locals, LeavesOff
<1> QED
  BY <1>2, <1>3, <1>4, <1>5, <1>6, <1>7 DEF BackgroundNext, UnchangedHandoff

-----------------------------------------------------------------------------
(* The invariant of the hand-over, and what it gives.                      *)

LEMMA BackgroundNextSafe ==
  ASSUME IInv, LInv, HostsFirst, [BackgroundNext]_allVars
  PROVE  IInv' /\ LInv' /\ HostsFirst'
<1> USE BackgroundAssumption
<1>1. HostsFirst'
  BY BackgroundLeavesOff DEF HostsFirst, LeavesOff
<1>2. \A s \in Sessions :
        /\ {Cli(s), Host(s), Runtime(s)} \subseteq Processes
        /\ Cli(s)[1] = "cli" /\ Host(s)[1] = "host" /\ Runtime(s)[1] = "runtime"
  BY CliRuntimeFacts, HostFacts
<1>3. ASSUME NEW p \in Processes,
             \/ SharedStep(p)
             \/ p[1] = "cli" /\ SelectionStep(p)
             \/ p[1] \in {"cli", "host"} /\ SuperviseStep(p)
             \/ p[1] \in {"cli", "host"} /\ Crash(p)
             \/ p[1] = "runtime" /\ RuntimeStep(p)
      PROVE  IInv' /\ LInv'
  BY <1>3, SharedStepKeeps, SelectionStepKeeps, SuperviseStepKeeps, CrashKeeps,
     RuntimeStepKeeps, SharedStepSafe, SelectionStepSafe, SuperviseStepSafe,
     CrashSafe, RuntimeStepSafe
<1>4. ASSUME NEW s \in Sessions \ Background, CliStep(s) PROVE IInv' /\ LInv'
  BY <1>2, <1>3, <1>4 DEF CliStep
<1>5. ASSUME NEW s \in Background,
             \/ SharedStep(Cli(s)) \/ SelectionStep(Cli(s)) \/ Exit(Cli(s))
             \/ Crash(Cli(s)) \/ InitiatorStep(Cli(s))
      PROVE  IInv' /\ LInv'
  BY <1>2, <1>3, <1>5, InitiatorStepSafe DEF SuperviseStep
<1>6. ASSUME NEW s \in Background,
             \/ HostStep(Host(s)) \/ SharedStep(Host(s)) \/ SuperviseStep(Host(s))
             \/ Crash(Host(s))
      PROVE  IInv' /\ LInv'
  BY <1>2, <1>3, <1>6, HostStepSafe
<1>7. ASSUME NEW s \in Sessions, SharedStep(Runtime(s)) \/ RuntimeStep(Runtime(s))
      PROVE  IInv' /\ LInv'
  BY <1>2, <1>3, <1>7
<1>8. CASE UNCHANGED allVars
  <2>1. UNCHANGED vars
    BY <1>8 DEF allVars
  <2> QED BY <1>1, <2>1, StutterKeeps, StutterSafe
<1> QED
  BY <1>1, <1>4, <1>5, <1>6, <1>7, <1>8 DEF BackgroundNext, UnchangedHandoff

\* The lease discipline holds whatever is handed over, to whom and when.
THEOREM HandoverDiscipline == BackgroundSpec => [](IInv /\ LInv /\ HostsFirst)
<1>1. BackgroundInit => IInv /\ LInv /\ HostsFirst
  BY InitOK, InitSafe, HostFacts, CliRuntimeFacts, BackgroundAssumption
    DEF BackgroundInit, Init, HostsFirst
<1>2. IInv /\ LInv /\ HostsFirst /\ [BackgroundNext]_allVars
        => (IInv /\ LInv /\ HostsFirst)'
  BY BackgroundNextSafe
<1> QED BY <1>1, <1>2, PTL DEF BackgroundSpec

\* An initiator that reports a failed hand-over leaves no host and no runtime.
THEOREM NothingLeftRunning == BackgroundSpec => []FailedHandoffRunsNothing
<1>1. ASSUME IInv, LInv, HostsFirst PROVE FailedHandoffRunsNothing
  <2> SUFFICES ASSUME NEW s \in Background, pc[Cli(s)] = "err"
               PROVE  ~HostAlive(s) /\ ~RuntimeAlive(s)
    BY DEF FailedHandoffRunsNothing
  <2>1. HandoffOK(s)
    BY <1>1, BackgroundAssumption DEF LInv, PairOK
  <2>2. CASE pc[Host(s)] = "off"
    BY <1>1, <2>2 DEF HostsFirst, HostAlive, RuntimeAlive, RuntimeGone
  <2>3. CASE pc[Host(s)] # "off"
    BY <2>1, <2>3
      DEF HandoffOK, LeftIt, HostAlive, RuntimeAlive, RuntimeGone
  <2> QED BY <2>2, <2>3
<1> QED BY <1>1, HandoverDiscipline, PTL

\* A host past the lease has an initiator that gave the session up.
THEOREM NeverTwoSupervisors == BackgroundSpec => []OneSupervisor
<1>1. ASSUME IInv, LInv PROVE OneSupervisor
  <2> SUFFICES ASSUME NEW s \in Background, HostAlive(s),
                      pc[Host(s)] \notin HostSteps \cup {"errExit"}
               PROVE  pc[Cli(s)] \in {"released", "okExit", "ok", "crashed"}
    BY DEF OneSupervisor
  <2>1. HandoffOK(s) /\ KindOK(Host(s)) /\ Host(s)[1] = "host"
    BY <1>1, BackgroundAssumption, HostFacts DEF LInv, PairOK, SafeProcess
  <2> QED BY <2>1 DEF KindOK, HostAlive, HandoffOK, Acting, LeftIt
<1> QED BY <1>1, HandoverDiscipline, PTL

\* Whoever supervises, host or invocation, reports success only for a succeeded
\* record and a runtime that exited with zero.
THEOREM SupervisorSuccessIsReal == BackgroundSpec => []SupervisorOutcomeSound
<1>1. ASSUME LInv, HostsFirst PROVE SupervisorOutcomeSound
  <2> SUFFICES ASSUME NEW s \in Sessions, pc[Supervisor(s)] \in {"okExit", "ok"}
               PROVE  record[s].state = "succeeded" /\ pc[Runtime(s)] = "exit0"
    BY DEF SupervisorOutcomeSound
  <2>1. Supervisor(s) = Boss(s)
    BY <1>1 DEF Supervisor, Boss, HostsFirst
  <2>2. BossOK(Boss(s)) /\ Own(Boss(s)) = s
    BY <1>1, BossFacts DEF LInv, PairOK
  <2> QED BY <2>1, <2>2 DEF BossOK, Succeeded
<1> QED BY <1>1, HandoverDiscipline, PTL

\* What foreground invocations rely on stays true when sessions are handed over:
\* records load, nobody replaces a record between the check and the rename of a
\* transition, and the root summary tells what a record says, or less.
THEOREM HandoverKeepsDocuments ==
  BackgroundSpec => [](TypeOK /\ RecordsLoadable /\ CheckedRevisionCurrent /\ SummaryNeverAhead)
<1>1. IInv => TypeOK /\ RecordsLoadable
  BY DEF IInv
<1>2. IInv /\ LInv => CheckedRevisionCurrent
  BY WritesAreCurrent
<1>3. LInv => SummaryNeverAhead
  BY DEF LInv, SummaryOK, SummaryNeverAhead
<1> QED BY <1>1, <1>2, <1>3, HandoverDiscipline, PTL

-----------------------------------------------------------------------------
(* The ledger: what the documents and processes show of the sessions keeps *)
(* SessionLedger.  HistoryInv adds to the invariants of the lease that an  *)
(* unorphaned record has the shape its transitions give it, that a pending *)
(* summary tells what the record has been, and that the record stays       *)
(* running from the rename that starts the handler to the handler's end.   *)

\* A record, as transitions leave it behind: its revision counts them.
Shape(r) ==
  \/ r.state = "prepared"  /\ r.rev = 0 /\ ~r.started
  \/ r.state = "running"   /\ r.rev = 1 /\ r.started
  \/ r.state = "succeeded" /\ r.rev = 2 /\ r.started
  \/ r.state = "failed"    /\ r.rev = IF r.started THEN 2 ELSE 1
  \/ r.state = "abandoned" /\ r.rev = IF r.started THEN 3 ELSE 2

\* The record t was that of s once, or its revision and state were.
Entered(s, t) ==
  t.rev + 1 \in DOMAIN History(record[s]) /\ History(record[s])[t.rev + 1] = t.state

\* A pending summary tells what a record has been.
EntryOK(p) ==
  /\ pc[p] = "txSummary" /\ cur[p] \notin orphaned => Entered(cur[p], snap[p])
  /\ pc[p] = "createSummary" => Entered(Own(p), snap[p])
  /\ pc[p] = "rebuildWrite" => Entered(Own(p), fresh[p])

\* A runtime starts its handler by the transition to running, and only by that.
HandlerJobOK(p) ==
  pc[p] \in {"txLoad", "txWrite", "txSummary"} /\ p[1] = "runtime" =>
    (job[p].done = "handler" <=> job[p].to = "running")

Beginning(p) == pc[p] = "txSummary" /\ job[p].done = "handler"

\* While the handler works, and from the rename on, the session is running.
WorkOK(s) ==
  LET p == Runtime(s) IN
  s \notin orphaned =>
    /\ pc[p] \in {"handler", "handlerDrop"} \/ Beginning(p) => record[s].state = "running"
    /\ Beginning(p) => snap[p] = record[s]

HistoryInv ==
  /\ \A s \in Sessions :
       /\ s \notin orphaned => record[s] = NoRecord \/ Shape(record[s])
       /\ WorkOK(s)
  /\ \A p \in Processes : EntryOK(p) /\ HandlerJobOK(p)

LEMMA AsSequence ==
  ASSUME NEW S, NEW n \in Nat, NEW f \in [1 .. n -> S]
  PROVE  f \in Seq(S) /\ Len(f) = n
<1>1. f \in Seq(S)
  BY SeqDef
<1>2. Len(f) \in Nat /\ DOMAIN f = 1 .. Len(f)
  BY <1>1, LenProperties
<1>3. 1 .. n = 1 .. Len(f)
  BY <1>2
<1>4. Len(f) = n
  BY <1>2, <1>3
<1> QED BY <1>1, <1>4

\* A history has one entry per revision; the last is the state of the record.
LEMMA HistoryFacts ==
  ASSUME NEW r \in SessionRecords
  PROVE  /\ History(r) \in Seq(States) /\ Len(History(r)) = r.rev + 1
         /\ DOMAIN History(r) = 1 .. r.rev + 1
         /\ History(r)[r.rev + 1] = r.state
         /\ History(r) # <<>>
         /\ \A i \in 1 .. r.rev : 
              History(r)[i] = IF i = 1 THEN "prepared"
                              ELSE IF i = 2 /\ r.started THEN "running" ELSE "failed"
<1>1. r # NoRecord /\ r.rev \in Nat /\ r.state \in States
  BY RecordFacts DEF SessionRecords
<1>2. History(r) = [i \in 1 .. r.rev + 1 |->
          IF i = r.rev + 1 THEN r.state
          ELSE IF i = 1 THEN "prepared"
          ELSE IF i = 2 /\ r.started THEN "running" ELSE "failed"]
  BY <1>1 DEF History
<1>3. History(r) \in [1 .. r.rev + 1 -> States]
  BY <1>1, <1>2 DEF States
<1>4. History(r) \in Seq(States) /\ Len(History(r)) = r.rev + 1
  BY <1>1, <1>3, AsSequence
<1>5. /\ DOMAIN History(r) = 1 .. r.rev + 1 /\ History(r)[r.rev + 1] = r.state
      /\ \A i \in 1 .. r.rev : 
           History(r)[i] = IF i = 1 THEN "prepared"
                           ELSE IF i = 2 /\ r.started THEN "running" ELSE "failed"
  BY <1>1, <1>2
<1>6. History(r) # <<>>
  BY <1>1, <1>4, EmptySeq
<1> QED BY <1>4, <1>5, <1>6

\* A transition that follows adds one entry to the history of a record.
LEMMA HistoryGrows ==
  ASSUME NEW r \in SessionRecords, Shape(r),
         NEW to \in States, NEW why \in Failures \cup {None},
         NEW r2 \in SessionRecords, r2 = ApplyTransition(r, to, why),
         Ledger!Follows(r.state, to)
  PROVE  /\ Shape(r2) /\ History(r2) = Append(History(r), to)
         /\ r2.rev = r.rev + 1
         /\ \A i \in 1 .. r.rev + 1 : History(r2)[i] = History(r)[i]
<1>1. /\ r.rev \in Nat /\ r.state \in States /\ r.started \in BOOLEAN
      /\ r2.state = to /\ r2.rev = r.rev + 1
      /\ r2.started <=> r.started \/ to = "running"
  BY DEF SessionRecords, ApplyTransition
<1>2. Shape(r2)
  <2>1. CASE r.state = "prepared"
    BY <1>1, <2>1 DEF Shape, Ledger!Follows
  <2>2. CASE r.state = "running"
    BY <1>1, <2>2 DEF Shape, Ledger!Follows
  <2>3. CASE r.state = "failed"
    BY <1>1, <2>3 DEF Shape, Ledger!Follows
  <2> QED BY <2>1, <2>2, <2>3 DEF Ledger!Follows
<1>3. \A i \in 1 .. r.rev + 1 : History(r2)[i] = History(r)[i]
  <2> SUFFICES ASSUME NEW i \in 1 .. r.rev + 1
               PROVE  History(r2)[i] = History(r)[i]
    OBVIOUS
  <2>1. i \in 1 .. r2.rev /\ i \in Nat
    BY <1>1
  <2>2. History(r2)[i] = IF i = 1 THEN "prepared"
                         ELSE IF i = 2 /\ r2.started THEN "running" ELSE "failed"
    BY <2>1, HistoryFacts
  <2>3. CASE i = r.rev + 1
    <3>1. History(r)[i] = r.state
      BY <2>3, HistoryFacts
    <3> QED BY <1>1, <2>2, <2>3, <3>1 DEF Shape, Ledger!Follows
  <2>4. CASE i # r.rev + 1
    <3>1. i \in 1 .. r.rev
      BY <1>1, <2>1, <2>4
    <3>2. History(r)[i] = IF i = 1 THEN "prepared"
                          ELSE IF i = 2 /\ r.started THEN "running" ELSE "failed"
      BY <3>1, HistoryFacts
    <3>3. r.rev # 0 /\ (i = 2 => r.rev # 1)
      BY <1>1, <3>1
    <3> QED BY <1>1, <2>2, <3>2, <3>3 DEF Shape, Ledger!Follows
  <2> QED BY <2>3, <2>4
<1>4. History(r2) = Append(History(r), to)
  <2> DEFINE h == History(r)
             h2 == History(r2)
             a == Append(History(r), to)
  <2>1. /\ h \in Seq(States) /\ Len(h) = r.rev + 1
        /\ h2 \in Seq(States) /\ Len(h2) = r.rev + 2 /\ h2[r.rev + 2] = to
    BY <1>1, HistoryFacts
  <2>2. /\ a \in Seq(States) /\ Len(a) = r.rev + 2 /\ a[r.rev + 2] = to
        /\ \A i \in 1 .. r.rev + 1 : a[i] = h[i]
    BY <1>1, <2>1, AppendProperties
  <2>3. \A i \in 1 .. Len(h2) : h2[i] = a[i]
    <3> SUFFICES ASSUME NEW i \in 1 .. r.rev + 2 PROVE h2[i] = a[i]
      BY <2>1
    <3>1. i = r.rev + 2 \/ i \in 1 .. r.rev + 1
      BY <1>1
    <3> QED BY <1>3, <2>1, <2>2, <3>1
  <2>4. Len(h2) = Len(a)
    BY <2>1, <2>2
  <2> HIDE DEF h2, a
  <2>5. h2 = a
    BY <2>1, <2>2, <2>3, <2>4, SeqEqual
  <2> QED BY <2>5 DEF h2, a
<1> QED BY <1>1, <1>2, <1>3, <1>4

\* The first entry.
LEMMA HistoryBegins ==
  /\ History(NoRecord) = <<>>
  /\ Shape(NewPrepared) /\ History(NewPrepared) = <<"prepared">>
<1>1. History(NoRecord) = <<>>
  BY DEF History
<1>2. NewPrepared.rev = 0 /\ NewPrepared.state = "prepared" /\ ~NewPrepared.started
  BY DEF NewPrepared
<1>3. Shape(NewPrepared)
  BY <1>2 DEF Shape
<1>4. PICK r \in SessionRecords : r = NewPrepared /\ r.rev + 1 = 1
  BY <1>2, RecordFacts
<1>5. /\ History(NewPrepared) \in Seq(States) /\ Len(History(NewPrepared)) = 1
      /\ History(NewPrepared)[1] = "prepared"
  <2>1. /\ History(r) \in Seq(States) /\ Len(History(r)) = r.rev + 1
        /\ History(r)[r.rev + 1] = r.state
    BY HistoryFacts
  <2> QED BY <1>2, <1>4, <2>1
<1>6. <<"prepared">> \in Seq(States) /\ Len(<<"prepared">>) = 1 /\ <<"prepared">>[1] = "prepared"
  BY DEF States
<1>7. History(NewPrepared) = <<"prepared">>
  <2>1. \A i \in 1 .. Len(History(NewPrepared)) : History(NewPrepared)[i] = <<"prepared">>[i]
    BY <1>5, <1>6
  <2> QED BY <1>5, <1>6, <2>1, SeqEqual
<1> QED BY <1>1, <1>3, <1>7

\* Whether the handler of the runtime p is at work, or still to start.
Working(p) == pc[p] \in {"handler", "handlerDrop"}
Waiting(p) ==
  pc[p] \in {"off", "bind", "bindLease"} \/ (pc[p] \in TxSteps /\ job[p].done = "handler")

\* A step of p that writes no document and confirms nothing.
Quiet(p) ==
  /\ LocalStep(p) /\ UNCHANGED <<record, summary, orphaned>>
  /\ pc[p] # "ok" /\ pc'[p] \notin {"ok", "txSummary", "createSummary"}
  /\ pc'[p] = "rebuildWrite" => fresh'[p] = record[Own(p)] /\ OwnRecordExists(p)
  /\ p[1] = "runtime" =>
       /\ Working(p)' => Working(p)
       /\ Waiting(p)' => Waiting(p)
       /\ HandlerJobOK(p)'

\* The steps that write: the record of a transition, its summary, ...
Renames(p) ==
  /\ pc[p] = "txWrite" /\ record' = [record EXCEPT ![cur[p]] = snap[p]]
  /\ Goto(p, "txSummary") /\ UNCHANGED <<summary, lease, cur, snap, job, back, kept>>

Tells(p) ==
  /\ pc[p] = "txSummary" /\ summary' = SummaryOf(cur[p], snap[p])
  /\ Return(p, snap[p], job[p].done) /\ UNCHANGED <<record, lease, cur, back, kept>>

\* ... the record of a new session, its summary, and a rebuilt one.
Creates(p) ==
  /\ pc[p] = "create" /\ record' = [record EXCEPT ![Own(p)] = NewPrepared]
  /\ snap' = [snap EXCEPT ![p] = NewPrepared] /\ cur' = [cur EXCEPT ![p] = Own(p)]
  /\ Goto(p, "createSummary") /\ UNCHANGED <<summary, lease, job, back, kept>>

Announces(p) ==
  /\ pc[p] = "createSummary" /\ summary' = SummaryOf(Own(p), snap[p])
  /\ Goto(p, "acquire") /\ UNCHANGED <<record, lease, cur, snap, job, back, kept>>

Rebuilds(p) ==
  /\ pc[p] = "rebuildWrite" /\ summary' = SummaryOf(Own(p), fresh[p])
  /\ Goto(p, "revalidate") /\ fresh' = [fresh EXCEPT ![p] = NoRecord]
  /\ UNCHANGED <<record, lease, cur, snap, job, back, want, orphaned>>

LEMMA StoreSteps ==
  ASSUME IInv, LInv, HistoryInv, NEW p \in Processes, SharedStep(p)
  PROVE  Quiet(p) \/ Renames(p) \/ Tells(p)
<1>1. ProcessOK(p) /\ LocalTypes(p) /\ HandlerJobOK(p) /\ SafeProcess(p)
  BY IInvAt, SafeAt DEF HistoryInv
<1>2. CASE TransitionLoad(p) /\ UNCHANGED kept
  <2>1. LocalStep(p)
    BY <1>2 DEF IInv, TypeOK, LocalStep, kept, Goto, TransitionLoad, Return
  <2>2. /\ UNCHANGED <<record, summary, orphaned>> /\ pc[p] = "txLoad"
        /\ \/ pc'[p] = "txWrite" /\ job'[p] = job[p]
           \/ pc'[p] \in {"errExit", "exitN"}
    BY <1>1, <1>2
      DEF IInv, TypeOK, kept, disk, Goto, TransitionLoad, Return, ProcessOK, JobOK,
          TxSteps
  <2> QED
    BY <1>1, <2>1, <2>2 DEF Quiet, Working, Waiting, HandlerJobOK, TxSteps
<1>3. CASE TransitionWrite(p) /\ UNCHANGED kept
  <2>1. CASE Renames(p)
    BY <2>1
  <2>2. CASE IoFaults /\ Return(p, NoRecord, job[p].fail) /\ UNCHANGED record
    <3>1. LocalStep(p)
      BY <1>3, <2>2 DEF IInv, TypeOK, LocalStep, kept, Goto, TransitionWrite, Return
    <3>2. /\ UNCHANGED <<record, summary, orphaned>> /\ pc[p] = "txWrite"
          /\ pc'[p] \in {"errExit", "exitN"}
      BY <1>1, <1>3, <2>2
        DEF IInv, TypeOK, kept, Goto, TransitionWrite, Return, ProcessOK, JobOK,
            TxSteps
    <3> QED
      BY <3>1, <3>2 DEF Quiet, Working, Waiting, HandlerJobOK, TxSteps
  <2> QED BY <1>3, <2>1, <2>2 DEF TransitionWrite, Renames
<1>4. CASE TransitionSummary(p) /\ UNCHANGED kept
  <2>1. CASE Tells(p)
    BY <2>1
  <2>2. CASE IoFaults /\ Return(p, NoRecord, job[p].fail) /\ UNCHANGED summary
    <3>1. LocalStep(p)
      BY <1>4, <2>2 DEF IInv, TypeOK, LocalStep, kept, Goto, TransitionSummary, Return
    <3>2. /\ UNCHANGED <<record, summary, orphaned>> /\ pc[p] = "txSummary"
          /\ pc'[p] \in {"errExit", "exitN"}
      BY <1>1, <1>4, <2>2
        DEF IInv, TypeOK, kept, Goto, TransitionSummary, Return, ProcessOK, JobOK,
            TxSteps
    <3> QED
      BY <3>1, <3>2 DEF Quiet, Working, Waiting, HandlerJobOK, TxSteps
  <2> QED BY <1>4, <2>1, <2>2 DEF TransitionSummary, Tells
<1>5. CASE (ReconcileLoad(p) \/ ReconcileLock(p) \/ ReconcileDrop(p)) /\ UNCHANGED kept
  <2>1. LocalStep(p)
    BY <1>5
      DEF IInv, TypeOK, LocalStep, kept, Goto, ReconcileLoad, ReconcileLock,
          ReconcileDrop, Transition
  <2>2. /\ UNCHANGED <<record, summary, orphaned>> /\ pc[p] \in ReconcileSteps
        /\ pc'[p] \in {"reconcileLock", "select", "assessed", "txLoad"}
    BY <1>1, <1>5
      DEF IInv, TypeOK, kept, disk, store, Goto, ReconcileLoad, ReconcileLock,
          ReconcileDrop, Transition, ProcessOK, ReconcileReturn, ReconcileSteps
  <2>3. p[1] # "runtime"
    BY <1>1, <2>2
      DEF SafeProcess, KindOK, RuntimeSteps, RuntimeGone, TxSteps, ReconcileSteps
  <2> QED
    BY <2>1, <2>2, <2>3 DEF Quiet, ReconcileSteps
<1> QED BY <1>2, <1>3, <1>4, <1>5 DEF SharedStep, StoreStep

LEMMA SelectionSteps ==
  ASSUME IInv, NEW p \in Processes, p[1] = "cli", SelectionStep(p)
  PROVE  Quiet(p) \/ Creates(p) \/ Announces(p)
<1>1. CASE \/ Start(p) \/ Select(p) \/ Classify(p) \/ Assess(p) \/ AssessLoad(p)
           \/ Assessed(p) \/ AfterAbandon(p) \/ AcquireLease(p)
  <2>1. LocalStep(p)
    BY <1>1
      DEF IInv, TypeOK, LocalStep, kept, Goto, Start, Select, Classify, Assess,
          AssessLoad, Assessed, AfterAbandon, AcquireLease, Decide, Transition
  <2>2. UNCHANGED <<record, summary, orphaned>>
    BY <1>1
      DEF kept, disk, store, Start, Select, Classify, Assess, AssessLoad, Assessed,
          AfterAbandon, AcquireLease
  <2>3. /\ pc[p] # "ok"
        /\ pc'[p] \in {"reconcile", "select", "classify", "assess", "errExit",
                       "assessLoad", "txLoad", "create", "launch"}
    BY <1>1
      DEF IInv, TypeOK, Goto, Start, Select, Classify, Assess, AssessLoad, Assessed,
          AfterAbandon, AcquireLease, Decide, Transition
  <2> QED BY <2>1, <2>2, <2>3 DEF Quiet
<1>2. CASE CreateRecord(p)
  <2>1. CASE Goto(p, "errExit") /\ UNCHANGED <<record, cur, snap>>
    BY <1>2, <2>1 DEF CreateRecord, Quiet, LocalStep, Goto, IInv, TypeOK, kept
  <2> QED BY <1>2, <2>1 DEF CreateRecord, Creates
<1>3. CASE CreateSummary(p)
  <2>1. CASE Goto(p, "errExit") /\ UNCHANGED summary
    BY <1>3, <2>1 DEF CreateSummary, Quiet, LocalStep, Goto, IInv, TypeOK, kept
  <2> QED BY <1>3, <2>1 DEF CreateSummary, Announces
<1> QED BY <1>1, <1>2, <1>3 DEF SelectionStep

LEMMA SuperviseSteps ==
  ASSUME IInv, NEW p \in Processes, p[1] \in {"cli", "host"}, SuperviseStep(p)
  PROVE  Quiet(p) \/ Rebuilds(p) \/ Spawn(p) \/ WaitFails(p) \/ Exit(p)
<1>1. ProcessOK(p) /\ LocalTypes(p)
  BY IInvAt
<1>2. CASE \/ FailLaunch(p) \/ ObserveExit(p) \/ ReconcileExit(p) \/ RecoverExit(p)
           \/ BestEffort(p)
  <2>1. LocalStep(p)
    BY <1>2
      DEF IInv, TypeOK, LocalStep, kept, Goto, FailLaunch, ObserveExit, ReconcileExit,
          RecoverExit, BestEffort, PersistAbnormal, Conclude, GiveUp, Transition
  <2>2. UNCHANGED <<record, summary, orphaned>>
    BY <1>2
      DEF kept, disk, FailLaunch, ObserveExit, ReconcileExit, RecoverExit, BestEffort
  <2>3. /\ pc[p] # "ok"
        /\ pc'[p] \in {"txLoad", "reconcileExit", "summary", "errExit"}
    BY <1>2
      DEF IInv, TypeOK, Goto, FailLaunch, ObserveExit, ReconcileExit, RecoverExit,
          BestEffort, PersistAbnormal, Conclude, GiveUp, Transition
  <2> QED BY <2>1, <2>2, <2>3 DEF Quiet
<1>3. CASE ValidateSummary(p) \/ RebuildLoad(p) \/ Revalidate(p)
  <2>1. LocalStep(p)
    BY <1>3
      DEF IInv, TypeOK, LocalStep, kept, Goto, ValidateSummary, RebuildLoad, Revalidate
  <2>2. UNCHANGED <<record, summary, orphaned>>
    BY <1>3 DEF kept, disk, ValidateSummary, RebuildLoad, Revalidate
  <2>3. /\ pc[p] # "ok"
        /\ pc'[p] \in {"okExit", "errExit", "rebuildLoad", "rebuildWrite"}
        /\ pc'[p] = "rebuildWrite" => fresh'[p] = record[Own(p)] /\ OwnRecordExists(p)
    BY <1>1, <1>3
      DEF IInv, TypeOK, Goto, ValidateSummary, RebuildLoad, Revalidate, ProcessOK,
          SummaryReturn, SummarySteps, OwnSteps
  <2> QED BY <2>1, <2>2, <2>3 DEF Quiet
<1>4. CASE RebuildWrite(p)
  <2>1. CASE Goto(p, "errExit") /\ UNCHANGED summary
    BY <1>4, <2>1 DEF RebuildWrite, Quiet, LocalStep, Goto, IInv, TypeOK
  <2> QED BY <1>4, <2>1 DEF RebuildWrite, Rebuilds
<1> QED BY <1>2, <1>3, <1>4 DEF SuperviseStep

LEMMA RuntimeIsQuiet ==
  ASSUME IInv, LInv, NEW p \in Processes, p[1] = "runtime", RuntimeStep(p)
  PROVE  Quiet(p)
<1>1. LocalStep(p)
  BY DEF IInv, TypeOK, LocalStep, kept, Goto, RuntimeStep, Bind, BindLease,
         HandlerInspects, InspectionDrop, HandlerReturns, RuntimeExits,
         RuntimeKilled, Transition, Return
<1>2. UNCHANGED <<record, summary, orphaned>>
  BY DEF kept, disk, store, RuntimeStep, Bind, BindLease, HandlerInspects,
         InspectionDrop, HandlerReturns, RuntimeExits, RuntimeKilled
<1>3. pc[p] # "ok"
  BY SafeAt DEF SafeProcess, KindOK, RuntimeSteps, RuntimeGone, TxSteps
<1>4. CASE Bind(p) \/ InspectionDrop(p) \/ RuntimeExits(p) \/ HandlerInspects(p) \/ RuntimeKilled(p)
  <2>1. /\ pc'[p] \in {"bindLease", "exitN", "exit0", "killed", "handler", "handlerDrop"}
        /\ pc'[p] = "bindLease" => pc[p] = "bind"
        /\ pc'[p] \in {"handler", "handlerDrop"} => pc[p] \in {"handler", "handlerDrop"}
    BY <1>4
      DEF IInv, TypeOK, Goto, Bind, InspectionDrop, RuntimeExits, HandlerInspects,
          RuntimeKilled, Return
  <2> QED
    BY <1>1, <1>2, <1>3, <2>1
      DEF Quiet, Working, Waiting, HandlerJobOK, TxSteps
<1>5. CASE BindLease(p)
  <2>1. /\ pc[p] = "bindLease"
        /\ \/ pc'[p] = "unboundDrop"
           \/ /\ pc'[p] = "txLoad" /\ job'[p].done = "handler"
              /\ job'[p].to = "running"
    BY <1>5 DEF IInv, TypeOK, Goto, BindLease, Transition
  <2> QED
    BY <1>1, <1>2, <1>3, <2>1
      DEF Quiet, Working, Waiting, HandlerJobOK, TxSteps
<1>6. CASE HandlerReturns(p)
  <2>1. /\ pc'[p] = "txLoad" /\ job'[p].done \in {"exit0", "exitN"}
        /\ job'[p].to \in {"succeeded", "failed"}
    BY <1>6 DEF IInv, TypeOK, Goto, HandlerReturns, Transition
  <2> QED
    BY <1>1, <1>2, <1>3, <2>1
      DEF Quiet, Working, Waiting, HandlerJobOK, TxSteps
<1> QED BY <1>4, <1>5, <1>6 DEF RuntimeStep

LEMMA InitiatorSteps ==
  ASSUME IInv, NEW p \in Processes, p[1] = "cli", InitiatorStep(p)
  PROVE  Quiet(p) \/ SpawnHost(p) \/ KillHost(p)
<1>1. CASE \/ WriteIntent(p) \/ PollHost(p) \/ PollAck(p) \/ PollAgain(p)
           \/ DeadlinePasses(p) \/ Abort(p) \/ ReleaseForHandoff(p) \/ RemoveIntent(p)
  <2>1. LocalStep(p)
    BY <1>1
      DEF IInv, TypeOK, LocalStep, kept, Goto, WriteIntent, PollHost, PollAck,
          PollAgain, DeadlinePasses, Abort, ReleaseForHandoff, RemoveIntent,
          FailHandoff, Transition
  <2>2. UNCHANGED <<record, summary, orphaned>>
    BY <1>1
      DEF kept, disk, store, WriteIntent, PollHost, PollAck, PollAgain, DeadlinePasses,
          Abort, ReleaseForHandoff, RemoveIntent
  <2>3. /\ pc[p] # "ok"
        /\ pc'[p] \in {"spawnHost", "txLoad", "abort", "killHost", "pollAck",
                       "pollDeadline", "release", "poll", "released", "okExit"}
    BY <1>1
      DEF IInv, TypeOK, Goto, WriteIntent, PollHost, PollAck, PollAgain,
          DeadlinePasses, Abort, ReleaseForHandoff, RemoveIntent, FailHandoff,
          Transition
  <2> QED BY <2>1, <2>2, <2>3 DEF Quiet
<1> QED BY <1>1 DEF InitiatorStep

LEMMA HostIsQuiet ==
  ASSUME IInv, NEW p \in Processes, p[1] = "host", HostStep(p)
  PROVE  Quiet(p)
<1>1. LocalStep(p)
  BY DEF IInv, TypeOK, LocalStep, kept, Goto, HostStep, HostStart, HostAckBegins,
         HostAckEnds, HostLoad, HostLock, HostRetries, HostGivesUp
<1>2. UNCHANGED <<record, summary, orphaned>>
  BY DEF kept, disk, store, HostStep, HostStart, HostAckBegins, HostAckEnds, HostLoad,
         HostLock, HostRetries, HostGivesUp
<1>3. pc[p] # "ok" /\ pc'[p] \in HostSteps \cup {"launch", "errExit"}
  BY DEF IInv, TypeOK, Goto, HostStep, HostStart, HostAckBegins, HostAckEnds, HostLoad,
         HostLock, HostRetries, HostGivesUp, HostSteps
<1> QED BY <1>1, <1>2, <1>3 DEF Quiet, HostSteps

-----------------------------------------------------------------------------
(* HistoryInv is inductive.                                                *)

LEMMA HistoryAt ==
  ASSUME HistoryInv, NEW p \in Processes
  PROVE  EntryOK(p) /\ HandlerJobOK(p)
BY DEF HistoryInv

\* What q has to do for HistoryInv, while no record changes.
Steady(q) ==
  \/ /\ pc'[q] = pc[q] /\ cur'[q] = cur[q] /\ snap'[q] = snap[q]
     /\ job'[q] = job[q] /\ fresh'[q] = fresh[q]
  \/ /\ pc'[q] \notin {"txSummary", "createSummary"}
     /\ pc'[q] = "rebuildWrite" => fresh'[q] = record[Own(q)] /\ OwnRecordExists(q)
     /\ q[1] = "runtime" =>
          /\ Working(q)' => Working(q) \/ Beginning(q)
          /\ HandlerJobOK(q)'

LEMMA SteadyHistory ==
  ASSUME IInv, HistoryInv, UNCHANGED record, orphaned \subseteq orphaned',
         \A q \in Processes : Steady(q)
  PROVE  HistoryInv'
<1>1. ASSUME NEW s \in Sessions
      PROVE  /\ s \notin orphaned' => record'[s] = NoRecord \/ Shape(record'[s])
             /\ WorkOK(s)'
  <2>1. /\ s \notin orphaned => record[s] = NoRecord \/ Shape(record[s])
        /\ WorkOK(s)
    BY DEF HistoryInv
  <2>2. Runtime(s) \in Processes /\ Steady(Runtime(s)) /\ Runtime(s)[1] = "runtime"
    BY CliRuntimeFacts
  <2>3. WorkOK(s)'
    BY <2>1, <2>2 DEF WorkOK, Steady, Working, Beginning
  <2> QED BY <2>1, <2>3
<1>2. ASSUME NEW q \in Processes PROVE EntryOK(q)' /\ HandlerJobOK(q)'
  <2>1. EntryOK(q) /\ HandlerJobOK(q) /\ Steady(q)
    BY DEF HistoryInv
  <2>2. HandlerJobOK(q)'
    BY <2>1 DEF Steady, HandlerJobOK
  <2>3. OwnRecordExists(q) => Entered(Own(q), record[Own(q)])
    <3> SUFFICES ASSUME OwnRecordExists(q) PROVE Entered(Own(q), record[Own(q)])
      OBVIOUS
    <3>1. PICK r \in SessionRecords : r = record[Own(q)]
      BY DEF OwnRecordExists
    <3>2. r.rev \in Nat
      BY DEF SessionRecords
    <3> QED BY <3>1, <3>2, HistoryFacts DEF Entered
  <2>4. EntryOK(q)'
    BY <2>1, <2>3 DEF Steady, EntryOK, Entered
  <2> QED BY <2>2, <2>4
<1>3. \A s \in Sessions :
        /\ s \notin orphaned' => record'[s] = NoRecord \/ Shape(record'[s])
        /\ WorkOK(s)'
  BY <1>1
<1>4. \A q \in Processes : EntryOK(q)' /\ HandlerJobOK(q)'
  BY <1>2
<1> QED BY <1>3, <1>4 DEF HistoryInv

\* A process that does not move, beside one that does.
LEMMA OthersSteady ==
  ASSUME IInv, NEW p \in Processes, LocalStep(p)
  PROVE  \A q \in Processes \ {p} : Steady(q)
BY OthersUnmoved DEF Steady

LEMMA QuietHistory ==
  ASSUME IInv, HistoryInv, NEW p \in Processes, Quiet(p)
  PROVE  HistoryInv'
<1>1. Steady(p)
  BY DEF Quiet, Steady
<1>2. \A q \in Processes : Steady(q)
  BY <1>1, OthersSteady DEF Quiet
<1> QED BY <1>2, SteadyHistory DEF Quiet

\* No process is about to tell of a session of its own that is an orphan.
LEMMA TellersOwn ==
  ASSUME IInv, LInv, NEW p \in Processes,
         pc[p] \in {"create", "createSummary", "rebuildWrite"}
  PROVE  /\ Own(p) \in Sessions \ orphaned /\ p[1] # "runtime"
         /\ p = Boss(Own(p)) /\ BossOK(p)
         /\ pc[p] = "create" => record[Own(p)] = NoRecord
<1>1. SafeProcess(p) /\ Own(p) \in Sessions /\ p[1] \in {"cli", "host", "runtime"}
  BY SafeAt, KindFacts
<1>2. p[1] \in {"cli", "host"}
  BY <1>1 DEF SafeProcess, KindOK, RuntimeSteps, RuntimeGone, TxSteps
<1>3. p = Boss(Own(p)) /\ BossOK(p)
  BY <1>2, LeadAt DEF BossSteps, SelectSteps, WatchSteps, SummarySteps
<1>4. Own(p) \notin orphaned
  BY <1>3 DEF BossOK, Ended
<1>5. pc[p] = "create" => record[Own(p)] = NoRecord
  BY <1>1, <1>2
    DEF SafeProcess, KindOK, UnbornOK, Selecting, SelectSteps, HostSteps,
        LaterHostSteps, TxSteps, WatchSteps, SummarySteps, Ended
<1> QED BY <1>1, <1>2, <1>3, <1>4, <1>5

\* What a renamed record follows, and what its session's handler may be doing.
LEMMA RenameFollows ==
  ASSUME IInv, LInv, HistoryInv, NEW p \in Processes, pc[p] = "txWrite",
         NEW s \in Sessions, s = cur[p], s \notin orphaned
  PROVE  /\ record[s] \in SessionRecords /\ Shape(record[s])
         /\ snap[p] \in SessionRecords /\ job[p].to \in States
         /\ job[p].why \in Failures \cup {None} /\ snap[p].state = job[p].to
         /\ \/ snap[p] = record[s] /\ record[s].state # "running"
            \/ /\ snap[p] = ApplyTransition(record[s], job[p].to, job[p].why)
               /\ Ledger!Follows(record[s].state, job[p].to)
         /\ p # Runtime(s) => ~Working(Runtime(s)) /\ ~Beginning(Runtime(s))
         /\ p = Runtime(s) \/ job[p].to \in {"failed", "abandoned"}
<1>1. /\ SafeProcess(p) /\ ProcessOK(p) /\ DiskTypes /\ HandlerJobOK(p) /\ WorkOK(s)
      /\ PairOK(s) /\ Boss(s) # Runtime(s) /\ Runtime(s) \in Processes
      /\ Own(p) \in Sessions
  BY SafeAt, IInvAt, BossFacts, CliRuntimeFacts, KindFacts DEF HistoryInv, LInv
<1>2. record[s] \in SessionRecords /\ Shape(record[s])
  BY <1>1 DEF SafeProcess, NamedOK, CurSteps, TxSteps, DiskTypes, HistoryInv
<1>3. /\ snap[p] \in SessionRecords /\ snap[p].state = job[p].to
      /\ job[p].to \in States /\ job[p].why \in Failures \cup {None}
  BY <1>1 DEF ProcessOK, JobOK, Jobs, TxSteps
<1>4. Reconciling(p) \/ Abandoning(p) \/ Supervising(p) \/ Running(p)
  BY <1>1 DEF SafeProcess, KnownJob, TxSteps
<1>5. p = Runtime(s) \/ job[p].to \in {"failed", "abandoned"}
  BY <1>4, KindFacts DEF Reconciling, Abandoning, Supervising, Running
<1>6. \/ snap[p] = record[s] /\ record[s].state # "running"
      \/ /\ snap[p] = ApplyTransition(record[s], job[p].to, job[p].why)
         /\ Ledger!Follows(record[s].state, job[p].to)
  <2>1. CASE Abandoning(p)
    <3>1. Fallen(s) /\ job[p].to = "abandoned"
      BY <1>1, <2>1 DEF SafeProcess, FallenOK, TxSteps, Abandoning
    <3>2. CASE Computed(p)
      <4>1. record[s].state = "failed"
        BY <3>1, <3>2 DEF Computed, Legal, Fallen
      <4> QED BY <3>1, <3>2, <4>1 DEF Computed, Ledger!Follows
    <3>3. CASE snap[p] = record[s]
      BY <3>1, <3>3 DEF Fallen
    <3> QED BY <1>1, <3>2, <3>3 DEF SafeProcess, WriteOK
  <2>2. CASE ~Abandoning(p)
    <3>1. Computed(p) /\ record[s].state \in Active
      BY <1>1, <2>2 DEF SafeProcess, WriteOK
    <3>2. job[p].to # "abandoned"
      BY <1>4, <2>2 DEF Reconciling, Supervising, Running
    <3>3. Ledger!Follows(record[s].state, job[p].to)
      BY <3>1, <3>2 DEF Computed, Legal, Ledger!Follows, Active, Terminal
    <3> QED BY <3>1, <3>3 DEF Computed
  <2> QED BY <2>1, <2>2
<1>7. ASSUME p # Runtime(s) PROVE ~Working(Runtime(s)) /\ ~Beginning(Runtime(s))
  <2>1. CASE Abandoning(p)
    <3>1. record[s].state # "running"
      BY <1>1, <2>1 DEF SafeProcess, FallenOK, TxSteps, Fallen
    <3> QED BY <1>1, <3>1 DEF WorkOK, Working
  <2>2. CASE ~Abandoning(p)
    <3>1. lease[s] = p
      BY <1>1, <1>4, <1>7, <2>2, KindFacts
        DEF SafeProcess, HoldOK, ReconcilerOK, Running, Supervising, TxSteps
    <3>2. PICK b \in Processes : b = Boss(s) /\ Own(b) = s /\ BossOK(b)
      BY <1>1, BossFacts DEF PairOK
    <3>3. ~RuntimeAlive(s)
      BY <3>1, <3>2 DEF BossOK, AliveSteps, SummarySteps
    <3> QED BY <3>3 DEF RuntimeAlive, RuntimeGone, Working, Beginning
  <2> QED BY <2>1, <2>2
<1> QED BY <1>2, <1>3, <1>5, <1>6, <1>7

\* What has been entered stays so.

\* What has been entered stays so.
LEMMA EntriesStay ==
  ASSUME NEW s \in Sessions, NEW r \in SessionRecords, NEW r2 \in SessionRecords,
         record[s] = r, record'[s] = r2, Shape(r),
         NEW to \in States, NEW why \in Failures \cup {None},
         r2 = ApplyTransition(r, to, why), Ledger!Follows(r.state, to),
         NEW t, Entered(s, t)
  PROVE  t.rev + 1 \in DOMAIN History(r2) /\ History(r2)[t.rev + 1] = t.state
<1>1. /\ r2.rev = r.rev + 1
      /\ \A i \in 1 .. r.rev + 1 : History(r2)[i] = History(r)[i]
  BY HistoryGrows
<1>2. DOMAIN History(r) = 1 .. r.rev + 1 /\ DOMAIN History(r2) = 1 .. r2.rev + 1
  BY HistoryFacts
<1>3. t.rev + 1 \in 1 .. r.rev + 1 /\ History(r)[t.rev + 1] = t.state /\ r.rev \in Nat
  BY <1>2 DEF Entered, SessionRecords
<1>4. t.rev + 1 \in 1 .. r2.rev + 1
  BY <1>1, <1>3
<1> QED BY <1>1, <1>2, <1>3, <1>4

LEMMA EnteredLast ==
  ASSUME NEW r \in SessionRecords
  PROVE  r.rev + 1 \in DOMAIN History(r) /\ History(r)[r.rev + 1] = r.state
<1>1. r.rev \in Nat
  BY DEF SessionRecords
<1> QED BY <1>1, HistoryFacts

\* A step that writes the record of s, and nothing but that of s.
LEMMA WrittenHistory ==
  ASSUME IInv, LInv, HistoryInv, NEW p \in Processes, LocalStep(p),
         UNCHANGED orphaned, NEW s \in Sessions, NEW r2 \in SessionRecords,
         record' = [record EXCEPT ![s] = r2],
         p[1] = "runtime" => s = Own(p),
         s \notin orphaned =>
           /\ Shape(r2) /\ WorkOK(s)'
           /\ \A t \in SessionRecords \cup {NoRecord} : Entered(s, t) => Entered(s, t)',
         EntryOK(p)', HandlerJobOK(p)'
  PROVE  HistoryInv'
<1>1. /\ record'[s] = r2 /\ \A t \in Sessions : t # s => record'[t] = record[t]
  BY DEF IInv, TypeOK
<1>2. ASSUME NEW t \in Sessions
      PROVE  /\ t \notin orphaned' => record'[t] = NoRecord \/ Shape(record'[t])
             /\ WorkOK(t)'
  <2>1. CASE t = s
    BY <1>1, <2>1 DEF WorkOK
  <2>2. CASE t # s
    <3>1. Runtime(t) \in Processes \ {p}
      BY <2>2, CliRuntimeFacts
    <3>2. /\ pc'[Runtime(t)] = pc[Runtime(t)] /\ job'[Runtime(t)] = job[Runtime(t)]
          /\ snap'[Runtime(t)] = snap[Runtime(t)]
      BY <3>1, OthersUnmoved
    <3> QED BY <1>1, <2>2, <3>2 DEF HistoryInv, WorkOK, Beginning
  <2> QED BY <2>1, <2>2
<1>3. ASSUME NEW q \in Processes PROVE EntryOK(q)' /\ HandlerJobOK(q)'
  <2>1. CASE q = p
    BY <2>1
  <2>2. CASE q # p
    <3>1. /\ pc'[q] = pc[q] /\ cur'[q] = cur[q] /\ snap'[q] = snap[q]
          /\ job'[q] = job[q] /\ fresh'[q] = fresh[q]
      BY <2>2, OthersUnmoved
    <3>2. /\ EntryOK(q) /\ HandlerJobOK(q) /\ LocalTypes(q)
          /\ pc[q] = "txSummary" => cur[q] \in Sessions
          /\ Own(q) \in Sessions
          /\ pc[q] \in {"createSummary", "rebuildWrite"} => Own(q) \notin orphaned
      BY HistoryAt, IInvAt, KindFacts, TellersOwn DEF ProcessOK, CurSteps, TxSteps
    <3>3. ASSUME NEW u \in Sessions, u \notin orphaned,
                 NEW t \in SessionRecords \cup {NoRecord}, Entered(u, t)
          PROVE  /\ t.rev + 1 \in DOMAIN History(record'[u])
                 /\ History(record'[u])[t.rev + 1] = t.state
      <4>1. CASE u = s
        BY <3>3, <4>1 DEF Entered
      <4>2. CASE u # s
        BY <1>1, <3>3, <4>2 DEF Entered
      <4> QED BY <4>1, <4>2
    <3>4. EntryOK(q)'
      BY <3>1, <3>2, <3>3 DEF EntryOK, Entered, LocalTypes
    <3> QED BY <3>1, <3>2, <3>4 DEF HandlerJobOK
  <2> QED BY <2>1, <2>2
<1>4. \A t \in Sessions :
        /\ t \notin orphaned' => record'[t] = NoRecord \/ Shape(record'[t])
        /\ WorkOK(t)'
  BY <1>2
<1>5. \A q \in Processes : EntryOK(q)' /\ HandlerJobOK(q)'
  BY <1>3
<1> QED BY <1>4, <1>5 DEF HistoryInv

LEMMA RenamesHistory ==
  ASSUME IInv, LInv, HistoryInv, NEW p \in Processes, Renames(p)
  PROVE  HistoryInv'
<1>1. PICK s \in Sessions : s = cur[p]
  BY IInvAt DEF Renames, ProcessOK, CurSteps, TxSteps
<1>2. /\ LocalStep(p) /\ UNCHANGED orphaned /\ pc[p] = "txWrite"
      /\ pc'[p] = "txSummary" /\ cur'[p] = s /\ snap'[p] = snap[p]
      /\ job'[p] = job[p]
  BY <1>1 DEF Renames, Goto, kept, LocalStep, IInv, TypeOK
<1>3. PICK r2 \in SessionRecords : r2 = snap[p]
  BY <1>2, IInvAt DEF ProcessOK
<1>4. record' = [record EXCEPT ![s] = r2] /\ record'[s] = r2
  BY <1>1, <1>3 DEF Renames, IInv, TypeOK
<1>5. Entered(s, r2)'
  BY <1>4, EnteredLast DEF Entered
<1>6. EntryOK(p)' /\ HandlerJobOK(p)'
  BY <1>2, <1>3, <1>5, HistoryAt DEF EntryOK, Entered, HandlerJobOK
<1>7. p[1] = "runtime" => s = Own(p)
  BY <1>1, <1>2, SafeAt
    DEF SafeProcess, KnownJob, TxSteps, Reconciling, Abandoning, Supervising, Running
<1>8. ASSUME s \notin orphaned
      PROVE  /\ Shape(r2) /\ WorkOK(s)'
             /\ \A t \in SessionRecords \cup {NoRecord} : Entered(s, t) => Entered(s, t)'
  <2>1. PICK r \in SessionRecords, to \in States, why \in Failures \cup {None} :
          /\ r = record[s] /\ to = job[p].to /\ why = job[p].why /\ Shape(r)
          /\ r2.state = to
          /\ \/ r2 = r /\ r.state # "running"
             \/ r2 = ApplyTransition(r, to, why) /\ Ledger!Follows(r.state, to)
          /\ p # Runtime(s) => ~Working(Runtime(s)) /\ ~Beginning(Runtime(s))
          /\ p = Runtime(s) \/ to \in {"failed", "abandoned"}
    BY <1>1, <1>2, <1>3, <1>8, RenameFollows
  <2>2. Shape(r2)
    BY <2>1, HistoryGrows
  <2>3. WorkOK(s)'
    <3>1. CASE p = Runtime(s)
      <4>1. HandlerJobOK(p) /\ p[1] = "runtime"
        BY <3>1, HistoryAt, CliRuntimeFacts
      <4>2. Beginning(p)' => to = "running"
        BY <1>2, <2>1, <4>1 DEF Beginning, HandlerJobOK
      <4> QED BY <1>2, <1>3, <1>4, <2>1, <3>1, <4>2 DEF WorkOK, Beginning
    <3>2. CASE p # Runtime(s)
      <4>1. pc'[Runtime(s)] = pc[Runtime(s)] /\ job'[Runtime(s)] = job[Runtime(s)]
        BY <1>2, <3>2, CliRuntimeFacts, OthersUnmoved
      <4> QED BY <2>1, <3>2, <4>1 DEF WorkOK, Working, Beginning
    <3> QED BY <3>1, <3>2
  <2>4. ASSUME NEW t \in SessionRecords \cup {NoRecord}, Entered(s, t)
        PROVE  Entered(s, t)'
    <3>1. CASE r2 = r
      BY <1>4, <2>1, <2>4, <3>1 DEF Entered
    <3>2. CASE r2 = ApplyTransition(r, to, why) /\ Ledger!Follows(r.state, to)
      <4>1. t.rev + 1 \in DOMAIN History(r2) /\ History(r2)[t.rev + 1] = t.state
        BY <1>4, <2>1, <2>4, <3>2, EntriesStay
      <4> QED BY <1>4, <4>1 DEF Entered
    <3> QED BY <2>1, <3>1, <3>2
  <2> QED BY <2>2, <2>3, <2>4
<1> QED BY <1>2, <1>4, <1>6, <1>7, <1>8, WrittenHistory

LEMMA CreatesHistory ==
  ASSUME IInv, LInv, HistoryInv, NEW p \in Processes, Creates(p)
  PROVE  HistoryInv'
<1>1. PICK s \in Sessions : s = Own(p)
  BY KindFacts
<1>2. /\ s \notin orphaned /\ record[s] = NoRecord /\ p[1] # "runtime"
  BY <1>1, TellersOwn DEF Creates
<1>3. /\ LocalStep(p) /\ UNCHANGED orphaned
      /\ pc'[p] = "createSummary" /\ snap'[p] = NewPrepared
  BY DEF Creates, Goto, kept, LocalStep, IInv, TypeOK
<1>4. PICK r2 \in SessionRecords : r2 = NewPrepared
  BY RecordFacts
<1>5. record' = [record EXCEPT ![s] = r2] /\ record'[s] = r2
  BY <1>1, <1>4 DEF Creates, IInv, TypeOK
<1>6. EntryOK(p)' /\ HandlerJobOK(p)'
  BY <1>1, <1>2, <1>3, <1>4, <1>5, EnteredLast DEF EntryOK, Entered, HandlerJobOK
<1>7. WorkOK(s)'
  <2>1. Runtime(s) \in Processes \ {p} /\ Runtime(s)[1] = "runtime" /\ Own(Runtime(s)) = s
    BY <1>2, CliRuntimeFacts
  <2>2. pc[Runtime(s)] = "off"
    BY <1>2, <2>1, SafeAt DEF SafeProcess, NamedOK
  <2>3. pc'[Runtime(s)] = "off"
    BY <1>3, <2>1, <2>2, OthersUnmoved
  <2> QED BY <2>3 DEF WorkOK, Beginning
<1>8. \A t \in SessionRecords \cup {NoRecord} : ~Entered(s, t)
  BY <1>2, HistoryBegins DEF Entered
<1>9. Shape(r2)
  BY <1>4, HistoryBegins
<1> QED BY <1>2, <1>3, <1>5, <1>6, <1>7, <1>8, <1>9, WrittenHistory

\* The steps that write a summary, or that two processes take, or that end p.
LEMMA SummaryHistory ==
  ASSUME IInv, LInv, HistoryInv, NEW p \in Processes,
         Tells(p) \/ Announces(p) \/ Rebuilds(p)
  PROVE  HistoryInv'
<1>1. LocalStep(p) /\ UNCHANGED <<record, orphaned>>
  BY DEF Tells, Announces, Rebuilds, Goto, Return, kept, LocalStep, IInv, TypeOK
<1>2. Steady(p)
  <2>1. CASE Tells(p)
    <3>1. /\ pc[p] = "txSummary" /\ pc'[p] = job[p].done
          /\ job[p].done \in {"reconcileDrop", "abandoned", "summary", "handler",
                              "errExit", "exit0", "exitN"}
      BY <2>1, IInvAt DEF Tells, Return, Goto, IInv, TypeOK, ProcessOK, JobOK, TxSteps
    <3> QED
      BY <3>1 DEF Steady, Working, Beginning, HandlerJobOK
  <2>2. CASE Announces(p) \/ Rebuilds(p)
    <3>1. pc'[p] \in {"acquire", "revalidate"}
      BY <2>2 DEF Announces, Rebuilds, Goto, IInv, TypeOK
    <3>2. p[1] # "runtime"
      BY <2>2, TellersOwn DEF Announces, Rebuilds
    <3> QED BY <3>1, <3>2 DEF Steady
  <2> QED BY <2>1, <2>2
<1>3. \A q \in Processes : Steady(q)
  BY <1>1, <1>2, OthersSteady
<1> QED BY <1>1, <1>3, SteadyHistory

LEMMA EndHistory ==
  ASSUME IInv, LInv, HistoryInv, NEW p \in Processes, p[1] \in {"cli", "host"},
         Exit(p) \/ Crash(p)
  PROVE  HistoryInv'
<1>1. LocalStep(p) /\ UNCHANGED record /\ orphaned \subseteq orphaned'
  BY DEF Exit, Crash, ClearLocals, Goto, store, LocalStep, IInv, TypeOK
<1>2. pc'[p] \in {"ok", "err", "crashed"}
  BY DEF Exit, Crash, Goto, IInv, TypeOK
<1>3. Steady(p)
  BY <1>2 DEF Steady
<1>4. \A q \in Processes : Steady(q)
  BY <1>1, <1>3, OthersSteady
<1> QED BY <1>1, <1>4, SteadyHistory

LEMMA PairHistory ==
  ASSUME IInv, LInv, HistoryInv, NEW p \in Processes, p[1] \in {"cli", "host"},
         Spawn(p) \/ WaitFails(p) \/ SpawnHost(p) \/ KillHost(p)
  PROVE  HistoryInv'
<1>1. UNCHANGED record /\ orphaned \subseteq orphaned'
  BY DEF Spawn, WaitFails, SpawnHost, KillHost, disk, store, kept
<1>2. ASSUME NEW q \in Processes PROVE Steady(q)
  <2>1. Own(p) \in Sessions /\ Runtime(Own(p)) # p /\ Host(Own(p))[1] = "host"
    BY KindFacts, CliRuntimeFacts, HostFacts
  <2>2. CASE Spawn(p)
    <3>1. \/ pc'[q] = pc[q] \/ pc'[q] \in {"wait", "bind"}
      BY <2>2 DEF Spawn, IInv, TypeOK
    <3> QED
      BY <2>2, <3>1 DEF Spawn, kept, Steady, Working, HandlerJobOK
  <2>3. CASE WaitFails(p)
    <3>1. \/ pc'[q] = pc[q] \/ pc'[q] \in {"recoverExit", "killed", "uncertain"}
      BY <2>3 DEF WaitFails, Goto, IInv, TypeOK
    <3> QED
      BY <2>3, <3>1 DEF WaitFails, kept, Steady, Working, HandlerJobOK
  <2>4. CASE SpawnHost(p)
    <3>1. CASE q = p
      BY <2>4, <3>1, KindFacts
        DEF SpawnHost, FailHandoff, Transition, Goto, kept, Steady, IInv, TypeOK
    <3>2. CASE q # p
      <4>1. \/ pc'[q] = pc[q] \/ pc'[q] = "hostStart"
        BY <2>4, <3>2 DEF SpawnHost, FailHandoff, Transition, Goto, IInv, TypeOK
      <4> QED
        BY <2>4, <3>2, <4>1
          DEF SpawnHost, FailHandoff, Transition, kept, Steady, Working,
              HandlerJobOK, IInv, TypeOK
    <3> QED BY <3>1, <3>2
  <2>5. CASE KillHost(p)
    <3>1. CASE q = Host(Own(p)) /\ q # p
      <4>1. q[1] # "runtime"
        BY <2>1, <3>1
      <4>2. pc'[q] = "crashed" \/ (pc'[q] = pc[q] /\ UNCHANGED <<cur, snap, job, kept>>)
        BY <2>5, <3>1 DEF KillHost, Goto, IInv, TypeOK
      <4> QED
        BY <4>1, <4>2 DEF kept, Steady
    <3>2. CASE q # Host(Own(p)) \/ q = p
      <4>1. /\ q # p => pc'[q] = pc[q]
            /\ q = p => pc'[q] \in {"abort", "crashed"}
        BY <2>5, <3>2 DEF KillHost, Goto, IInv, TypeOK
      <4>2. q # p => /\ cur'[q] = cur[q] /\ snap'[q] = snap[q]
                     /\ job'[q] = job[q] /\ fresh'[q] = fresh[q]
        BY <2>5, <3>2 DEF KillHost, kept, IInv, TypeOK
      <4> QED
        BY <4>1, <4>2 DEF Steady
    <3> QED BY <3>1, <3>2
  <2> QED BY <2>2, <2>3, <2>4, <2>5
<1>3. \A q \in Processes : Steady(q)
  BY <1>2
<1> QED BY <1>1, <1>3, SteadyHistory

-----------------------------------------------------------------------------
(* The steps of the ledger.                                                *)

\* What the ledger shows.
Entries ==
  [s \in Sessions |-> IF s \in orphaned THEN <<"lost">> ELSE History(record[s])]
Heard ==
  IF summary = NoSummary
  THEN [session |-> "none", entry |-> 0, state |-> "none"]
  ELSE IF summary.session \in orphaned
  THEN [session |-> summary.session, entry |-> 1, state |-> "lost"]
  ELSE [session |-> summary.session, entry |-> summary.rev + 1,
        state |-> summary.state]
Handlers == [s \in Sessions |-> HandlerOf(s)]
Confirmed == {s \in Sessions : pc[Supervisor(s)] = "ok"}

LedgerStep == [Ledger!Next]_<<Entries, Heard, Handlers, Confirmed>>

\* A handler that changes its standing is over.
HandlersEnd(s) ==
  /\ HandlerOf(s)' \in {HandlerOf(s), "over"}
  /\ \A t \in Sessions \ {s} : HandlerOf(t)' = HandlerOf(t)

HandlersStay == \A t \in Sessions : HandlerOf(t)' = HandlerOf(t)

LEMMA FinishStep ==
  ASSUME NEW s \in Sessions, UNCHANGED <<record, summary, orphaned>>,
         Confirmed' = Confirmed, HandlersEnd(s)
  PROVE  LedgerStep
<1>1. Entries' = Entries /\ Heard' = Heard
  BY DEF Entries, Heard
<1>2. CASE HandlerOf(s)' = HandlerOf(s)
  <2>1. Handlers' = Handlers
    BY <1>2 DEF HandlersEnd, Handlers
  <2> QED BY <1>1, <2>1 DEF LedgerStep
<1>3. CASE HandlerOf(s)' = "over"
  <2>1. Handlers' = [Handlers EXCEPT ![s] = "over"]
    BY <1>3 DEF HandlersEnd, Handlers
  <2>2. Ledger!Finish(s)
    BY <1>1, <2>1 DEF Ledger!Finish, Entries, Heard, Handlers, Confirmed
  <2> QED BY <2>2 DEF LedgerStep, Ledger!Next
<1> QED BY <1>2, <1>3 DEF HandlersEnd

LEMMA OpenStep ==
  ASSUME NEW s \in Sessions, s \notin orphaned, record[s] = NoRecord,
         record' = [record EXCEPT ![s] = NewPrepared],
         record \in [Sessions -> SessionRecords \cup {NoRecord}],
         UNCHANGED <<summary, orphaned>>, Confirmed' = Confirmed, HandlersStay
  PROVE  LedgerStep
<1>1. Heard' = Heard /\ Handlers' = Handlers
  BY DEF Heard, Handlers, HandlersStay
<1>2. Entries[s] = <<>>
  BY HistoryBegins DEF Entries
<1>3. Entries' = [Entries EXCEPT ![s] = <<"prepared">>]
  BY HistoryBegins DEF Entries
<1>4. Ledger!Open(s)
  BY <1>1, <1>2, <1>3 DEF Ledger!Open, Entries, Heard, Handlers, Confirmed
<1> QED BY <1>4 DEF LedgerStep, Ledger!Next

LEMMA LastEntry ==
  ASSUME NEW s \in Sessions, s \notin orphaned, record[s] \in SessionRecords
  PROVE  /\ Entries[s] # <<>> /\ Ledger!Last(s) = record[s].state
         /\ Len(Entries[s]) = record[s].rev + 1
<1>1. PICK r \in SessionRecords : r = record[s]
  OBVIOUS
<1>2. Entries[s] = History(r)
  BY <1>1 DEF Entries
<1>3. Ledger!Last(s) = Entries[s][Len(Entries[s])]
  BY DEF Ledger!Last, Entries
<1> QED BY <1>1, <1>2, <1>3, HistoryFacts

LEMMA MoveStep ==
  ASSUME NEW s \in Sessions, s \notin orphaned,
         record \in [Sessions -> SessionRecords \cup {NoRecord}],
         NEW r \in SessionRecords, NEW r2 \in SessionRecords,
         r = record[s], Shape(r), record' = [record EXCEPT ![s] = r2],
         NEW to \in States, NEW why \in Failures \cup {None},
         r2 = ApplyTransition(r, to, why), Ledger!Follows(r.state, to),
         HandlerOf(s) # "working",
         to = "running" => HandlerOf(s) = "waiting",
         to = "succeeded" => HandlerOf(s) = "over",
         UNCHANGED <<summary, orphaned>>, Confirmed' = Confirmed, HandlersStay
  PROVE  LedgerStep
<1>1. Heard' = Heard /\ Handlers' = Handlers
  BY DEF Heard, Handlers, HandlersStay
<1>2. Entries[s] # <<>> /\ Ledger!Last(s) = r.state
  BY LastEntry
<1>3. Entries' = [Entries EXCEPT ![s] = Append(@, to)]
  <2>1. History(r2) = Append(History(r), to)
    BY HistoryGrows
  <2> QED BY <2>1 DEF Entries
<1>4. Ledger!InTime(s, to)
  BY DEF Ledger!InTime, Handlers
<1>5. Ledger!Move(s, to)
  BY <1>1, <1>2, <1>3, <1>4
    DEF Ledger!Move, Ledger!Last, Ledger!Follows, Entries, Heard, Handlers, Confirmed
<1>6. to \in {"running", "succeeded", "failed", "abandoned"}
  BY DEF Ledger!Follows
<1> QED BY <1>5, <1>6 DEF LedgerStep, Ledger!Next

\* The summary of s is written from r, which has been its record.
Said(s, r) == summary' = SummaryOf(s, r)

LEMMA HeardNow ==
  ASSUME NEW s \in Sessions, NEW r, Said(s, r), UNCHANGED <<record, orphaned>>
  PROVE  Heard' = IF s \in orphaned
                  THEN [session |-> s, entry |-> 1, state |-> "lost"]
                  ELSE [session |-> s, entry |-> r.rev + 1, state |-> r.state]
<1>1. summary' # NoSummary
  BY StoreAssumption DEF Said, SummaryOf, NoSummary
<1>2. summary'.session = s /\ summary'.rev = r.rev /\ summary'.state = r.state
  BY DEF Said, SummaryOf
<1> QED BY <1>1, <1>2 DEF Heard

LEMMA TellStep ==
  ASSUME NEW s \in Sessions, NEW r, Said(s, r), UNCHANGED <<record, orphaned>>,
         s \notin orphaned => Entered(s, r),
         Confirmed' = Confirmed, HandlersStay
  PROVE  LedgerStep
<1>1. Entries' = Entries /\ Handlers' = Handlers
  BY DEF Entries, Handlers, HandlersStay
<1> DEFINE i == IF s \in orphaned THEN 1 ELSE r.rev + 1
<1>2. i \in DOMAIN Entries[s]
  BY DEF Entries, Entered
<1>3. Heard' = [session |-> s, entry |-> i, state |-> Entries[s][i]]
  BY HeardNow DEF Entries, Entered
<1> HIDE DEF i
<1>4. CASE Heard' = Heard
  BY <1>1, <1>4 DEF LedgerStep
<1>5. CASE Heard' # Heard
  <2>1. Ledger!Tell(s, i)
    BY <1>1, <1>2, <1>3, <1>5
      DEF Ledger!Tell, Ledger!Telling, Entries, Heard, Handlers, Confirmed
  <2> QED BY <1>2, <2>1 DEF LedgerStep, Ledger!Next, Entries
<1> QED BY <1>4, <1>5

LEMMA BeginStep ==
  ASSUME NEW s \in Sessions, s \notin orphaned, record[s] \in SessionRecords,
         record[s].state = "running", Said(s, record[s]),
         UNCHANGED <<record, orphaned>>, Confirmed' = Confirmed,
         HandlerOf(s) = "waiting", HandlerOf(s)' = "working",
         \A t \in Sessions \ {s} : HandlerOf(t)' = HandlerOf(t)
  PROVE  LedgerStep
<1>1. Entries' = Entries /\ Handlers' = [Handlers EXCEPT ![s] = "working"]
  BY DEF Entries, Handlers
<1>2. /\ Entries[s] # <<>> /\ Ledger!Last(s) = "running"
      /\ Len(Entries[s]) = record[s].rev + 1
  BY LastEntry
<1>3. Ledger!Last(s) = Entries[s][Len(Entries[s])]
  BY DEF Ledger!Last, Entries
<1>4. Heard' = [session |-> s, entry |-> Len(Entries[s]), state |-> Entries[s][Len(Entries[s])]]
  BY <1>2, <1>3, HeardNow
<1>5. Handlers[s] = "waiting"
  BY DEF Handlers
<1>6. Ledger!Begin(s)
  BY <1>1, <1>2, <1>4, <1>5
    DEF Ledger!Begin, Ledger!Last, Ledger!Telling, Entries, Heard, Handlers, Confirmed
<1> QED BY <1>6 DEF LedgerStep, Ledger!Next

LEMMA ConfirmStep ==
  ASSUME NEW s \in Sessions, s \notin orphaned, record[s] \in SessionRecords,
         record[s].state = "succeeded", UNCHANGED <<record, summary, orphaned>>,
         Confirmed' = Confirmed \cup {s}, HandlersStay
  PROVE  LedgerStep
<1>1. Entries' = Entries /\ Heard' = Heard /\ Handlers' = Handlers
  BY DEF Entries, Heard, Handlers, HandlersStay
<1>2. Entries[s] # <<>> /\ Ledger!Last(s) = "succeeded"
  BY LastEntry
<1>3. Ledger!Confirm(s)
  BY <1>1, <1>2
    DEF Ledger!Confirm, Ledger!Last, Entries, Heard, Handlers, Confirmed
<1> QED BY <1>3 DEF LedgerStep, Ledger!Next

LEMMA DisownStep ==
  ASSUME NEW s \in Sessions, s \notin orphaned, record[s] \in SessionRecords,
         orphaned' = orphaned \cup {s}, UNCHANGED <<record, summary>>,
         s \notin Confirmed, Confirmed' = Confirmed,
         \A t \in Sessions \ {s} : HandlerOf(t)' = HandlerOf(t)
  PROVE  LedgerStep
<1>1. Entries' = [Entries EXCEPT ![s] = Ledger!Lost]
  BY DEF Entries, Ledger!Lost
<1>2. Entries[s] # <<>>
  BY LastEntry
<1>3. HandlerOf(s)' = "over"
  BY DEF HandlerOf
<1>4. Handlers' = [Handlers EXCEPT ![s] = "over"]
  BY <1>3 DEF Handlers
<1>5. Heard' = IF Heard.session = s
               THEN [session |-> s, entry |-> 1, state |-> "lost"] ELSE Heard
  <2>1. CASE summary = NoSummary
    BY <2>1, StoreAssumption DEF Heard, None
  <2>2. CASE summary # NoSummary
    BY <2>2 DEF Heard
  <2> QED BY <2>1, <2>2
<1>6. Ledger!Disown(s)
  BY <1>1, <1>2, <1>4, <1>5
    DEF Ledger!Disown, Entries, Heard, Handlers, Confirmed
<1> QED BY <1>6 DEF LedgerStep, Ledger!Next

-----------------------------------------------------------------------------
(* Every step is one of the ledger's, or none.                             *)

LEMMA HandlerIs ==
  ASSUME NEW s \in Sessions
  PROVE  HandlerOf(s) = IF s \in orphaned THEN "over"
                        ELSE IF Working(Runtime(s)) THEN "working"
                        ELSE IF Waiting(Runtime(s)) THEN "waiting" ELSE "over"
BY DEF HandlerOf, Working, Waiting, TxSteps

LEMMA HandlerStays ==
  ASSUME NEW s \in Sessions, pc'[Runtime(s)] = pc[Runtime(s)],
         job'[Runtime(s)] = job[Runtime(s)], s \in orphaned' <=> s \in orphaned
  PROVE  HandlerOf(s)' = HandlerOf(s)
BY DEF HandlerOf

\* The handlers of other sessions, and its own unless p is a runtime.
LEMMA OtherHandlers ==
  ASSUME IInv, NEW p \in Processes, LocalStep(p), OrphansGrow(p)
  PROVE  /\ \A t \in Sessions \ {Own(p)} : HandlerOf(t)' = HandlerOf(t)
         /\ p[1] # "runtime" /\ UNCHANGED orphaned => HandlersStay
<1>1. ASSUME NEW t \in Sessions, Runtime(t) # p, t \in orphaned' <=> t \in orphaned
      PROVE  HandlerOf(t)' = HandlerOf(t)
  BY <1>1, CliRuntimeFacts, OthersUnmoved, HandlerStays
<1>2. \A t \in Sessions \ {Own(p)} :
        Runtime(t) # p /\ (t \in orphaned' <=> t \in orphaned)
  BY CliRuntimeFacts DEF OrphansGrow
<1>3. p[1] # "runtime" => \A t \in Sessions : Runtime(t) # p
  BY CliRuntimeFacts
<1> QED BY <1>1, <1>2, <1>3 DEF HandlersStay

LEMMA SupervisorFacts ==
  ASSUME NEW s \in Sessions
  PROVE  /\ Supervisor(s) \in Processes /\ Own(Supervisor(s)) = s
         /\ Supervisor(s)[1] # "runtime"
BY CliRuntimeFacts, HostFacts DEF Supervisor

\* A step of p that does not end it well confirms nothing.
LEMMA NothingConfirmed ==
  ASSUME IInv, NEW p \in Processes, LocalStep(p), pc[p] # "ok", pc'[p] # "ok"
  PROVE  Confirmed' = Confirmed
<1>1. ASSUME NEW s \in Sessions
      PROVE  pc'[Supervisor(s)] = "ok" <=> pc[Supervisor(s)] = "ok"
  BY SupervisorFacts, OthersUnmoved
<1> QED BY <1>1 DEF Confirmed

LEMMA QuietLedger ==
  ASSUME IInv, NEW p \in Processes, Quiet(p)
  PROVE  LedgerStep
<1>1. Own(p) \in Sessions /\ (p[1] = "runtime" => p = Runtime(Own(p))) /\ LocalStep(p)
  BY KindFacts DEF Quiet
<1>2. Confirmed' = Confirmed
  BY NothingConfirmed DEF Quiet
<1>3. HandlersEnd(Own(p))
  <2>1. OrphansGrow(p)
    BY DEF Quiet, OrphansGrow
  <2>2. CASE p[1] # "runtime"
    BY <1>1, <2>1, <2>2, OtherHandlers DEF Quiet, HandlersEnd, HandlersStay
  <2>3. CASE p[1] = "runtime"
    <3>1. HandlerOf(Own(p))' \in {HandlerOf(Own(p)), "over"}
      <4> PICK s \in Sessions : s = Own(p) /\ p = Runtime(s)
        BY <1>1, <2>3
      <4>1. /\ Working(p)' => Working(p)
            /\ Waiting(p)' => Waiting(p)
            /\ UNCHANGED orphaned
        BY <2>3 DEF Quiet
      <4>2. ~(Working(p) /\ Waiting(p))
        BY DEF Working, Waiting, TxSteps
      <4>3. HandlerOf(s)' = IF s \in orphaned' THEN "over"
                        ELSE IF Working(p)' THEN "working"
                        ELSE IF Waiting(p)' THEN "waiting" ELSE "over"
        BY DEF HandlerOf, Working, Waiting, TxSteps
      <4> QED BY <4>1, <4>2, <4>3, HandlerIs
    <3> QED BY <1>1, <2>1, <3>1, OtherHandlers DEF HandlersEnd
  <2> QED BY <2>2, <2>3
<1> QED BY <1>1, <1>2, <1>3, FinishStep DEF Quiet

LEMMA RenamesLedger ==
  ASSUME IInv, LInv, HistoryInv, NEW p \in Processes, Renames(p)
  PROVE  LedgerStep
<1>1. PICK s \in Sessions : s = cur[p]
  BY IInvAt DEF Renames, ProcessOK, CurSteps, TxSteps
<1>2. /\ LocalStep(p) /\ UNCHANGED <<summary, orphaned>> /\ pc[p] = "txWrite"
      /\ pc'[p] = "txSummary" /\ job'[p] = job[p]
      /\ record' = [record EXCEPT ![s] = snap[p]]
      /\ record \in [Sessions -> SessionRecords \cup {NoRecord}]
  BY <1>1 DEF Renames, Goto, kept, LocalStep, IInv, TypeOK
<1>3. Confirmed' = Confirmed
  BY <1>2, NothingConfirmed
<1>4. HandlersStay
  <2>1. ASSUME NEW t \in Sessions PROVE HandlerOf(t)' = HandlerOf(t)
    <3>1. job'[Runtime(t)] = job[Runtime(t)]
      BY <1>2, CliRuntimeFacts, OthersUnmoved
    <3>2. \/ pc'[Runtime(t)] = pc[Runtime(t)]
          \/ /\ pc[Runtime(t)] = "txWrite"
             /\ pc'[Runtime(t)] = "txSummary"
      BY <1>2, CliRuntimeFacts, OthersUnmoved
    <3> QED BY <1>2, <3>1, <3>2 DEF HandlerOf
  <2> QED BY <2>1 DEF HandlersStay
<1>5. CASE s \in orphaned
  <2>1. Entries' = Entries /\ Heard' = Heard /\ Handlers' = Handlers
    BY <1>2, <1>4, <1>5 DEF Entries, Heard, Handlers, HandlersStay
  <2> QED BY <1>3, <2>1 DEF LedgerStep
<1>6. CASE s \notin orphaned
  <2>1. PICK r \in SessionRecords, r2 \in SessionRecords,
             to \in States, why \in Failures \cup {None} :
          /\ r = record[s] /\ r2 = snap[p] /\ Shape(r)
          /\ to = job[p].to
          /\ \/ r2 = r
             \/ r2 = ApplyTransition(r, to, why) /\ Ledger!Follows(r.state, to)
          /\ p # Runtime(s) => ~Working(Runtime(s)) /\ ~Beginning(Runtime(s))
          /\ p = Runtime(s) \/ to \in {"failed", "abandoned"}
    BY <1>1, <1>2, <1>6, RenameFollows
  <2>2. CASE r2 = r
    <3>1. record' = record
      BY <1>2, <2>1, <2>2
    <3>2. Entries' = Entries /\ Heard' = Heard /\ Handlers' = Handlers
      BY <1>2, <1>4, <3>1 DEF Entries, Heard, Handlers, HandlersStay
    <3> QED BY <1>3, <3>2 DEF LedgerStep
  <2>3. CASE r2 = ApplyTransition(r, to, why) /\ Ledger!Follows(r.state, to)
    <3>1. HandlerOf(s) # "working"
      BY <1>2, <2>1, HandlerIs DEF Working
    <3>2. ASSUME p = Runtime(s)
          PROVE  /\ to = "running" => HandlerOf(s) = "waiting"
                 /\ to = "succeeded" => HandlerOf(s) = "over"
      <4>1. HandlerJobOK(p) /\ p[1] = "runtime" /\ SafeProcess(p)
        BY <3>2, HistoryAt, SafeAt, CliRuntimeFacts
      <4>2. /\ job[p].done = "handler" <=> to = "running"
            /\ to = "succeeded" => job[p].done = "exit0"
        BY <1>2, <2>1, <4>1
          DEF HandlerJobOK, SafeProcess, KnownJob, TxSteps, Reconciling, Abandoning,
              Supervising, Running
      <4> QED
        BY <1>2, <1>6, <3>2, <4>2, HandlerIs DEF Working, Waiting, TxSteps
    <3> QED
      BY <1>2, <1>3, <1>4, <1>6, <2>1, <2>3, <3>1, <3>2, MoveStep
  <2> QED BY <2>1, <2>2, <2>3
<1> QED BY <1>5, <1>6

LEMMA TellsLedger ==
  ASSUME IInv, LInv, HistoryInv, NEW p \in Processes, Tells(p)
  PROVE  LedgerStep
<1>1. PICK s \in Sessions : s = cur[p]
  BY IInvAt DEF Tells, ProcessOK, CurSteps, TxSteps
<1>2. /\ LocalStep(p) /\ UNCHANGED <<record, orphaned>> /\ pc[p] = "txSummary"
      /\ pc'[p] = job[p].done /\ Said(s, snap[p])
  BY <1>1 DEF Tells, Return, Goto, kept, LocalStep, Said, IInv, TypeOK
<1>3. /\ ProcessOK(p) /\ SafeProcess(p) /\ EntryOK(p) /\ DiskTypes /\ WorkOK(s)
      /\ Own(p) \in Sessions
  BY IInvAt, SafeAt, HistoryAt, KindFacts DEF HistoryInv
<1>4. job[p].done \in {"reconcileDrop", "abandoned", "summary", "handler",
                       "errExit", "exit0", "exitN"}
  BY <1>2, <1>3 DEF ProcessOK, JobOK, TxSteps
<1>5. Confirmed' = Confirmed
  BY <1>2, <1>4, NothingConfirmed
<1>6. s \notin orphaned => Entered(s, snap[p])
  BY <1>1, <1>2, <1>3 DEF EntryOK
<1>7. OrphansGrow(p)
  BY <1>2 DEF OrphansGrow
<1>8. CASE p[1] # "runtime"
  BY <1>2, <1>5, <1>6, <1>7, <1>8, OtherHandlers, TellStep
<1>9. CASE p[1] = "runtime"
  <2>1. s = Own(p) /\ p = Runtime(s)
    BY <1>1, <1>2, <1>3, <1>9, KindFacts
      DEF SafeProcess, KnownJob, TxSteps, Reconciling, Abandoning, Supervising, Running
  <2>2. job[p].done \in {"handler", "exit0", "exitN"}
    BY <1>2, <1>3, <1>9
      DEF SafeProcess, KnownJob, TxSteps, Reconciling, Abandoning, Supervising, Running
  <2>3. \A t \in Sessions \ {s} : HandlerOf(t)' = HandlerOf(t)
    BY <1>2, <1>7, <2>1, OtherHandlers
  <2>4. CASE s \notin orphaned /\ job[p].done = "handler"
    <3>1. record[s].state = "running" /\ snap[p] = record[s]
      BY <1>2, <1>3, <2>1, <2>4 DEF WorkOK, Beginning
    <3>2. record[s] \in SessionRecords
      BY <1>2, <1>3, <3>1 DEF ProcessOK
    <3>3. HandlerOf(s) = "waiting" /\ HandlerOf(s)' = "working"
      BY <1>2, <2>1, <2>4 DEF HandlerOf
    <3> QED BY <1>2, <1>5, <2>3, <2>4, <3>1, <3>2, <3>3, BeginStep
  <2>5. CASE s \in orphaned \/ job[p].done \in {"exit0", "exitN"}
    <3>1. HandlerOf(s)' = HandlerOf(s)
      BY <1>2, <2>1, <2>5 DEF HandlerOf
    <3>2. HandlersStay
      BY <2>3, <3>1 DEF HandlersStay
    <3> QED BY <1>2, <1>5, <1>6, <3>2, TellStep
  <2> QED BY <2>2, <2>4, <2>5
<1> QED BY <1>8, <1>9

LEMMA OwnLedger ==
  ASSUME IInv, LInv, HistoryInv, NEW p \in Processes,
         Creates(p) \/ Announces(p) \/ Rebuilds(p)
  PROVE  LedgerStep
<1>1. PICK s \in Sessions : s = Own(p)
  BY KindFacts
<1>2. /\ pc[p] \in {"create", "createSummary", "rebuildWrite"} /\ LocalStep(p)
      /\ pc'[p] \in {"createSummary", "acquire", "revalidate"} /\ UNCHANGED orphaned
  BY DEF Creates, Announces, Rebuilds, Goto, kept, LocalStep, IInv, TypeOK
<1>3. /\ s \notin orphaned /\ p[1] # "runtime" /\ EntryOK(p)
      /\ pc[p] = "create" => record[s] = NoRecord
  BY <1>1, <1>2, TellersOwn, HistoryAt
<1>4. Confirmed' = Confirmed /\ OrphansGrow(p)
  BY <1>2, NothingConfirmed DEF OrphansGrow
<1>5. HandlersStay
  BY <1>2, <1>3, <1>4, OtherHandlers
<1>6. CASE Creates(p)
  BY <1>1, <1>3, <1>4, <1>5, <1>6, OpenStep DEF Creates, kept, IInv, TypeOK
<1>7. CASE Announces(p)
  <2>1. Said(s, snap[p]) /\ UNCHANGED <<record, orphaned>> /\ Entered(s, snap[p])
    BY <1>1, <1>3, <1>7 DEF Announces, Said, EntryOK, kept
  <2> QED BY <1>4, <1>5, <2>1, TellStep
<1>8. CASE Rebuilds(p)
  <2>1. Said(s, fresh[p]) /\ UNCHANGED <<record, orphaned>> /\ Entered(s, fresh[p])
    BY <1>1, <1>3, <1>8 DEF Rebuilds, Said, EntryOK
  <2> QED BY <1>4, <1>5, <2>1, TellStep
<1> QED BY <1>6, <1>7, <1>8

\* A supervisor that has started, or whose runtime has, is the one responsible.
LEMMA SupervisorIsBoss ==
  ASSUME HostsFirst, NEW s \in Sessions,
         pc[Runtime(s)] # "off" \/ pc[Supervisor(s)] # "off"
  PROVE  Supervisor(s) = Boss(s)
BY DEF HostsFirst, Supervisor, Boss

LEMMA ConfirmedStays ==
  ASSUME \A q \in Processes : q[1] # "runtime" => (pc'[q] = "ok" <=> pc[q] = "ok")
  PROVE  Confirmed' = Confirmed
BY SupervisorFacts DEF Confirmed

LEMMA StutterLedger ==
  ASSUME UNCHANGED <<record, summary, orphaned>>, Confirmed' = Confirmed, HandlersStay
  PROVE  LedgerStep
<1>1. Entries' = Entries /\ Heard' = Heard /\ Handlers' = Handlers
  BY DEF Entries, Heard, Handlers, HandlersStay
<1> QED BY <1>1 DEF LedgerStep

\* Who leaves an orphan is its supervisor, and has reported nothing.
LEMMA WhoOrphans ==
  ASSUME IInv, LInv, HostsFirst, NEW p \in Processes, p[1] \in {"cli", "host"},
         NEW s \in Sessions, s = Own(p), ~(Orphans(p) \subseteq orphaned)
  PROVE  /\ Orphans(p) = {s} /\ s \notin orphaned /\ record[s] \in SessionRecords
         /\ p = Supervisor(s) /\ pc[p] \in AliveSteps
<1>1. Orphans(p) = {s} /\ s \notin orphaned /\ RuntimeAlive(s) /\ lease[s] = p
  BY DEF Orphans
<1>2. BossOK(Boss(s)) /\ Own(Boss(s)) = s /\ Runtime(s) \in Processes
      /\ SafeProcess(Runtime(s)) /\ Own(Runtime(s)) = s /\ Runtime(s)[1] = "runtime"
  BY BossFacts, CliRuntimeFacts, SafeAt DEF LInv, PairOK
<1>3. p = Boss(s) /\ pc[p] \in AliveSteps
  BY <1>1, <1>2 DEF BossOK
<1>4. pc[Runtime(s)] # "off"
  BY <1>1 DEF RuntimeAlive, RuntimeGone
<1>5. record[s] # NoRecord
  BY <1>2, <1>4 DEF SafeProcess, NamedOK
<1>6. record[s] \in SessionRecords
  BY <1>5 DEF IInv, TypeOK
<1> QED BY <1>1, <1>3, <1>4, <1>6, SupervisorIsBoss

LEMMA EndLedger ==
  ASSUME IInv, LInv, HostsFirst, NEW p \in Processes, p[1] \in {"cli", "host"},
         Exit(p) \/ Crash(p)
  PROVE  LedgerStep
<1>1. PICK s \in Sessions : s = Own(p)
  BY KindFacts
<1>2. /\ LocalStep(p) /\ UNCHANGED <<record, summary>>
      /\ orphaned' = orphaned \cup Orphans(p) /\ p[1] # "runtime"
  BY DEF Exit, Crash, ClearLocals, Goto, store, LocalStep, IInv, TypeOK
<1>3. \/ pc[p] = "okExit" /\ pc'[p] = "ok"
      \/ pc[p] # "ok" /\ pc'[p] \in {"err", "crashed"}
  BY DEF Exit, Crash, Goto, Ended, IInv, TypeOK
<1>4. OrphansGrow(p)
  BY <1>2 DEF OrphansGrow, Orphans
<1>5. Orphans(p) \subseteq orphaned => UNCHANGED orphaned /\ HandlersStay
  BY <1>2, <1>4, OtherHandlers
<1>6. CASE ~(Orphans(p) \subseteq orphaned)
  <2>1. /\ Orphans(p) = {s} /\ s \notin orphaned /\ record[s] \in SessionRecords
        /\ p = Supervisor(s) /\ pc[p] \in AliveSteps
    BY <1>1, <1>6, WhoOrphans
  <2>2. pc[p] \notin {"ok", "okExit"}
    BY <2>1 DEF AliveSteps, SummarySteps
  <2>3. Confirmed' = Confirmed /\ s \notin Confirmed
    BY <1>2, <1>3, <2>1, <2>2, NothingConfirmed DEF Confirmed
  <2>4. \A t \in Sessions \ {s} : HandlerOf(t)' = HandlerOf(t)
    BY <1>1, <1>2, <1>4, OtherHandlers
  <2> QED BY <1>2, <2>1, <2>3, <2>4, DisownStep
<1>7. CASE Orphans(p) \subseteq orphaned /\ pc'[p] # "ok"
  <2>1. Confirmed' = Confirmed
    BY <1>2, <1>3, <1>7, NothingConfirmed
  <2> QED BY <1>2, <1>5, <1>7, <2>1, StutterLedger
<1>8. CASE Orphans(p) \subseteq orphaned /\ pc'[p] = "ok" /\ p # Supervisor(s)
  <2>1. ASSUME NEW t \in Sessions PROVE pc'[Supervisor(t)] = pc[Supervisor(t)]
    BY <1>1, <1>2, <1>8, SupervisorFacts, OthersUnmoved
  <2>2. Confirmed' = Confirmed
    BY <2>1 DEF Confirmed
  <2> QED BY <1>2, <1>5, <1>8, <2>2, StutterLedger
<1>9. CASE Orphans(p) \subseteq orphaned /\ pc'[p] = "ok" /\ p = Supervisor(s)
  <2>1. p = Boss(s) /\ pc[p] = "okExit"
    BY <1>3, <1>9, SupervisorIsBoss
  <2>2. BossOK(p)
    BY <2>1 DEF LInv, PairOK
  <2>3. s \notin orphaned /\ record[s].state = "succeeded"
    BY <1>1, <2>1, <2>2 DEF BossOK, Succeeded, Ended
  <2>4. record[s] \in SessionRecords
    <3>1. PICK r \in SessionRecords \cup {NoRecord} : r = record[s]
      BY DEF IInv, TypeOK
    <3>2. r.state # None
      BY <2>3, <3>1 DEF None
    <3> QED BY <3>1, <3>2, RecordFacts
  <2>5. Confirmed' = Confirmed \cup {s}
    <3>1. ASSUME NEW t \in Sessions \ {s}
          PROVE  pc'[Supervisor(t)] = pc[Supervisor(t)]
      BY <1>1, <1>2, SupervisorFacts, OthersUnmoved
    <3> QED BY <1>9, <3>1 DEF Confirmed
  <2> QED BY <1>2, <1>5, <1>9, <2>3, <2>4, <2>5, ConfirmStep
<1> QED BY <1>3, <1>6, <1>7, <1>8, <1>9

LEMMA PairLedger ==
  ASSUME IInv, LInv, HostsFirst, NEW p \in Processes, p[1] \in {"cli", "host"},
         \/ Spawn(p) \/ WaitFails(p)
         \/ p[1] = "cli" /\ (SpawnHost(p) \/ KillHost(p))
  PROVE  LedgerStep
<1>1. PICK s \in Sessions : s = Own(p)
  BY KindFacts
<1>2. /\ Runtime(s) \in Processes /\ Runtime(s) # p /\ p[1] # "runtime"
      /\ Host(s) \in Processes /\ Host(s)[1] = "host" /\ Runtime(s)[1] = "runtime"
      /\ pc \in [Processes -> Steps]
  BY CliRuntimeFacts, HostFacts DEF IInv, TypeOK
<1>3. CASE Spawn(p)
  <2>1. pc[p] = "launch" /\ UNCHANGED <<record, summary, orphaned, job>>
        /\ pc' = [pc EXCEPT ![p] = "wait", ![Runtime(s)] = "bind"]
    BY <1>1, <1>3 DEF Spawn, disk, kept
  <2>2. pc[Runtime(s)] = "off"
    BY <1>1, <2>1, LeadAt DEF BossSteps, WatchSteps, BossOK, Unstarted
  <2>3. ASSUME NEW t \in Sessions PROVE HandlerOf(t)' = HandlerOf(t)
    <3>1. \/ pc'[Runtime(t)] = pc[Runtime(t)]
          \/ pc[Runtime(t)] = "off" /\ pc'[Runtime(t)] = "bind"
      BY <1>2, <2>1, <2>2, CliRuntimeFacts
    <3> QED BY <2>1, <3>1 DEF HandlerOf
  <2>4. Confirmed' = Confirmed
    BY <1>2, <2>1, ConfirmedStays
  <2> QED BY <2>1, <2>3, <2>4, StutterLedger DEF HandlersStay
<1>4. CASE WaitFails(p)
  <2>1. /\ pc[p] = "wait" /\ UNCHANGED <<record, summary, orphaned, job>>
        /\ \/ \E x \in {"recoverExit", "uncertain"} : pc' = [pc EXCEPT ![p] = x]
           \/ pc' = [pc EXCEPT ![p] = "recoverExit", ![Runtime(s)] = "killed"]
    BY <1>1, <1>4 DEF WaitFails, store, kept, Goto
  <2>2. ASSUME NEW t \in Sessions
        PROVE  HandlerOf(t)' = HandlerOf(t) \/ (t = s /\ HandlerOf(t)' = "over")
    <3>1. \/ pc'[Runtime(t)] = pc[Runtime(t)]
          \/ t = s /\ pc'[Runtime(t)] = "killed"
      BY <1>2, <2>1, CliRuntimeFacts
    <3> QED BY <2>1, <3>1 DEF HandlerOf
  <2>3. Confirmed' = Confirmed
    BY <1>2, <2>1, ConfirmedStays
  <2>4. HandlersEnd(s)
    BY <2>2 DEF HandlersEnd
  <2> QED BY <2>1, <2>3, <2>4, FinishStep
<1>5. CASE p[1] = "cli" /\ SpawnHost(p)
  <2>1. pc[p] = "spawnHost" /\ UNCHANGED <<record, summary, orphaned>>
        /\ \A q \in Processes \ {p} : job'[q] = job[q]
    BY <1>2, <1>5 DEF SpawnHost, FailHandoff, Transition, disk, kept, IInv, TypeOK
  <2>2. pc[Host(s)] = "off"
    BY <1>1, <1>5, <2>1, LeadAt, KindFacts, HostFacts DEF Boss
  <2>3. \/ pc' = [pc EXCEPT ![p] = "poll", ![Host(s)] = "hostStart"]
        \/ pc' = [pc EXCEPT ![p] = "txLoad"]
    BY <1>1, <1>5 DEF SpawnHost, FailHandoff, Transition, Goto
  <2>4. \A q \in Processes \ {p, Host(s)} : pc'[q] = pc[q]
    BY <1>2, <2>3
  <2>5. \A q \in Processes : pc'[q] = "ok" <=> pc[q] = "ok"
    BY <1>2, <2>1, <2>2, <2>3
  <2>6. ASSUME NEW t \in Sessions PROVE HandlerOf(t)' = HandlerOf(t)
    <3>1. Runtime(t) \in Processes \ {p, Host(s)}
      BY <1>2, CliRuntimeFacts
    <3> QED BY <2>1, <2>4, <3>1, HandlerStays
  <2> QED BY <2>1, <2>5, <2>6, ConfirmedStays, StutterLedger DEF HandlersStay
<1>6. CASE p[1] = "cli" /\ KillHost(p)
  <2>1. /\ SafeProcess(p) /\ PairOK(s) /\ pc[p] = "killHost" /\ p = Cli(s)
        /\ Own(Host(s)) = s
    BY <1>1, <1>6, SafeAt, KindFacts, HostFacts DEF KillHost
  <2>2. pc[Runtime(s)] = "off"
    BY <2>1, <1>1, CliRuntimeFacts, HostFacts
      DEF PairOK, HandoffOK, Handing, HandSteps, LeftIt, BossOK, Boss, Unstarted
  <2>3. Orphans(Host(s)) = {}
    BY <2>1, <2>2 DEF Orphans, RuntimeAlive, RuntimeGone
  <2>4. UNCHANGED <<record, summary, orphaned>>
    BY <1>1, <1>6, <2>3 DEF KillHost, disk, store, kept
  <2>5. \A q \in Processes \ {Host(s)} : job'[q] = job[q]
    BY <1>1, <1>2, <1>6 DEF KillHost, IInv, TypeOK
  <2>6. \/ pc' = [pc EXCEPT ![p] = "abort"]
        \/ /\ pc[Host(s)] \notin Ended
           /\ pc' = [pc EXCEPT ![p] = "abort", ![Host(s)] = "crashed"]
    BY <1>1, <1>6 DEF KillHost, Goto, HostAlive
  <2>7. \A q \in Processes \ {p, Host(s)} : pc'[q] = pc[q]
    BY <1>2, <2>6
  <2>8. \A q \in Processes : pc'[q] = "ok" <=> pc[q] = "ok"
    BY <1>2, <2>1, <2>6 DEF Ended
  <2>9. ASSUME NEW t \in Sessions PROVE HandlerOf(t)' = HandlerOf(t)
    <3>1. Runtime(t) \in Processes \ {p, Host(s)}
      BY <1>2, CliRuntimeFacts
    <3> QED BY <2>4, <2>5, <2>7, <3>1, HandlerStays
  <2> QED BY <2>4, <2>8, <2>9, ConfirmedStays, StutterLedger DEF HandlersStay
<1> QED BY <1>3, <1>4, <1>5, <1>6

-----------------------------------------------------------------------------
(* The refinement.                                                         *)

LEMMA SharedStepTold ==
  ASSUME IInv, LInv, HistoryInv, NEW p \in Processes, SharedStep(p)
  PROVE  HistoryInv' /\ LedgerStep
BY StoreSteps, QuietHistory, RenamesHistory, SummaryHistory,
   QuietLedger, RenamesLedger, TellsLedger

LEMMA SelectionStepTold ==
  ASSUME IInv, LInv, HistoryInv, NEW p \in Processes, p[1] = "cli", SelectionStep(p)
  PROVE  HistoryInv' /\ LedgerStep
BY SelectionSteps, QuietHistory, CreatesHistory, SummaryHistory, QuietLedger, OwnLedger

LEMMA SuperviseStepTold ==
  ASSUME IInv, LInv, HostsFirst, HistoryInv, NEW p \in Processes,
         p[1] \in {"cli", "host"}, SuperviseStep(p) \/ Crash(p)
  PROVE  HistoryInv' /\ LedgerStep
BY SuperviseSteps, QuietHistory, SummaryHistory, PairHistory, EndHistory,
   QuietLedger, OwnLedger, PairLedger, EndLedger

LEMMA RuntimeStepTold ==
  ASSUME IInv, LInv, HistoryInv, NEW p \in Processes, p[1] = "runtime", RuntimeStep(p)
  PROVE  HistoryInv' /\ LedgerStep
BY RuntimeIsQuiet, QuietHistory, QuietLedger

LEMMA HandoffStepTold ==
  ASSUME IInv, LInv, HostsFirst, HistoryInv, NEW p \in Processes,
         \/ p[1] = "cli" /\ InitiatorStep(p)
         \/ p[1] = "host" /\ HostStep(p)
  PROVE  HistoryInv' /\ LedgerStep
BY InitiatorSteps, HostIsQuiet, QuietHistory, PairHistory, QuietLedger, PairLedger

LEMMA StutterTold ==
  ASSUME HistoryInv, UNCHANGED vars
  PROVE  HistoryInv' /\ LedgerStep
<1> USE DEF vars, disk, locals
<1>1. HistoryInv'
  BY DEF HistoryInv, EntryOK, Entered, HandlerJobOK, WorkOK, Beginning
<1>2. HandlersStay
  BY DEF HandlersStay, HandlerOf
<1>3. Confirmed' = Confirmed
  BY DEF Confirmed
<1> QED BY <1>1, <1>2, <1>3, StutterLedger

LEMMA BackgroundNextTold ==
  ASSUME IInv, LInv, HostsFirst, HistoryInv, [BackgroundNext]_allVars
  PROVE  HistoryInv' /\ LedgerStep
<1> USE BackgroundAssumption
<1>1. \A s \in Sessions :
        /\ {Cli(s), Host(s), Runtime(s)} \subseteq Processes
        /\ Cli(s)[1] = "cli" /\ Host(s)[1] = "host" /\ Runtime(s)[1] = "runtime"
  BY CliRuntimeFacts, HostFacts
<1>2. ASSUME NEW p \in Processes,
             \/ SharedStep(p)
             \/ p[1] = "cli" /\ SelectionStep(p)
             \/ p[1] \in {"cli", "host"} /\ (SuperviseStep(p) \/ Crash(p))
             \/ p[1] = "runtime" /\ RuntimeStep(p)
             \/ p[1] = "cli" /\ InitiatorStep(p)
             \/ p[1] = "host" /\ HostStep(p)
      PROVE  HistoryInv' /\ LedgerStep
  BY <1>2, SharedStepTold, SelectionStepTold, SuperviseStepTold, RuntimeStepTold,
     HandoffStepTold
<1>3. ASSUME NEW s \in Sessions \ Background, CliStep(s)
      PROVE  HistoryInv' /\ LedgerStep
  BY <1>1, <1>2, <1>3 DEF CliStep
<1>4. ASSUME NEW s \in Background,
             \/ SharedStep(Cli(s)) \/ SelectionStep(Cli(s)) \/ Exit(Cli(s))
             \/ Crash(Cli(s)) \/ InitiatorStep(Cli(s))
      PROVE  HistoryInv' /\ LedgerStep
  BY <1>1, <1>2, <1>4 DEF SuperviseStep
<1>5. ASSUME NEW s \in Background,
             \/ HostStep(Host(s)) \/ SharedStep(Host(s)) \/ SuperviseStep(Host(s))
             \/ Crash(Host(s))
      PROVE  HistoryInv' /\ LedgerStep
  BY <1>1, <1>2, <1>5
<1>6. ASSUME NEW s \in Sessions, SharedStep(Runtime(s)) \/ RuntimeStep(Runtime(s))
      PROVE  HistoryInv' /\ LedgerStep
  BY <1>1, <1>2, <1>6
<1>7. CASE UNCHANGED allVars
  <2>1. UNCHANGED vars
    BY <1>7 DEF allVars
  <2> QED BY <2>1, StutterTold
<1> QED
  BY <1>3, <1>4, <1>5, <1>6, <1>7 DEF BackgroundNext, UnchangedHandoff

LEMMA LedgerOpens ==
  ASSUME BackgroundInit
  PROVE  HistoryInv /\ Ledger!Init
<1>1. /\ record = [s \in Sessions |-> NoRecord] /\ summary = NoSummary /\ orphaned = {}
      /\ pc = [p \in Processes |-> IF p[1] = "cli" THEN "start" ELSE "off"]
  BY DEF BackgroundInit, Init
<1>2. ASSUME NEW p \in Processes PROVE EntryOK(p) /\ HandlerJobOK(p)
  BY <1>1 DEF EntryOK, HandlerJobOK
<1>3. ASSUME NEW s \in Sessions
      PROVE  pc[Runtime(s)] = "off" /\ pc[Supervisor(s)] \in {"start", "off"}
  BY <1>1, CliRuntimeFacts, SupervisorFacts
<1>4. HistoryInv
  BY <1>1, <1>2, <1>3 DEF HistoryInv, WorkOK, Beginning
<1>5. Entries = [s \in Sessions |-> <<>>]
  BY <1>1 DEF Entries, History
<1>6. Heard = [session |-> "none", entry |-> 0, state |-> "none"]
  BY <1>1 DEF Heard
<1>7. Handlers = [s \in Sessions |-> "waiting"]
  BY <1>1, <1>3 DEF Handlers, HandlerOf
<1>8. Confirmed = {}
  BY <1>3 DEF Confirmed
<1> QED
  BY <1>4, <1>5, <1>6, <1>7, <1>8
    DEF Ledger!Init, Ledger!NothingTold, Entries, Heard, Handlers, Confirmed

\* The documents of all sessions, the handlers and the reports of the supervisors
\* keep the ledger: what overlaps, fails, is killed or is handed over changes
\* neither the order of a session's states nor what is told of them.
THEOREM SessionsKeepLedger == BackgroundSpec => KeepsLedger
<1>1. BackgroundInit => HistoryInv /\ Ledger!Init
  BY LedgerOpens
<1>2. IInv /\ LInv /\ HostsFirst /\ HistoryInv /\ [BackgroundNext]_allVars
        => HistoryInv' /\ LedgerStep
  BY BackgroundNextTold
<1> QED
  BY <1>1, <1>2, HandoverDiscipline, PTL
    DEF BackgroundSpec, KeepsLedger, Ledger!Spec, LedgerStep, Entries, Heard,
        Handlers, Confirmed

-----------------------------------------------------------------------------
(* What follows from the ledger.                                           *)

\* What is heard is an entry.
HeardTrue ==
  Heard.session \in Sessions =>
    /\ Heard.entry \in DOMAIN Entries[Heard.session]
    /\ Entries[Heard.session][Heard.entry] = Heard.state

LEMMA EntriesAreSequences ==
  ASSUME IInv, NEW s \in Sessions
  PROVE  /\ Entries[s] \in Seq(States \cup {"lost"})
         /\ DOMAIN Entries[s] = 1 .. Len(Entries[s])
<1>1. CASE s \in orphaned
  BY <1>1 DEF Entries
<1>2. CASE s \notin orphaned
  <2>1. PICK r \in SessionRecords \cup {NoRecord} : r = record[s]
    BY DEF IInv, TypeOK
  <2>2. Entries[s] = History(r)
    BY <1>2, <2>1 DEF Entries
  <2>3. CASE r = NoRecord
    BY <2>2, <2>3, HistoryBegins DEF History
  <2>4. CASE r \in SessionRecords
    <3>1. History(r) \in Seq(States) /\ DOMAIN History(r) = 1 .. Len(History(r))
      BY <2>4, HistoryFacts
    <3>2. History(r) \in Seq(States \cup {"lost"})
      BY <3>1
    <3> QED BY <2>2, <3>1, <3>2
  <2> QED BY <2>3, <2>4
<1> QED BY <1>1, <1>2

\* The steps of the ledger, by what they do to entries and to what is heard.
Hears(s, i) ==
  /\ i \in DOMAIN Entries[s] /\ Entries' = Entries
  /\ Heard' = [session |-> s, entry |-> i, state |-> Entries[s][i]]

Enters(s, to) ==
  Entries' = [Entries EXCEPT ![s] = Append(Entries[s], to)] /\ Heard' = Heard

Loses(s) ==
  /\ Entries' = [Entries EXCEPT ![s] = <<"lost">>]
  /\ Heard' = IF Heard.session = s
              THEN [session |-> s, entry |-> 1, state |-> "lost"] ELSE Heard

LEMMA LedgerSteps ==
  ASSUME IInv, LedgerStep
  PROVE  \/ Entries' = Entries /\ Heard' = Heard
         \/ \E s \in Sessions :
              \/ \E i \in DOMAIN Entries[s] : Hears(s, i)
              \/ \E to \in States : Enters(s, to)
              \/ Loses(s)
<1>1. CASE UNCHANGED <<Entries, Heard, Handlers, Confirmed>>
  BY <1>1
<1>2. ASSUME NEW s \in Sessions, Ledger!Open(s) PROVE Enters(s, "prepared")
  <2>1. Entries[s] = <<>> /\ Entries' = [Entries EXCEPT ![s] = <<"prepared">>]
        /\ Heard' = Heard
    BY <1>2 DEF Ledger!Open, Entries, Heard
  <2>2. Append(<<>>, "prepared") = <<"prepared">>
    OBVIOUS
  <2> QED BY <2>1, <2>2 DEF Enters
<1>3. ASSUME NEW s \in Sessions, Ledger!Begin(s)
      PROVE  \E i \in DOMAIN Entries[s] : Hears(s, i)
  <2>1. /\ Entries[s] # <<>> /\ Entries' = Entries
        /\ Heard' = [session |-> s, entry |-> Len(Entries[s]),
                     state |-> Entries[s][Len(Entries[s])]]
    BY <1>3 DEF Ledger!Begin, Ledger!Telling, Entries, Heard
  <2>2. Len(Entries[s]) \in DOMAIN Entries[s]
    BY <2>1, EntriesAreSequences, EmptySeq, LenProperties
  <2> QED BY <2>1, <2>2 DEF Hears
<1>4. ASSUME NEW s \in Sessions, Ledger!Finish(s) \/ Ledger!Confirm(s)
      PROVE  Entries' = Entries /\ Heard' = Heard
  BY <1>4 DEF Ledger!Finish, Ledger!Confirm, Entries, Heard
<1>5. ASSUME NEW s \in Sessions, Ledger!Disown(s) PROVE Loses(s)
  BY <1>5 DEF Ledger!Disown, Ledger!Lost, Loses, Entries, Heard
<1>6. ASSUME NEW s \in Sessions, NEW to \in States, Ledger!Move(s, to)
      PROVE  Enters(s, to)
  BY <1>6 DEF Ledger!Move, Enters, Entries, Heard
<1>7. ASSUME NEW s \in Sessions, NEW i \in DOMAIN Entries[s], Ledger!Tell(s, i)
      PROVE  Hears(s, i)
  BY <1>7 DEF Ledger!Tell, Ledger!Telling, Hears, Entries, Heard
<1>8. CASE Ledger!Next
  <2>1. \E s \in Sessions :
          \/ Ledger!Open(s) \/ Ledger!Begin(s) \/ Ledger!Finish(s)
          \/ Ledger!Confirm(s) \/ Ledger!Disown(s)
          \/ \E to \in States : Ledger!Move(s, to)
          \/ \E i \in DOMAIN Entries[s] : Ledger!Tell(s, i)
    BY <1>8 DEF Ledger!Next, Entries, States
  <2>2. "prepared" \in States
    BY DEF States
  <2> QED BY <1>2, <1>3, <1>4, <1>5, <1>6, <1>7, <2>1, <2>2
<1> QED BY <1>1, <1>8 DEF LedgerStep

LEMMA HeardStaysTrue ==
  ASSUME IInv, IInv', LedgerStep, HeardTrue
  PROVE  HeardTrue'
<1>1. CASE Entries' = Entries /\ Heard' = Heard
  BY <1>1 DEF HeardTrue
<1>2. ASSUME NEW s \in Sessions, NEW i \in DOMAIN Entries[s], Hears(s, i)
      PROVE  HeardTrue'
  BY <1>2 DEF Hears, HeardTrue
<1>3. ASSUME NEW s \in Sessions, NEW to \in States, Enters(s, to)
      PROVE  HeardTrue'
  <2>1. /\ Entries[s] \in Seq(States \cup {"lost"})
        /\ DOMAIN Entries[s] = 1 .. Len(Entries[s])
    BY EntriesAreSequences
  <2>2. /\ DOMAIN Append(Entries[s], to) = 1 .. Len(Entries[s]) + 1
        /\ \A i \in DOMAIN Entries[s] : Append(Entries[s], to)[i] = Entries[s][i]
    BY <2>1, AppendProperties, LenProperties
  <2>3. DOMAIN Entries[s] \subseteq DOMAIN Append(Entries[s], to)
    BY <2>1, <2>2, LenProperties
  <2>4. /\ Entries'[s] = Append(Entries[s], to) /\ Heard' = Heard
        /\ \A t \in Sessions \ {s} : Entries'[t] = Entries[t]
    BY <1>3 DEF Enters, Entries
  <2> QED BY <2>2, <2>3, <2>4 DEF HeardTrue
<1>4. ASSUME NEW s \in Sessions, Loses(s)
      PROVE  HeardTrue'
  <2>1. /\ Entries'[s] = <<"lost">>
        /\ \A t \in Sessions \ {s} : Entries'[t] = Entries[t]
    BY <1>4 DEF Loses, Entries
  <2>2. CASE Heard.session = s
    <3>1. Heard' = [session |-> s, entry |-> 1, state |-> "lost"]
      BY <1>4, <2>2 DEF Loses
    <3> QED BY <2>1, <3>1 DEF HeardTrue
  <2>3. CASE Heard.session # s
    <3>1. Heard' = Heard
      BY <1>4, <2>3 DEF Loses
    <3> QED BY <2>1, <2>3, <3>1 DEF HeardTrue
  <2> QED BY <2>2, <2>3
<1> QED BY <1>1, <1>2, <1>3, <1>4, LedgerSteps

\* Whatever is written to session_status.json, and however late, was true once.
THEOREM SummaryTellsHistory == BackgroundSpec => []SummaryWasTrue
<1>1. BackgroundInit => HistoryInv /\ HeardTrue
  <2> SUFFICES ASSUME BackgroundInit PROVE HeardTrue
    BY LedgerOpens
  <2>2. summary = NoSummary
    BY DEF BackgroundInit, Init
  <2>3. Heard.session = None
    BY <2>2 DEF Heard, None
  <2> QED BY <2>3, StoreAssumption DEF HeardTrue
<1>2. /\ IInv /\ LInv /\ HostsFirst /\ IInv' /\ HistoryInv /\ HeardTrue
      /\ [BackgroundNext]_allVars
      => (HistoryInv /\ HeardTrue)'
  BY BackgroundNextTold, HeardStaysTrue
<1>3. IInv /\ HeardTrue => SummaryWasTrue
  <2> SUFFICES ASSUME IInv, HeardTrue, summary # NoSummary,
                      summary.session \notin orphaned
               PROVE  /\ summary.rev + 1 \in DOMAIN History(record[summary.session])
                      /\ History(record[summary.session])[summary.rev + 1] = summary.state
    BY DEF SummaryWasTrue
  <2>1. PICK s \in Sessions : s = summary.session
    BY DEF IInv, TypeOK, Summaries
  <2>2. Heard.session = s /\ Heard.entry = summary.rev + 1 /\ Heard.state = summary.state
    BY <2>1 DEF Heard
  <2>3. Entries[s] = History(record[s])
    BY <2>1 DEF Entries
  <2> QED BY <2>1, <2>2, <2>3 DEF HeardTrue
<1> QED BY <1>1, <1>2, <1>3, HandoverDiscipline, PTL DEF BackgroundSpec

\* A handler at work has its session to itself.
THEOREM HandlersOwnTheirSession == BackgroundSpec => []HandlerOnlyWhileRunning
<1>1. BackgroundInit => HistoryInv
  BY LedgerOpens
<1>2. IInv /\ LInv /\ HostsFirst /\ HistoryInv /\ [BackgroundNext]_allVars => HistoryInv'
  BY BackgroundNextTold
<1>3. HistoryInv => HandlerOnlyWhileRunning
  <2> SUFFICES ASSUME HistoryInv, NEW s \in Sessions, HandlerOf(s) = "working"
               PROVE  record[s].state = "running"
    BY DEF HandlerOnlyWhileRunning
  <2>1. s \notin orphaned /\ Working(Runtime(s))
    BY HandlerIs
  <2> QED BY <2>1 DEF HistoryInv, WorkOK, Working
<1> QED BY <1>1, <1>2, <1>3, HandoverDiscipline, PTL DEF BackgroundSpec

=============================================================================
