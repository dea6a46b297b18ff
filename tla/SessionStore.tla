---------------------------- MODULE SessionStore -----------------------------
(***************************************************************************)
(* The durable session store of one source operation (session/store.rs)    *)
(* and the session leases (session/lease.rs), shared by every process that *)
(* opens the operation root:                                               *)
(*                                                                         *)
(*   record[s]   sessions/<s>/session.json, replaced by an atomic rename   *)
(*   summary     session_status.json, replaced by an atomic rename         *)
(*   lease[s]    the process whose flock on sessions/<s>/session.lock holds*)
(*                                                                         *)
(* A store operation is not atomic: each read, each rename and each flock  *)
(* is a step of its own, and every process may be interleaved between two  *)
(* of them.  A process p inside an operation keeps                         *)
(*                                                                         *)
(*   pc[p]    the step it takes next                                       *)
(*   cur[p]   the session the operation is about                           *)
(*   snap[p]  the record it last loaded, is writing or got back            *)
(*   job[p]   the transition in progress: target state, failure, expected  *)
(*            revision, and where to continue on success and on error      *)
(*   back[p]  where the enclosing operation returns                        *)
(*                                                                         *)
(* Left out: the failure of a read, and of opening the lock file.          *)
(***************************************************************************)
EXTENDS SessionRecord

CONSTANTS
  Sessions,    (* the session identities                                   *)
  IoFaults     (* may writing a document fail?                             *)

ASSUME StoreAssumption ==
  /\ None \notin Sessions
  /\ IoFaults \in BOOLEAN

\* A `lexicon data` invocation creates at most one session and session ids
\* are never reused, so one name stands for the session, for the invocation
\* that creates it, for the operator host it may start, and for the source
\* runtime that executes it.
Processes  == {"cli", "host", "runtime"} \X Sessions
Cli(s)     == <<"cli", s>>
Host(s)    == <<"host", s>>
Runtime(s) == <<"runtime", s>>
Own(p)     == p[2]

\* The holder of a free lease.
Nobody == <<None, None>>

VARIABLES record, summary, lease, pc, cur, snap, job, back

store  == <<record, summary>>
disk   == <<record, summary, lease>>
locals == <<pc, cur, snap, job, back>>

Summaries == [session : Sessions, state : States, rev : Nat]
NoSummary == [session |-> None, state |-> None, rev |-> 0]

\* SessionStatusV1::from_record
SummaryOf(s, r) == [session |-> s, state |-> r.state, rev |-> r.rev]

Jobs(PCs) ==
  [to : States, why : Failures \cup {None}, rev : Nat, done : PCs, fail : PCs]
NoJob ==
  [to |-> "prepared", why |-> None, rev |-> 0, done |-> "none", fail |-> "none"]

-----------------------------------------------------------------------------
(* Helpers: p moves on, p's lease on s, p starts a transition.             *)

Goto(p, next) == pc' = [pc EXCEPT ![p] = next]

FreeLease(s) == lease[s] = Nobody
Acquire(p, s) == lease' = [lease EXCEPT ![s] = p]

\* Dropping the lock files p has open, by Drop or because p died.
Release(p) ==
  lease' = [s \in Sessions |-> IF lease[s] = p THEN Nobody ELSE lease[s]]

\* store.transition(session, rev, to), returning to `done` or to `fail`.
Transition(p, s, to, why, rev, done, fail) ==
  /\ cur' = [cur EXCEPT ![p] = s]
  /\ job' = [job EXCEPT ![p] = [to |-> to, why |-> why, rev |-> rev,
                                done |-> done, fail |-> fail]]
  /\ Goto(p, "txLoad")

\* The operation in progress ends at `next` with `result`.
Return(p, result, next) ==
  /\ snap' = [snap EXCEPT ![p] = result]
  /\ job'  = [job EXCEPT ![p] = NoJob]
  /\ Goto(p, next)

-----------------------------------------------------------------------------
(* transition: load and check, rename the record, rename the summary.      *)

\* The revision check of `transition`; validate_transition follows it.
RevisionCurrent(p) == record[cur[p]].rev = job[p].rev

TransitionLoad(p) ==
  /\ pc[p] = "txLoad"
  /\ LET r == record[cur[p]] IN
     \/ /\ Loads(r) /\ RevisionCurrent(p)
        /\ Legal(r.state, job[p].to)
        /\ snap' = [snap EXCEPT ![p] = ApplyTransition(r, job[p].to, job[p].why)]
        /\ Goto(p, "txWrite")
        /\ UNCHANGED job
     \/ /\ ~(Loads(r) /\ RevisionCurrent(p) /\ Legal(r.state, job[p].to))
        /\ Return(p, NoRecord, job[p].fail)
  /\ UNCHANGED <<disk, cur, back>>

\* Variant of TransitionWrite: the error of the record write is ignored.
WriteUnchecked(p) ==
  /\ pc[p] = "txWrite"
  /\ \/ record' = [record EXCEPT ![cur[p]] = snap[p]]
     \/ IoFaults /\ UNCHANGED record
  /\ Goto(p, "txSummary")
  /\ UNCHANGED <<summary, lease, cur, snap, job, back>>

TransitionWrite(p) ==
  /\ pc[p] = "txWrite"
  /\ \/ /\ record' = [record EXCEPT ![cur[p]] = snap[p]]
        /\ Goto(p, "txSummary")
        /\ UNCHANGED <<snap, job>>
     \/ /\ IoFaults
        /\ Return(p, NoRecord, job[p].fail)
        /\ UNCHANGED record
  /\ UNCHANGED <<summary, lease, cur, back>>

\* A failed summary write is PartialCommit: the record stays as written.
TransitionSummary(p) ==
  /\ pc[p] = "txSummary"
  /\ \/ /\ summary' = SummaryOf(cur[p], snap[p])
        /\ Return(p, snap[p], job[p].done)
     \/ /\ IoFaults
        /\ Return(p, NoRecord, job[p].fail)
        /\ UNCHANGED summary
  /\ UNCHANGED <<record, lease, cur, back>>

-----------------------------------------------------------------------------
(* reconcile_stale_current_session on cur[p]: returns to back[p] with the  *)
(* reconciled record, or with NoRecord when there was nothing to do.       *)

\* Variant of ReconcileLoad: only a running session can be stale.
ReconcileRunningOnly(p) ==
  /\ pc[p] = "reconcile"
  /\ LET r == record[cur[p]] IN
     \/ /\ r.state = "running"
        /\ snap' = [snap EXCEPT ![p] = r]
        /\ Goto(p, "reconcileLock")
     \/ /\ r.state # "running"
        /\ snap' = [snap EXCEPT ![p] = NoRecord]
        /\ Goto(p, back[p])
  /\ UNCHANGED <<disk, cur, job, back>>

ReconcileLoad(p) ==
  /\ pc[p] = "reconcile"
  /\ LET r == record[cur[p]] IN
     \/ /\ r.state \in Active
        /\ snap' = [snap EXCEPT ![p] = r]
        /\ Goto(p, "reconcileLock")
     \/ /\ r.state \notin Active
        /\ snap' = [snap EXCEPT ![p] = NoRecord]
        /\ Goto(p, back[p])
  /\ UNCHANGED <<disk, cur, job, back>>

\* Variant of ReconcileLock: the lock is only probed, not kept.
ReconcileProbe(p) ==
  /\ pc[p] = "reconcileLock"
  /\ \/ /\ FreeLease(cur[p])
        /\ Transition(p, cur[p], "failed", "stale", snap[p].rev,
                      "reconcileDrop", "errExit")
        /\ UNCHANGED snap
     \/ /\ ~FreeLease(cur[p])
        /\ snap' = [snap EXCEPT ![p] = NoRecord]
        /\ Goto(p, back[p])
        /\ UNCHANGED <<cur, job>>
  /\ UNCHANGED <<disk, back>>

\* Variant of ReconcileLock: a stale session is abandoned at once.
ReconcileAbandoning(p) ==
  /\ pc[p] = "reconcileLock"
  /\ \/ /\ FreeLease(cur[p])
        /\ Acquire(p, cur[p])
        /\ Transition(p, cur[p], "abandoned", None, snap[p].rev,
                      "reconcileDrop", "errExit")
        /\ UNCHANGED snap
     \/ /\ ~FreeLease(cur[p])
        /\ snap' = [snap EXCEPT ![p] = NoRecord]
        /\ Goto(p, back[p])
        /\ UNCHANGED <<lease, cur, job>>
  /\ UNCHANGED <<store, back>>

\* An acquired lease means that the owner of the session is gone.
ReconcileLock(p) ==
  /\ pc[p] = "reconcileLock"
  /\ \/ /\ FreeLease(cur[p])
        /\ Acquire(p, cur[p])
        /\ Transition(p, cur[p], "failed", "stale", snap[p].rev,
                      "reconcileDrop", "errExit")
        /\ UNCHANGED snap
     \/ /\ ~FreeLease(cur[p])
        /\ snap' = [snap EXCEPT ![p] = NoRecord]
        /\ Goto(p, back[p])
        /\ UNCHANGED <<lease, cur, job>>
  /\ UNCHANGED <<store, back>>

ReconcileDrop(p) ==
  /\ pc[p] = "reconcileDrop"
  /\ Release(p)
  /\ Goto(p, back[p])
  /\ UNCHANGED <<store, cur, snap, job, back>>

StoreStep(p) ==
  \/ TransitionLoad(p) \/ TransitionWrite(p) \/ TransitionSummary(p)
  \/ ReconcileLoad(p) \/ ReconcileLock(p) \/ ReconcileDrop(p)
=============================================================================
