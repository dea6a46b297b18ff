---------------------------- MODULE ProcessingRun ----------------------------
(***************************************************************************)
(* Processing runtimes of one source (processing/runner.rs, context.rs):   *)
(* each discovers the raw transactions, opens the source's database, lets  *)
(* the handler work in a transaction it owns, commits, makes the result    *)
(* durable and completes its session.  Two of them may be alive at once,   *)
(* and any may be killed.  SQLite is external: one writer at a time, a     *)
(* rollback journal from the first write to the end of the transaction,    *)
(* and a journal whose writer is gone is rolled back by the next opener.   *)
(***************************************************************************)
CONSTANTS
  Sessions,     \* processing sessions
  Unowned,      \* no session
  Killable,     \* sessions whose runtime or supervisor may be killed
  FaultProne    \* sessions whose file and database operations may fail

ASSUME ProcessingAssumption ==
  /\ Unowned \notin Sessions
  /\ Killable \subseteq Sessions
  /\ FaultProne \subseteq Sessions

VARIABLES
  database,   \* sessions whose output the database holds
  journal,    \* whose rollback journal lies beside it
  writer,     \* who holds SQLite's write lock
  record,     \* the state of each session's record
  run,        \* control state of each runtime
  synced,     \* sessions that made their output durable
  outcome     \* what each runtime returned

vars == <<database, journal, writer, record, run, synced, outcome>>
sqlite == <<database, journal, writer>>

\* active: the Core-owned transaction is open; wrote: the handler changed
\* something in it; result: what the handler returned; failure: what will be
\* reported once the session is failed.
Off == [pc |-> "off", active |-> FALSE, wrote |-> FALSE, result |-> "none",
        failure |-> "none"]

Init ==
  /\ database = {}
  /\ journal = Unowned
  /\ writer = Unowned
  /\ record = [s \in Sessions |-> "prepared"]
  /\ run = [s \in Sessions |-> Off]
  /\ synced = {}
  /\ outcome = [s \in Sessions |-> "none"]

At(s, pc)   == run[s].pc = pc
Step(s, r)  == run' = [run EXCEPT ![s] = r]
Goto(s, pc) == Step(s, [run[s] EXCEPT !.pc = pc])
MoveTo(s, pc, active) ==
  Step(s, [run[s] EXCEPT !.pc = pc, !.active = active])

\* The run will be reported as this failure, after its session is failed.
FailAs(s, failure) ==
  Step(s, [run[s] EXCEPT !.pc = "fail", !.failure = failure,
                         !.active = FALSE])

\* Dropping the connection: an open transaction is rolled back.
Closed(s) ==
  /\ writer' = IF writer = s THEN Unowned ELSE writer
  /\ journal' = IF journal = s THEN Unowned ELSE journal

-----------------------------------------------------------------------------
(* Around the runtime                                                      *)

\* The runtime is bound to its session and enters Running.
EnterRunning(s) ==
  /\ At(s, "off")
  /\ record[s] = "prepared"
  /\ record' = [record EXCEPT ![s] = "running"]
  /\ Goto(s, "discover")
  /\ UNCHANGED <<sqlite, synced, outcome>>

\* The process dies: its lock goes with it, its journal stays.
Kill(s) ==
  /\ s \in Killable
  /\ run[s].pc \notin {"off", "returned", "dead"}
  /\ MoveTo(s, "dead", FALSE)
  /\ writer' = IF writer = s THEN Unowned ELSE writer
  /\ UNCHANGED <<database, journal, record, synced, outcome>>

Gone(s) == run[s].pc \in {"dead", "returned"}

\* The supervisor of a runtime that is gone, or a later invocation that finds
\* the supervisor gone, fails a session that is still running.
Reconcile(s) ==
  /\ record[s] = "running"
  /\ Gone(s) \/ s \in Killable
  /\ record' = [record EXCEPT ![s] = "failed"]
  /\ UNCHANGED <<sqlite, run, synced, outcome>>

-----------------------------------------------------------------------------
(* Setup                                                                   *)

\* discover_http_transactions_for_processing: all of the raw root or none.
Discover(s) ==
  /\ At(s, "discover")
  /\ \/ Goto(s, "path")
     \/ s \in FaultProne /\ FailAs(s, "setup")
  /\ UNCHANGED <<sqlite, record, synced, outcome>>

\* A mutant: a journal is refused in every phase.
SidecarsNever(phase) == journal = Unowned

\* validate_database_sidecars: before the database is opened a journal may lie
\* there, afterwards none may, whoever it belongs to.
SidecarsValid(phase) == phase = "before_open" \/ journal = Unowned

DerivePath(s) ==
  /\ At(s, "path")
  /\ \/ SidecarsValid("before_open") /\ Goto(s, "open")
     \/ ~ SidecarsValid("before_open") /\ FailAs(s, "path")
     \/ s \in FaultProne /\ FailAs(s, "path")
  /\ UNCHANGED <<sqlite, record, synced, outcome>>

\* open_processing_database: the connection rolls back a journal whose writer
\* is gone; BEGIN IMMEDIATE takes the write lock, or gives up after the busy
\* timeout.
OpenDatabase(s) ==
  /\ At(s, "open")
  /\ \/ /\ writer = Unowned
        /\ writer' = s
        /\ journal' = Unowned
        /\ MoveTo(s, "handler", TRUE)
     \/ /\ writer # Unowned \/ s \in FaultProne
        /\ FailAs(s, "setup")
        /\ UNCHANGED <<journal, writer>>
  /\ UNCHANGED <<database, record, synced, outcome>>

-----------------------------------------------------------------------------
(* The handler: it may write, and it may end Core's transaction.  A source *)
(* that begins a transaction of its own afterwards is outside what Core    *)
(* claims to detect.                                                       *)

HandlerWrites(s) ==
  /\ At(s, "handler")
  /\ run[s].active
  /\ Step(s, [run[s] EXCEPT !.wrote = TRUE])
  /\ journal' = s
  /\ UNCHANGED <<database, writer, record, synced, outcome>>

\* COMMIT or ROLLBACK by the source.
HandlerEndsTransaction(s) ==
  /\ At(s, "handler")
  /\ run[s].active
  /\ Step(s, [run[s] EXCEPT !.active = FALSE])
  /\ Closed(s)
  /\ \/ database' = database \cup (IF run[s].wrote THEN {s} ELSE {})
     \/ UNCHANGED database
  /\ UNCHANGED <<record, synced, outcome>>

\* Without a transaction every statement is one of its own.
HandlerWritesAlone(s) ==
  /\ At(s, "handler")
  /\ ~ run[s].active
  /\ writer = Unowned
  /\ database' = database \cup {s}
  /\ journal' = Unowned
  /\ UNCHANGED <<writer, record, run, synced, outcome>>

HandlerReturns(s) ==
  /\ At(s, "handler")
  /\ \E result \in {"ok", "error"} :
       Step(s, [run[s] EXCEPT !.pc = "boundary", !.result = result])
  /\ UNCHANGED <<sqlite, record, synced, outcome>>

-----------------------------------------------------------------------------
(* After the handler                                                       *)

\* A mutant: the transaction is taken for open; commit_database or
\* rollback_database then answers that it is not.
BoundaryUnchecked(s) ==
  /\ At(s, "boundary")
  /\ IF run[s].active
       THEN Goto(s, IF run[s].result = "ok" THEN "commit" ELSE "rollback")
       ELSE FailAs(s, "transaction")
  /\ UNCHANGED <<sqlite, record, synced, outcome>>

\* require_transaction_active: a transaction the source ended may have been
\* committed, whatever the handler returned.
CheckBoundary(s) ==
  /\ At(s, "boundary")
  /\ \/ /\ run[s].active
        /\ Goto(s, IF run[s].result = "ok" THEN "commit" ELSE "rollback")
     \/ ~ run[s].active /\ FailAs(s, "partial_commit")
  /\ UNCHANGED <<sqlite, record, synced, outcome>>

\* commit_database; the connection is closed in every case.  A COMMIT that
\* failed left the transaction open, or ended it with an unknown result.
CommitDatabase(s) ==
  /\ At(s, "commit")
  /\ Closed(s)
  /\ \/ /\ database' = database \cup {s}
        /\ MoveTo(s, "sync", FALSE)
     \/ /\ s \in FaultProne
        /\ UNCHANGED database
        /\ FailAs(s, "transaction")
     \/ /\ s \in FaultProne
        /\ \/ UNCHANGED database
           \/ database' = database \cup {s}
        /\ FailAs(s, "uncertain")
  /\ UNCHANGED <<record, synced, outcome>>

\* finalize_database_durability
SyncDatabase(s) ==
  /\ At(s, "sync")
  /\ \/ synced' = synced \cup {s} /\ Goto(s, "sidecars")
     \/ s \in FaultProne /\ FailAs(s, "partial_commit") /\ UNCHANGED synced
  /\ UNCHANGED <<sqlite, record, outcome>>

CheckSidecars(s) ==
  /\ At(s, "sidecars")
  /\ \/ SidecarsValid("after_transaction") /\ Goto(s, "complete")
     \/ /\ ~ SidecarsValid("after_transaction") \/ s \in FaultProne
        /\ FailAs(s, "partial_commit")
  /\ UNCHANGED <<sqlite, record, synced, outcome>>

\* rollback_database; when ROLLBACK fails closing the connection does it.
RollbackDatabase(s) ==
  /\ At(s, "rollback")
  /\ Closed(s)
  /\ \/ MoveTo(s, "sidecars_after_rollback", FALSE)
     \/ s \in FaultProne /\ FailAs(s, "rollback")
  /\ UNCHANGED <<database, record, synced, outcome>>

CheckSidecarsAfterRollback(s) ==
  /\ At(s, "sidecars_after_rollback")
  /\ \/ SidecarsValid("after_transaction") /\ FailAs(s, "handler")
     \/ /\ ~ SidecarsValid("after_transaction") \/ s \in FaultProne
        /\ FailAs(s, "sidecar")
  /\ UNCHANGED <<sqlite, record, synced, outcome>>

-----------------------------------------------------------------------------
(* The end of the session                                                  *)

Returns(s, kind) ==
  /\ outcome' = [outcome EXCEPT ![s] = kind]
  /\ Goto(s, "returned")

\* A mutant: completion waits until the record is Running.
CompleteRunning(s) ==
  /\ At(s, "complete")
  /\ record[s] = "running"
  /\ record' = [record EXCEPT ![s] = "succeeded"]
  /\ Returns(s, "ok")
  /\ UNCHANGED <<sqlite, synced>>

\* Only a record that is still Running becomes Succeeded; otherwise, and when
\* the record was written but not the summary beside it, the committed database
\* is reported as a partial commit.
Complete(s) ==
  /\ At(s, "complete")
  /\ \/ /\ record[s] = "running"
        /\ record' = [record EXCEPT ![s] = "succeeded"]
        /\ \/ Returns(s, "ok")
           \/ s \in FaultProne /\ Returns(s, "partial_commit")
     \/ /\ record[s] # "running" \/ s \in FaultProne
        /\ Returns(s, "partial_commit")
        /\ UNCHANGED record
  /\ UNCHANGED <<sqlite, synced>>

\* fail_setup, fail_runtime, fail_source: the failure is returned whether or
\* not the record could be written.
FailSession(s) ==
  /\ At(s, "fail")
  /\ \/ /\ record[s] = "running"
        /\ record' = [record EXCEPT ![s] = "failed"]
     \/ /\ record[s] # "running" \/ s \in FaultProne
        /\ UNCHANGED record
  /\ Returns(s, run[s].failure)
  /\ UNCHANGED <<sqlite, synced>>

-----------------------------------------------------------------------------

RuntimeStep(s) ==
  \/ Discover(s) \/ DerivePath(s) \/ OpenDatabase(s)
  \/ HandlerReturns(s)
  \/ CheckBoundary(s) \/ CommitDatabase(s) \/ SyncDatabase(s)
  \/ CheckSidecars(s) \/ RollbackDatabase(s) \/ CheckSidecarsAfterRollback(s)
  \/ Complete(s) \/ FailSession(s)

Next ==
  \E s \in Sessions :
    \/ EnterRunning(s)
    \/ RuntimeStep(s)
    \/ HandlerWrites(s) \/ HandlerEndsTransaction(s) \/ HandlerWritesAlone(s)
    \/ Kill(s) \/ Reconcile(s)

Spec == Init /\ [][Next]_vars

\* The runtime is scheduled and its handler returns; a supervisor looks after
\* a runtime that is gone.
FairSpec ==
  /\ Spec
  /\ \A s \in Sessions :
       WF_vars(RuntimeStep(s)) /\ WF_vars(Gone(s) /\ Reconcile(s))

-----------------------------------------------------------------------------
(* Properties                                                              *)

PCs ==
  {"off", "discover", "path", "open", "handler", "boundary", "commit", "sync",
   "sidecars", "rollback", "sidecars_after_rollback", "complete", "fail",
   "returned", "dead"}

Failures ==
  {"setup", "path", "handler", "rollback", "sidecar", "transaction",
   "uncertain", "partial_commit"}

Runs ==
  [pc : PCs, active : BOOLEAN, wrote : BOOLEAN,
   result : {"none", "ok", "error"}, failure : Failures \cup {"none"}]

\* Types of the state.
ProcessingTypeOK ==
  /\ database \subseteq Sessions
  /\ journal \in Sessions \cup {Unowned}
  /\ writer \in Sessions \cup {Unowned}
  /\ record \in [Sessions -> {"prepared", "running", "succeeded", "failed"}]
  /\ run \in [Sessions -> Runs]
  /\ synced \subseteq Sessions
  /\ outcome \in [Sessions -> Failures \cup {"none", "ok"}]

\* A session is Succeeded only when its output is in the database and durable,
\* and a runtime that returned success left such a record: no reconciliation,
\* kill or fault in between breaks the agreement of database, record and answer
\* (run_processing_runtime_invocation).
SucceededIsDurable ==
  \A s \in Sessions :
    /\ record[s] = "succeeded" => s \in database /\ s \in synced
    /\ outcome[s] = "ok" => record[s] = "succeeded"

\* As long as a run has its transaction open, the journal beside the database
\* is its own: whatever a killed run left there was rolled back.
JournalIsOwn ==
  \A s \in Sessions :
    run[s].active => journal = IF run[s].wrote THEN s ELSE Unowned

\* However a processing runtime was killed, the journal and the lock it left
\* do not keep a later run from working (validate_database_sidecars before the
\* database is opened, open_processing_database): without faults of its own a
\* run that has come to the database gets its transaction, with the journal of
\* the dead rolled back, unless it is killed or another run that lives has the
\* database.
LeftoversRolledBack ==
  /\ []JournalIsOwn
  /\ \A s \in Sessions \ FaultProne :
       At(s, "path") ~> \/ run[s].active \/ At(s, "dead")
                        \/ \E t \in Sessions \ {s} : run[t].active

\* What a run reports of the database (ProcessingContract).
Said(s) ==
  CASE outcome[s] = "none" -> "none"
    [] outcome[s] = "ok"   -> "replaced"
    [] outcome[s] \in {"partial_commit", "uncertain"} -> "possible"
    [] OTHER -> "kept"

Contract ==
  INSTANCE ProcessingContract
    WITH output <- database, report <- [s \in Sessions |-> Said(s)]

\* The runs implement the contract: output appears atomically and before the
\* report, "kept" is said only when nothing of the run is in the database, and
\* "replaced" only when it is.
KeepsContract == Contract!Spec

\* Every run that entered Running ends, and its record says how.
ProcessingEnds ==
  \A s \in Sessions :
    record[s] = "running" ~>
      /\ record[s] \in {"succeeded", "failed"}
      /\ run[s].pc \in {"returned", "dead"}
=============================================================================
