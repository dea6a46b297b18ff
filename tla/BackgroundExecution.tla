------------------------- MODULE BackgroundExecution -------------------------
(***************************************************************************)
(* Background execution (data/background.rs): an invocation prepares a     *)
(* session like a foreground one, then hands it over to an operator host,  *)
(* a re-execution of the CLI, which supervises the runtime.                *)
(*                                                                         *)
(*   initiator   write the intent, spawn the host, poll for its end, its   *)
(*               acknowledgement or the deadline; then either release the  *)
(*               lease, or kill the host and fail the launch               *)
(*   host        check the intent, write the acknowledgement, try to take  *)
(*               the lease until a deadline of its own, then supervise     *)
(*                                                                         *)
(* Foreground invocations of the same operation run beside them.  Deadlines*)
(* may pass at any moment.  Tokens and process ids, which always agree     *)
(* here, are left out; the acknowledgement is a plain write, which a reader*)
(* may catch half-done.  SIGKILL to one's own child that was not waited for*)
(* cannot be refused, so the kill of a host takes effect, although the code*)
(* would go on if it did not.  WaitFaults: asking for the child or reading *)
(* what it wrote may fail.                                                 *)
(***************************************************************************)
EXTENDS DataExecution

CONSTANT Background   (* the invocations started with --bg                 *)

ASSUME BackgroundAssumption == Background \subseteq Sessions

VARIABLES
  intent,    \* the sessions with a handoff_intent.json
  ack        \* ack[s]: handoff_ack.json is absent, partial or written

handoff == <<intent, ack>>
allVars == <<vars, handoff>>

\* Who supervises the runtime of s.
Supervisor(s) == IF s \in Background THEN Host(s) ELSE Cli(s)

HostAlive(s) == pc[Host(s)] \notin {"off"} \cup Ended

-----------------------------------------------------------------------------
(* The initiator p, which holds the lease of its prepared session.         *)

\* fail_launch with a source failure; its own errors are ignored.
FailHandoff(p) ==
  Transition(p, Own(p), "failed", "source", snap[p].rev, "errExit", "errExit")

WriteIntent(p) ==
  /\ pc[p] = "launch"
  /\ \/ /\ intent' = intent \cup {Own(p)}
        /\ Goto(p, "spawnHost")
        /\ UNCHANGED <<cur, job>>
     \/ /\ IoFaults
        /\ FailHandoff(p)
        /\ UNCHANGED intent
  /\ UNCHANGED <<disk, snap, back, kept, ack>>

\* Variant of SpawnHost: the lease is released before the acknowledgement.
SpawnHostReleasing(p) ==
  /\ pc[p] = "spawnHost"
  /\ \/ /\ pc' = [pc EXCEPT ![p] = "poll", ![Host(Own(p))] = "hostStart"]
        /\ Release(p)
        /\ UNCHANGED <<cur, job, intent>>
     \/ /\ intent' = intent \ {Own(p)}
        /\ FailHandoff(p)
        /\ UNCHANGED lease
  /\ UNCHANGED <<store, snap, back, kept, ack>>

SpawnHost(p) ==
  /\ pc[p] = "spawnHost"
  /\ \/ /\ pc' = [pc EXCEPT ![p] = "poll", ![Host(Own(p))] = "hostStart"]
        /\ UNCHANGED <<cur, job, intent>>
     \/ /\ intent' = intent \ {Own(p)}
        /\ FailHandoff(p)
  /\ UNCHANGED <<disk, snap, back, kept, ack>>

\* try_wait: the host ended, or cannot be asked, or is at work.
PollHost(p) ==
  /\ pc[p] = "poll"
  /\ \/ ~HostAlive(Own(p)) /\ Goto(p, "abort")
     \/ WaitFaults         /\ Goto(p, "killHost")
     \/ HostAlive(Own(p))  /\ Goto(p, "pollAck")
  /\ UNCHANGED <<disk, cur, snap, job, back, kept, handoff>>

\* An acknowledgement that cannot be read is tried again, whatever the deadline.
PollAck(p) ==
  /\ pc[p] = "pollAck"
  /\ \/ ack[Own(p)] = "none"    /\ Goto(p, "pollDeadline")
     \/ ack[Own(p)] # "none"    /\ WaitFaults /\ Goto(p, "poll")
     \/ ack[Own(p)] = "partial" /\ Goto(p, "killHost")
     \/ ack[Own(p)] = "written" /\ Goto(p, "release")
  /\ UNCHANGED <<disk, cur, snap, job, back, kept, handoff>>

PollAgain(p) ==
  /\ pc[p] = "pollDeadline"
  /\ Goto(p, "poll")
  /\ UNCHANGED <<disk, cur, snap, job, back, kept, handoff>>

\* Variant of DeadlinePasses: the late host is left running.
DeadlineUnkilled(p) ==
  /\ pc[p] = "pollDeadline"
  /\ Goto(p, "abort")
  /\ UNCHANGED <<disk, cur, snap, job, back, kept, handoff>>

DeadlinePasses(p) ==
  /\ pc[p] = "pollDeadline"
  /\ Goto(p, "killHost")
  /\ UNCHANGED <<disk, cur, snap, job, back, kept, handoff>>

\* kill and wait: the host is gone, and with it the locks it held.
KillHost(p) ==
  LET h == Host(Own(p)) IN
  /\ pc[p] = "killHost"
  /\ \/ /\ HostAlive(Own(p))
        /\ pc' = [pc EXCEPT ![p] = "abort", ![h] = "crashed"]
        /\ Release(h)
        /\ orphaned' = orphaned \cup Orphans(h)
        /\ cur'   = [cur EXCEPT ![h] = None]
        /\ snap'  = [snap EXCEPT ![h] = NoRecord]
        /\ job'   = [job EXCEPT ![h] = NoJob]
        /\ back'  = [back EXCEPT ![h] = None]
        /\ fresh' = [fresh EXCEPT ![h] = NoRecord]
        /\ UNCHANGED <<store, want>>
     \/ /\ ~HostAlive(Own(p))
        /\ Goto(p, "abort")
        /\ UNCHANGED <<disk, cur, snap, job, back, kept>>
  /\ UNCHANGED handoff

\* Variant of Abort: the launch is not failed.
AbortSilently(p) ==
  /\ pc[p] = "abort"
  /\ intent' = intent \ {Own(p)}
  /\ ack' = [ack EXCEPT ![Own(p)] = "none"]
  /\ Goto(p, "errExit")
  /\ UNCHANGED <<disk, cur, snap, job, back, kept>>

\* Variant of Abort: the hand-over is tried again.
AbortRetrying(p) ==
  /\ pc[p] = "abort"
  /\ ack' = [ack EXCEPT ![Own(p)] = "none"]
  /\ Goto(p, "spawnHost")
  /\ UNCHANGED <<disk, cur, snap, job, back, kept, intent>>

\* Remove both files, then fail the launch.
Abort(p) ==
  /\ pc[p] = "abort"
  /\ intent' = intent \ {Own(p)}
  /\ ack' = [ack EXCEPT ![Own(p)] = "none"]
  /\ FailHandoff(p)
  /\ UNCHANGED <<disk, snap, back, kept>>

ReleaseForHandoff(p) ==
  /\ pc[p] = "release"
  /\ Release(p)
  /\ Goto(p, "released")
  /\ UNCHANGED <<store, cur, snap, job, back, kept, handoff>>

RemoveIntent(p) ==
  /\ pc[p] = "released"
  /\ intent' = intent \ {Own(p)}
  /\ Goto(p, "okExit")
  /\ UNCHANGED <<disk, cur, snap, job, back, kept, ack>>

InitiatorStep(p) ==
  \/ WriteIntent(p) \/ SpawnHost(p) \/ PollHost(p) \/ PollAck(p)
  \/ PollAgain(p) \/ DeadlinePasses(p) \/ KillHost(p) \/ Abort(p)
  \/ ReleaseForHandoff(p) \/ RemoveIntent(p)

-----------------------------------------------------------------------------
(* The operator host p, up to the lease: from "launch" on it supervises.   *)

\* Layout and bundle are admitted again, then the intent has to be there.
HostStart(p) ==
  /\ pc[p] = "hostStart"
  /\ \/ Own(p) \in intent /\ Goto(p, "hostAck")
     \/ Goto(p, "errExit")
  /\ UNCHANGED <<disk, cur, snap, job, back, kept, handoff>>

HostAckBegins(p) ==
  /\ pc[p] = "hostAck"
  /\ \/ /\ ack' = [ack EXCEPT ![Own(p)] = "partial"]
        /\ Goto(p, "hostAckWrite")
     \/ /\ IoFaults
        /\ Goto(p, "errExit")
        /\ UNCHANGED ack
  /\ UNCHANGED <<disk, cur, snap, job, back, kept, intent>>

HostAckEnds(p) ==
  /\ pc[p] = "hostAckWrite"
  /\ \/ /\ ack' = [ack EXCEPT ![Own(p)] = "written"]
        /\ Goto(p, "hostLoad")
     \/ /\ IoFaults
        /\ Goto(p, "errExit")
        /\ UNCHANGED ack
  /\ UNCHANGED <<disk, cur, snap, job, back, kept, intent>>

\* resume_prepared_launch: the record has to be Prepared ...
HostLoad(p) ==
  /\ pc[p] = "hostLoad"
  /\ LET r == record[Own(p)] IN
     \/ /\ r.state = "prepared"
        /\ snap' = [snap EXCEPT ![p] = r]
        /\ Goto(p, "hostLock")
     \/ /\ r.state # "prepared"
        /\ Goto(p, "errExit")
        /\ UNCHANGED snap
  /\ UNCHANGED <<disk, cur, job, back, kept, handoff>>

\* ... and the lease free, else it is tried again until the deadline.
HostLock(p) ==
  /\ pc[p] = "hostLock"
  /\ \/ /\ FreeLease(Own(p))
        /\ Acquire(p, Own(p))
        /\ Goto(p, "launch")
     \/ /\ ~FreeLease(Own(p))
        /\ Goto(p, "hostRetry")
        /\ UNCHANGED lease
  /\ UNCHANGED <<store, cur, snap, job, back, kept, handoff>>

HostRetries(p) ==
  /\ pc[p] = "hostRetry"
  /\ snap' = [snap EXCEPT ![p] = NoRecord]
  /\ Goto(p, "hostLoad")
  /\ UNCHANGED <<disk, cur, job, back, kept, handoff>>

HostGivesUp(p) ==
  /\ pc[p] = "hostRetry"
  /\ Goto(p, "errExit")
  /\ UNCHANGED <<disk, cur, snap, job, back, kept, handoff>>

HostStep(p) ==
  \/ HostStart(p) \/ HostAckBegins(p) \/ HostAckEnds(p)
  \/ HostLoad(p) \/ HostLock(p) \/ HostRetries(p) \/ HostGivesUp(p)

-----------------------------------------------------------------------------
BackgroundInit ==
  /\ Init
  /\ intent = {}
  /\ ack = [s \in Sessions |-> "none"]

\* The steps that a background invocation shares with a foreground one.
UnchangedHandoff(step) == step /\ UNCHANGED handoff

BackgroundNext ==
  \E s \in Sessions :
    \/ s \notin Background /\ UnchangedHandoff(CliStep(s))
    \/ /\ s \in Background
       /\ \/ UnchangedHandoff(SharedStep(Cli(s)))
          \/ UnchangedHandoff(SelectionStep(Cli(s)))
          \/ UnchangedHandoff(Exit(Cli(s)))
          \/ UnchangedHandoff(Crash(Cli(s)))
          \/ InitiatorStep(Cli(s))
          \/ HostStep(Host(s))
          \/ UnchangedHandoff(SharedStep(Host(s)))
          \/ UnchangedHandoff(SuperviseStep(Host(s)))
          \/ UnchangedHandoff(Crash(Host(s)))
    \/ UnchangedHandoff(SharedStep(Runtime(s)))
    \/ UnchangedHandoff(RuntimeStep(Runtime(s)))

BackgroundSpec == BackgroundInit /\ [][BackgroundNext]_allVars

\* Processes are scheduled, handlers end, and deadlines pass: a loop that keeps
\* looking at the clock finds its deadline over at last.
FairBackgroundSpec ==
  /\ BackgroundSpec
  /\ \A s \in Sessions \ Background :
       WF_allVars(UnchangedHandoff(SharedStep(Cli(s)) \/ SelectionStep(Cli(s))
                                   \/ SuperviseStep(Cli(s))))
  /\ \A s \in Background :
       /\ WF_allVars(\/ UnchangedHandoff(SharedStep(Cli(s)) \/ SelectionStep(Cli(s))
                                         \/ Exit(Cli(s)))
                     \/ InitiatorStep(Cli(s)))
       /\ WF_allVars(\/ UnchangedHandoff(SharedStep(Host(s)) \/ SuperviseStep(Host(s)))
                     \/ HostStep(Host(s)))
       /\ SF_allVars(DeadlinePasses(Cli(s))) /\ SF_allVars(HostGivesUp(Host(s)))
  /\ \A s \in Sessions :
       /\ WF_allVars(UnchangedHandoff(SharedStep(Runtime(s)) \/ Bind(Runtime(s))
                     \/ BindLease(Runtime(s)) \/ InspectionDrop(Runtime(s))))
       /\ SF_allVars(UnchangedHandoff(HandlerReturns(Runtime(s)) \/ RuntimeExits(Runtime(s))))

-----------------------------------------------------------------------------
(* Safety.                                                                 *)

\* The steps of a host that does not own the session yet.
HostSteps ==
  {"hostStart", "hostAck", "hostAckWrite", "hostLoad", "hostLock", "hostRetry"}

\* An initiator that reports a failed hand-over has left nothing behind: its
\* host is gone and no runtime executes the session, whichever of deadline,
\* acknowledgement, kill and lease came first.
FailedHandoffRunsNothing ==
  \A s \in Background :
    pc[Cli(s)] = "err" => ~HostAlive(s) /\ ~RuntimeAlive(s)

\* Initiator and host never act for the session at the same time: a host that
\* is past the lease, with or without its runtime, has an initiator that gave
\* the session up for good.
OneSupervisor ==
  \A s \in Background :
    HostAlive(s) /\ pc[Host(s)] \notin HostSteps \cup {"errExit"} =>
      pc[Cli(s)] \in {"released", "okExit", "ok", "crashed"}

\* Whoever supervises a session reports success only for a succeeded record
\* and a runtime that exited with zero.
SupervisorOutcomeSound ==
  \A s \in Sessions :
    pc[Supervisor(s)] \in {"okExit", "ok"} =>
      record[s].state = "succeeded" /\ pc[Runtime(s)] = "exit0"

-----------------------------------------------------------------------------
(* The ledger of the sessions, as the documents and the processes show it. *)

\* The states the record r went through: one per revision.
History(r) ==
  IF r = NoRecord THEN <<>>
  ELSE [i \in 1 .. r.rev + 1 |->
          IF i = r.rev + 1 THEN r.state
          ELSE IF i = 1 THEN "prepared"
          ELSE IF i = 2 /\ r.started THEN "running" ELSE "failed"]

\* Whether the handler of s is still to run, at work, or will not run any more.
HandlerOf(s) ==
  LET r == Runtime(s) IN
  IF s \in orphaned THEN "over"
  ELSE IF pc[r] \in {"handler", "handlerDrop"} THEN "working"
  ELSE IF \/ pc[r] \in {"off", "bind", "bindLease"}
          \/ pc[r] \in {"txLoad", "txWrite", "txSummary"} /\ job[r].done = "handler"
       THEN "waiting" ELSE "over"

Ledger == INSTANCE SessionLedger WITH
  ledger    <- [s \in Sessions |->
                  IF s \in orphaned THEN <<"lost">> ELSE History(record[s])],
  told      <- IF summary = NoSummary
               THEN [session |-> "none", entry |-> 0, state |-> "none"]
               ELSE IF summary.session \in orphaned
               THEN [session |-> summary.session, entry |-> 1, state |-> "lost"]
               ELSE [session |-> summary.session, entry |-> summary.rev + 1,
                     state |-> summary.state],
  handler   <- [s \in Sessions |-> HandlerOf(s)],
  confirmed <- {s \in Sessions : pc[Supervisor(s)] = "ok"}

\* The documents of all sessions, their handlers and the reports of their
\* supervisors keep the ledger, whatever overlaps, fails, is killed or is handed
\* over (session/transition.rs, session/binding.rs, data/outcome.rs).
KeepsLedger == Ledger!Spec

\* A root summary, however late or repeated its write, tells a state its session
\* was in at that revision (store.rs, rebuild_status_from_record and transition).
SummaryWasTrue ==
  LET s == summary.session IN
  summary # NoSummary /\ s \notin orphaned =>
    /\ summary.rev + 1 \in DOMAIN History(record[s])
    /\ History(record[s])[summary.rev + 1] = summary.state

\* While a handler works nobody moves its session on: neither a supervisor, nor a
\* stale reconciliation, nor an abandonment (runner.rs, session/lease.rs).
HandlerOnlyWhileRunning ==
  \A s \in Sessions : HandlerOf(s) = "working" => record[s].state = "running"

-----------------------------------------------------------------------------
(* Liveness, under FairBackgroundSpec.                                     *)

\* Neither waits for the other for ever: initiator and host end.
HandoffEnds ==
  \A s \in Background :
    <>(pc[Cli(s)] \in Ended /\ pc[Host(s)] \in Ended \cup {"off"})

\* The host has the lease and acts for the session, until it returns.
HostOwns(s) == HostAlive(s) /\ pc[Host(s)] \notin HostSteps \cup {"errExit"}

\* The host returns without the lease, for which it waited until its deadline.
HostGaveUp(s) == pc[Host(s)] = "errExit" /\ snap[Host(s)] # NoRecord

\* Unless initiator or host is killed or a write fails, a session whose hand-over
\* began is failed by its initiator, or taken over by the host, or given up by a
\* host from which the initiator, or a reconciler, kept the lease until its
\* deadline; and a session the host has taken over gets a terminal record,
\* however its runtime ends, unless waiting for the runtime failed and its fate
\* is unknown (execute_background_data_with_re_executor_and_timing,
\* execute_operator_host_with_launcher).
HandoffResolves ==
  \A s \in Background :
    /\ pc[Cli(s)] = "spawnHost" ~>
         record[s].state \in Terminal \/ HostOwns(s) \/ HostGaveUp(s)
    /\ HostOwns(s) ~>
         record[s].state \in Terminal \/ pc[Host(s)] = "uncertain"

=============================================================================
