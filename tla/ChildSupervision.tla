-------------------------- MODULE ChildSupervision --------------------------
(***************************************************************************)
(* How the framework supervises a child process.  The information probe    *)
(* (build/runtime_probe.rs) runs a runtime with piped output, drains both  *)
(* pipes in threads of their own, and kills the process group at a         *)
(* deadline.  The wait loop (process/mod.rs, process/cancellation.rs)      *)
(* polls a cancellation that other threads record, asks the group to stop, *)
(* and kills it when the grace period is over.  A behaviour is one such    *)
(* supervision of one child.                                               *)
(***************************************************************************)
EXTENDS Naturals

CONSTANTS
  Streams,     \* the piped outputs
  Recorders,   \* threads, each recording one cancellation
  Kinds,       \* kinds of cancellation
  Limit,       \* output kept of a stream
  MaxWritten,  \* bound: output written to a stream
  OsFaults,    \* whether waiting, reading and killing may fail
  None         \* no cancellation, a free lock, no outcome

\* How a probe and a wait loop end.
ProbeOutcomes ==
  {"captured", "timeout", "wait_error", "read_error", "too_large", "exit_error"}
WaitOutcomes == {"completed", "graceful", "forced", "uncertain", "error"}

ASSUME SupervisionAssumption ==
  /\ Streams # {}
  /\ Limit \in Nat \ {0} /\ MaxWritten \in Nat
  /\ OsFaults \in BOOLEAN
  /\ None \notin Kinds \cup Recorders \cup ProbeOutcomes \cup WaitOutcomes

VARIABLES
  child,    \* "running" or how it ended
  helper,   \* a process the child started, in its group and with its pipes
  streams,  \* per stream: written (history), unread, kept, truncated, drain
  late,     \* the deadline has passed
  boss,     \* the supervisor: job, control state, what it learned, outcome
  cancel    \* the cancellation slot, its flag and lock; last is history

vars == <<child, helper, streams, late, boss, cancel>>

Job(job) == boss.job = job
At(pc)   == boss.pc = pc
Goto(pc) == boss' = [boss EXCEPT !.pc = pc]
End(outcome) == boss' = [boss EXCEPT !.pc = "done", !.outcome = outcome]

ChildLives  == child = "running"
HelperLives == helper = "running"

Init ==
  /\ child = "running" /\ helper = "none"
  /\ streams = [s \in Streams |-> [written |-> 0, unread |-> 0, kept |-> 0,
                                   truncated |-> FALSE, drain |-> "reading"]]
  /\ late = FALSE
  /\ boss \in [job : {"probe", "wait"}, pc : {"poll"}, failed : {FALSE},
               timedOut : {FALSE}, kind : {None}, outcome : {None}]
  /\ cancel = [slot |-> None, flag |-> FALSE, lock |-> None, last |-> None,
               done |-> {}]

-----------------------------------------------------------------------------
(* The child and what it started                                           *)

\* A pipe holds one unit: who writes to a full one waits, who writes to one
\* nobody reads any more does not.
Writes(s) ==
  /\ Job("probe")
  /\ ChildLives \/ HelperLives
  /\ streams[s].unread = 0
  /\ streams[s].written < MaxWritten
  /\ streams' = [streams EXCEPT ![s].written = @ + 1,
                   ![s].unread = IF streams[s].drain = "failed" THEN 0 ELSE 1]
  /\ UNCHANGED <<child, helper, late, boss, cancel>>

Forks ==
  /\ ChildLives /\ helper = "none"
  /\ helper' = "running"
  /\ UNCHANGED <<child, streams, late, boss, cancel>>

Exits ==
  /\ ChildLives
  /\ child' \in {"zero", "nonzero"}
  /\ UNCHANGED <<helper, streams, late, boss, cancel>>

HelperExits ==
  /\ HelperLives
  /\ helper' = "gone"
  /\ UNCHANGED <<child, streams, late, boss, cancel>>

Expire ==
  /\ ~ late
  /\ late' = TRUE
  /\ UNCHANGED <<child, helper, streams, boss, cancel>>

\* A mutant: only the child is killed.
KillsChild ==
  /\ child' = IF ChildLives THEN "killed" ELSE child
  /\ UNCHANGED helper

\* SIGKILL to the group
Kills ==
  /\ child' = IF ChildLives THEN "killed" ELSE child
  /\ helper' = IF HelperLives THEN "gone" ELSE helper

-----------------------------------------------------------------------------
(* The drainer threads of the probe                                        *)

\* Reading goes on beyond the limit, keeping nothing.
Drain(s) ==
  /\ streams[s].drain = "reading" /\ streams[s].unread > 0
  /\ \/ /\ streams[s].kept < Limit
        /\ streams' = [streams EXCEPT ![s].unread = @ - 1, ![s].kept = @ + 1]
     \/ /\ streams[s].kept >= Limit
        /\ streams' = [streams EXCEPT ![s].unread = @ - 1, ![s].truncated = TRUE]
  /\ UNCHANGED <<child, helper, late, boss, cancel>>

\* The end of the stream comes when everybody who could write is gone.
DrainEnds(s) ==
  /\ streams[s].drain = "reading" /\ streams[s].unread = 0
  /\ ~ ChildLives /\ ~ HelperLives
  /\ streams' = [streams EXCEPT ![s].drain = "ended"]
  /\ UNCHANGED <<child, helper, late, boss, cancel>>

DrainFails(s) ==
  /\ OsFaults
  /\ streams[s].drain = "reading"
  /\ streams' = [streams EXCEPT ![s].drain = "failed", ![s].unread = 0]
  /\ UNCHANGED <<child, helper, late, boss, cancel>>

-----------------------------------------------------------------------------
(* The probe                                                               *)

\* try_wait until the child has ended or the deadline has passed
PollChild ==
  /\ Job("probe") /\ At("poll")
  /\ \/ ~ ChildLives /\ Goto("join")
     \/ ChildLives /\ late /\ boss' = [boss EXCEPT !.pc = "kill", !.timedOut = TRUE]
  /\ UNCHANGED <<child, helper, streams, late, cancel>>

KillGroup ==
  /\ Job("probe") /\ At("kill")
  /\ Kills
  /\ Goto("reap")
  /\ UNCHANGED <<streams, late, cancel>>

\* Waiting for the killed child
Reap ==
  /\ Job("probe") /\ At("reap")
  /\ ~ ChildLives
  /\ Goto("join")
  /\ UNCHANGED <<child, helper, streams, late, cancel>>

Some(drain)   == \E s \in Streams : streams[s].drain = drain
Truncated     == \E s \in Streams : streams[s].truncated

\* A mutant: what has been drained when the child ends is the answer.
JoinAtOnce ==
  /\ Job("probe") /\ At("join")
  /\ End(CASE boss.timedOut     -> "timeout"
           [] boss.failed       -> "wait_error"
           [] Some("failed")    -> "read_error"
           [] Truncated         -> "too_large"
           [] child # "zero"    -> "exit_error"
           [] OTHER             -> "captured")
  /\ UNCHANGED <<child, helper, streams, late, cancel>>

\* Both drainers are joined, then the first error counts.
Join ==
  /\ Job("probe") /\ At("join")
  /\ ~ Some("reading")
  /\ End(CASE boss.timedOut     -> "timeout"
           [] boss.failed       -> "wait_error"
           [] Some("failed")    -> "read_error"
           [] Truncated         -> "too_large"
           [] child # "zero"    -> "exit_error"
           [] OTHER             -> "captured")
  /\ UNCHANGED <<child, helper, streams, late, cancel>>

-----------------------------------------------------------------------------
(* Recording and polling a cancellation                                    *)

\* A mutant: neither under the lock, and the flag first.
RecordUnlocked(r) ==
  /\ Job("wait") /\ r \notin cancel.done
  /\ \/ ~ cancel.flag /\ cancel' = [cancel EXCEPT !.flag = TRUE]
     \/ \E kind \in Kinds :
          cancel' = [cancel EXCEPT !.slot = kind, !.last = kind, !.done = @ \cup {r}]
  /\ UNCHANGED <<child, helper, streams, late, boss>>

\* The slot, then the flag, both under the lock, for which a recorder waits.
\* The code says that signal handlers call this and that it never blocks, and
\* takes a mutex: a handler that interrupts the thread inside poll would wait
\* for ever.  So recorders are threads of their own here.
Record(r) ==
  /\ Job("wait") /\ r \notin cancel.done
  /\ \/ /\ cancel.lock = None
        /\ \E kind \in Kinds :
             cancel' = [cancel EXCEPT !.slot = kind, !.last = kind, !.lock = r]
     \/ /\ cancel.lock = r
        /\ cancel' = [cancel EXCEPT !.flag = TRUE, !.lock = None, !.done = @ \cup {r}]
  /\ UNCHANGED <<child, helper, streams, late, boss>>

\* poll: the flag is swapped without the lock.
Swap ==
  /\ Job("wait") /\ At("poll")
  /\ Goto(IF cancel.flag THEN "take" ELSE "look")
  /\ cancel' = [cancel EXCEPT !.flag = FALSE]
  /\ UNCHANGED <<child, helper, streams, late>>

\* Then the slot is taken under the lock; it may have been taken before.  A
\* kind is passed on to the group, and the grace period begins.
Take ==
  /\ Job("wait") /\ At("take")
  /\ cancel.lock = None
  /\ cancel' = [cancel EXCEPT !.slot = None]
  /\ IF cancel.slot = None
       THEN Goto("look") /\ UNCHANGED late
       ELSE /\ boss' = [boss EXCEPT !.pc = "grace", !.kind = cancel.slot]
            /\ late' = FALSE
  /\ UNCHANGED <<child, helper, streams>>

-----------------------------------------------------------------------------
(* The wait loop                                                           *)

\* No cancellation: the child has ended, or the budget is spent, or again.
Look ==
  /\ Job("wait") /\ At("look")
  /\ \/ ~ ChildLives /\ End("completed")
     \/ ChildLives /\ late /\ End("uncertain")
     \/ ChildLives /\ ~ late /\ Goto("poll")
  /\ UNCHANGED <<child, helper, streams, late, cancel>>

\* The child ends within the grace period, or is killed.
Grace ==
  /\ Job("wait") /\ At("grace")
  /\ \/ ~ ChildLives /\ End("graceful")
     \/ ChildLives /\ late /\ Goto("force")
  /\ UNCHANGED <<child, helper, streams, late, cancel>>

ForceTerminate ==
  /\ Job("wait") /\ At("force")
  /\ Kills
  /\ End("forced")
  /\ UNCHANGED <<streams, late, cancel>>

\* Waiting or killing fails: the probe goes on with what it has, the wait loop
\* returns the error.
OsFails ==
  /\ OsFaults
  /\ \/ /\ Job("probe") /\ boss.pc \in {"poll", "kill", "reap"}
        /\ boss' = [boss EXCEPT !.pc = IF @ = "kill" THEN "reap" ELSE "join",
                                !.failed = TRUE]
     \/ /\ Job("wait") /\ boss.pc \in {"look", "grace", "force"}
        /\ End("error")
  /\ UNCHANGED <<child, helper, streams, late, cancel>>

-----------------------------------------------------------------------------

Supervise == PollChild \/ KillGroup \/ Reap \/ Join \/ Swap \/ Take \/ Look
             \/ Grace \/ ForceTerminate

Drainer(s) == Drain(s) \/ DrainEnds(s)

Next ==
  \/ Forks \/ Exits \/ HelperExits \/ Expire
  \/ Supervise \/ OsFails
  \/ \E s \in Streams : Writes(s) \/ Drainer(s) \/ DrainFails(s)
  \/ \E r \in Recorders : Record(r)

Spec == Init /\ [][Next]_vars

\* Supervisor, drainers and recorders are threads that run, and time passes.
\* Neither the child nor what it started need ever end by itself.
Fairness ==
  /\ WF_vars(Supervise) /\ WF_vars(Expire)
  /\ \A s \in Streams : WF_vars(Drainer(s))
  /\ \A r \in Recorders : WF_vars(cancel.lock = r /\ Record(r))

FairSpec == Spec /\ Fairness

-----------------------------------------------------------------------------
(* Properties                                                              *)

\* What a probe returns is all that the process and everything it started has
\* written, of a process that ended with success and whose output nobody can
\* continue.
CaptureComplete ==
  boss.outcome = "captured" =>
    /\ child = "zero" /\ ~ HelperLives
    /\ \A s \in Streams : streams[s].kept = streams[s].written

\* A wait loop that reports an end reports it of a child that has ended, and
\* after a forced end nothing of its group is left.
OutcomeMatchesTree ==
  /\ boss.outcome \in {"completed", "graceful", "forced"} => ~ ChildLives
  /\ boss.outcome = "forced" => ~ HelperLives

\* A recorded cancellation waits to be polled: no interleaving of recordings
\* and polls leaves it in the slot without anybody who will look there.  The
\* kind that is passed on to the child is the one recorded last.
NoCancellationLost ==
  /\ [](cancel.slot # None => cancel.flag \/ cancel.lock # None \/ At("take"))
  /\ [][boss'.kind # boss.kind => boss'.kind = cancel.last]_vars

\* Both supervisions end, whatever the child does, unless the system refused
\* to wait or to kill, with one exception: a child that ended before the
\* deadline and left behind a process holding its pipes can keep the probe in
\* its join, which has no deadline (execute_runtime_information_probe), for as
\* long as that process lives.  The kill at the deadline leaves no such process.
SupervisionEnds ==
  \/ <>(At("done") \/ boss.failed)
  \/ <>[](Job("probe") /\ At("join") /\ HelperLives /\ ~ boss.timedOut)
=============================================================================
