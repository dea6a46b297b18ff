----------------------- MODULE ChildSupervision_proofs -----------------------
(***************************************************************************)
(* Proofs about ChildSupervision, for any streams, recorders and limits:   *)
(* a captured output is complete, an outcome is true of the process tree,  *)
(* and a cancellation is neither lost nor passed on as another one.        *)
(***************************************************************************)
EXTENDS ChildSupervision, TLAPS

BossPCs ==
  {"poll", "kill", "reap", "join", "take", "look", "grace", "force", "done"}

StreamRecords ==
  [written : Nat, unread : Nat, kept : Nat, truncated : BOOLEAN,
   drain : {"reading", "ended", "failed"}]

\* The types of the supervisor.
BossRecords ==
  [job : {"probe", "wait"}, pc : BossPCs, failed : BOOLEAN,
   timedOut : BOOLEAN, kind : Kinds \cup {None},
   outcome : ProbeOutcomes \cup WaitOutcomes \cup {None}]

Types ==
  /\ child \in {"running", "zero", "nonzero", "killed"}
  /\ helper \in {"none", "running", "gone"}
  /\ streams \in [Streams -> StreamRecords]
  /\ boss \in BossRecords
  /\ cancel \in [slot : Kinds \cup {None}, flag : BOOLEAN,
                 lock : Recorders \cup {None}, last : Kinds \cup {None},
                 done : SUBSET Recorders]

\* What was written to a stream is kept or unread, unless it was truncated or
\* could not be read; the stream ends with its last writer.
StreamInv(s) ==
  LET at == streams[s] IN
  /\ at.drain # "failed" =>
       \/ at.truncated
       \/ at.kept + at.unread = at.written
  /\ at.drain = "ended" => at.unread = 0 /\ ~ ChildLives /\ ~ HelperLives

\* A capture was answered when every stream had ended.
Answered ==
  boss.outcome = "captured" =>
    /\ child = "zero"
    /\ \A s \in Streams : streams[s].drain = "ended" /\ ~ streams[s].truncated

\* A cancellation in the slot has somebody who will look there, and is the one
\* recorded last.
Pending ==
  cancel.slot # None =>
    /\ cancel.flag \/ cancel.lock # None \/ At("take")
    /\ cancel.slot = cancel.last

IInv ==
  /\ Types
  /\ \A s \in Streams : StreamInv(s)
  /\ Answered
  /\ OutcomeMatchesTree
  /\ Pending

LEMMA InitInv == Init => IInv
  <1> SUFFICES ASSUME Init PROVE IInv
    OBVIOUS
  <1>1. /\ child = "running" /\ helper = "none"
        /\ boss.outcome = None /\ cancel.slot = None
        /\ boss \in BossRecords
    BY DEF Init, BossRecords, BossPCs
  <1>2. cancel \in [slot : Kinds \cup {None}, flag : BOOLEAN,
                   lock : Recorders \cup {None}, last : Kinds \cup {None},
                   done : SUBSET Recorders]
    BY DEF Init
  <1>3. streams \in [Streams -> StreamRecords]
    BY DEF Init, StreamRecords
  <1>4. ASSUME NEW s \in Streams PROVE StreamInv(s)
    <2>1. streams[s] = [written |-> 0, unread |-> 0, kept |-> 0,
                        truncated |-> FALSE, drain |-> "reading"]
      BY DEF Init
    <2>2. QED
      BY <2>1 DEF StreamInv
  <1>5. None # "captured" /\ None \notin {"completed", "graceful", "forced"}
    BY SupervisionAssumption DEF ProbeOutcomes, WaitOutcomes
  <1>6. Answered /\ OutcomeMatchesTree /\ Pending
    BY <1>1, <1>5 DEF Answered, OutcomeMatchesTree, Pending
  <1>7. QED
    BY <1>1, <1>2, <1>3, <1>4, <1>6 DEF IInv, Types

\* A step that leaves the streams alone, starts no process and says nothing.
LEMMA SilentStep ==
  ASSUME IInv, UNCHANGED streams, boss'.outcome = boss.outcome,
         ChildLives' => ChildLives, HelperLives' => HelperLives \/ ChildLives,
         ~ ChildLives => UNCHANGED child
  PROVE  (\A s \in Streams : StreamInv(s)') /\ Answered' /\ OutcomeMatchesTree'
  <1>1. ASSUME NEW s \in Streams PROVE StreamInv(s)'
    BY DEF IInv, StreamInv
  <1>2. Answered'
    BY DEF IInv, Answered, ChildLives
  <1>3. OutcomeMatchesTree'
    BY DEF IInv, OutcomeMatchesTree
  <1>4. QED
    BY <1>1, <1>2, <1>3

\* Counting in a stream.
LEMMA StreamCounts ==
  ASSUME NEW at \in StreamRecords, NEW n \in Nat, NEW m \in Nat
  PROVE  /\ [at EXCEPT !.written = n, !.unread = m] \in StreamRecords
         /\ [at EXCEPT !.unread = n, !.kept = m] \in StreamRecords
         /\ [at EXCEPT !.unread = n, !.truncated = TRUE] \in StreamRecords
  BY DEF StreamRecords

\* A step of a stream: nothing changes but that stream, which has not ended.
LEMMA StreamStep ==
  ASSUME IInv, NEW s \in Streams, NEW new \in StreamRecords,
         streams[s].drain = "reading",
         streams' = [streams EXCEPT ![s] = new],
         UNCHANGED <<child, helper, boss, cancel>>,
         StreamInv(s)'
  PROVE  IInv'
  <1>1. Types'
    BY DEF IInv, Types
  <1>2. ASSUME NEW t \in Streams PROVE StreamInv(t)'
    <2>1. CASE t = s
      BY <2>1
    <2>2. CASE t # s
      BY <2>2 DEF IInv, Types, StreamInv, ChildLives, HelperLives
    <2>3. QED
      BY <2>1, <2>2
  <1>3. Answered'
    BY DEF IInv, Types, Answered
  <1>4. OutcomeMatchesTree' /\ Pending'
    BY DEF IInv, OutcomeMatchesTree, Pending, ChildLives, HelperLives, At
  <1>5. QED
    BY <1>1, <1>2, <1>3, <1>4 DEF IInv

LEMMA WritesStep ==
  ASSUME IInv, NEW s \in Streams, Writes(s)
  PROVE  IInv'
  <1>1. CASE streams[s].drain = "reading"
    <2> DEFINE new == [streams[s] EXCEPT !.written = @ + 1, !.unread = 1]
    <2>1. streams' = [streams EXCEPT ![s] = new] /\ new \in StreamRecords
      BY <1>1 DEF IInv, Types, StreamRecords, Writes
    <2>2. StreamInv(s)'
      BY <1>1, <2>1 DEF IInv, Types, StreamRecords, StreamInv, Writes
    <2>3. QED
      BY <1>1, <2>1, <2>2, StreamStep DEF Writes
  <1>2. CASE streams[s].drain = "failed"
    <2> DEFINE new == [streams[s] EXCEPT !.written = @ + 1, !.unread = 0]
    <2>0. streams' = [streams EXCEPT ![s] = new] /\ new \in StreamRecords
      <3>1. streams[s] \in StreamRecords
        BY DEF IInv, Types
      <3>2. new \in StreamRecords
        <4>1. streams[s].written + 1 \in Nat
          BY <3>1 DEF StreamRecords
        <4>2. QED
          BY <3>1, <4>1, StreamCounts
      <3>3. streams' = [streams EXCEPT ![s] = new]
        BY <1>2 DEF Writes
      <3>4. QED
        BY <3>2, <3>3
    <2>1. Types'
      <3> HIDE DEF new
      <3>1. streams' \in [Streams -> StreamRecords]
        BY <2>0 DEF IInv, Types
      <3>2. QED
        BY <3>1 DEF IInv, Types, Writes
    <2>2. ASSUME NEW t \in Streams PROVE StreamInv(t)'
      BY <1>2, <2>2
      DEF IInv, Types, StreamRecords, StreamInv, Writes, ChildLives, HelperLives
    <2>3. Answered' /\ OutcomeMatchesTree' /\ Pending'
      BY <1>2
      DEF IInv, Types, StreamRecords, Answered, OutcomeMatchesTree, Pending,
          Writes, ChildLives, HelperLives, At
    <2>4. QED
      BY <2>1, <2>2, <2>3 DEF IInv
  <1>3. streams[s].drain # "ended"
    BY DEF IInv, StreamInv, Writes
  <1>4. QED
    BY <1>1, <1>2, <1>3 DEF IInv, Types, StreamRecords

LEMMA DrainStep ==
  ASSUME IInv, NEW s \in Streams, Drain(s) \/ DrainEnds(s) \/ DrainFails(s)
  PROVE  IInv'
  <1>1. CASE Drain(s)
    <2>1. /\ streams[s] \in StreamRecords /\ streams[s].drain = "reading"
          /\ streams[s].unread \in Nat \ {0} /\ streams[s].kept \in Nat
      BY <1>1 DEF IInv, Types, StreamRecords, Drain
    <2>2. CASE streams[s].kept < Limit
      <3> DEFINE new == [streams[s] EXCEPT !.unread = @ - 1, !.kept = @ + 1]
      <3>1. streams' = [streams EXCEPT ![s] = new] /\ new \in StreamRecords
        BY <1>1, <2>1, <2>2, SupervisionAssumption
        DEF IInv, Types, StreamRecords, Drain
      <3>2. StreamInv(s)'
        BY <2>1, <3>1 DEF IInv, Types, StreamRecords, StreamInv
      <3>3. QED
        BY <1>1, <2>1, <3>1, <3>2, StreamStep DEF Drain
    <2>3. CASE streams[s].kept >= Limit
      <3> DEFINE new == [streams[s] EXCEPT !.unread = @ - 1, !.truncated = TRUE]
      <3>0. new \in StreamRecords
        <4>1. streams[s].unread - 1 \in Nat
          BY <2>1
        <4>2. QED
          BY <2>1, <4>1, StreamCounts
      <3>1. streams' = [streams EXCEPT ![s] = new] /\ new \in StreamRecords
        <4>1. streams' = [streams EXCEPT ![s].unread = @ - 1, ![s].truncated = TRUE]
          BY <1>1, <2>1, <2>3, SupervisionAssumption DEF Drain
        <4>2. streams' = [streams EXCEPT ![s] = new]
          BY <4>1 DEF IInv, Types
        <4>3. QED
          BY <3>0, <4>2
      <3>2. StreamInv(s)'
        BY <2>1, <3>1 DEF IInv, Types, StreamRecords, StreamInv
      <3>3. QED
        BY <1>1, <2>1, <3>1, <3>2, StreamStep DEF Drain
    <2>4. QED
      BY <1>1, <2>2, <2>3 DEF Drain
  <1>2. CASE DrainEnds(s)
    <2> DEFINE new == [streams[s] EXCEPT !.drain = "ended"]
    <2>1. streams' = [streams EXCEPT ![s] = new] /\ new \in StreamRecords
      BY <1>2 DEF IInv, Types, StreamRecords, DrainEnds
    <2>2. StreamInv(s)'
      BY <1>2, <2>1
      DEF IInv, Types, StreamRecords, StreamInv, DrainEnds, ChildLives, HelperLives
    <2>3. QED
      BY <1>2, <2>1, <2>2, StreamStep DEF DrainEnds
  <1>3. CASE DrainFails(s)
    <2> DEFINE new == [streams[s] EXCEPT !.drain = "failed", !.unread = 0]
    <2>1. streams' = [streams EXCEPT ![s] = new] /\ new \in StreamRecords
      BY <1>3 DEF IInv, Types, StreamRecords, DrainFails
    <2>2. StreamInv(s)'
      BY <1>3, <2>1 DEF IInv, Types, StreamRecords, StreamInv, DrainFails
    <2>3. QED
      BY <1>3, <2>1, <2>2, StreamStep DEF DrainFails
  <1>4. QED
    BY <1>1, <1>2, <1>3

\* What the processes and the clock do.
LEMMA TreeStep ==
  ASSUME IInv, Forks \/ Exits \/ HelperExits \/ Expire
  PROVE  IInv'
  <1>1. UNCHANGED <<streams, boss, cancel>>
    BY DEF Forks, Exits, HelperExits, Expire
  <1>2. Types'
    BY DEF IInv, Types, Forks, Exits, HelperExits, Expire
  <1>3. /\ ChildLives' => ChildLives
        /\ HelperLives' => HelperLives \/ ChildLives
        /\ ~ ChildLives => UNCHANGED child
    BY DEF Forks, Exits, HelperExits, Expire, ChildLives, HelperLives
  <1>4. Pending'
    BY <1>1 DEF IInv, Pending, At
  <1>5. QED
    BY <1>1, <1>2, <1>3, <1>4, SilentStep DEF IInv

LEMMA ProbeStep ==
  ASSUME IInv, PollChild \/ KillGroup \/ Reap
  PROVE  IInv'
  <1>1. /\ UNCHANGED <<streams, cancel>>
        /\ boss'.outcome = boss.outcome
    BY DEF IInv, Types, BossRecords, PollChild, KillGroup, Reap, Goto
  <1>2. Types'
    BY DEF IInv, Types, BossRecords, BossPCs, PollChild, KillGroup, Reap, Goto, Kills
  <1>3. /\ ChildLives' => ChildLives
        /\ HelperLives' => HelperLives \/ ChildLives
        /\ ~ ChildLives => UNCHANGED child
    BY DEF PollChild, KillGroup, Reap, Kills, ChildLives, HelperLives
  <1>4. Pending'
    BY <1>1 DEF IInv, Pending, At, PollChild, KillGroup, Reap
  <1>5. QED
    BY <1>1, <1>2, <1>3, <1>4, SilentStep DEF IInv

LEMMA JoinStep ==
  ASSUME IInv, Join
  PROVE  IInv'
  <1> DEFINE answer == CASE boss.timedOut     -> "timeout"
                         [] boss.failed       -> "wait_error"
                         [] Some("failed")    -> "read_error"
                         [] Truncated         -> "too_large"
                         [] child # "zero"    -> "exit_error"
                         [] OTHER             -> "captured"
  <1>1. /\ boss.pc = "join" /\ ~ Some("reading") /\ End(answer)
        /\ UNCHANGED <<child, helper, streams, late, cancel>>
    BY DEF Join, At
  <1>2. answer \in ProbeOutcomes
    BY DEF ProbeOutcomes
  <1>3. answer = "captured" => ~ Some("failed") /\ ~ Truncated /\ child = "zero"
    OBVIOUS
  <1> HIDE DEF answer
  <1>4. Types' /\ boss'.outcome = answer
    BY <1>1, <1>2 DEF IInv, Types, BossRecords, BossPCs, End
  <1>5. ASSUME NEW s \in Streams PROVE StreamInv(s)'
    BY <1>1 DEF IInv, StreamInv, ChildLives, HelperLives
  <1>6. Answered'
    BY <1>1, <1>3, <1>4 DEF IInv, Types, StreamRecords, Some, Truncated, Answered
  <1>7. OutcomeMatchesTree'
    BY <1>2, <1>4 DEF OutcomeMatchesTree, ProbeOutcomes
  <1>8. Pending'
    BY <1>1 DEF IInv, Pending, At
  <1>9. QED
    BY <1>4, <1>5, <1>6, <1>7, <1>8 DEF IInv

LEMMA CancelStep ==
  ASSUME IInv, Swap \/ Take \/ \E r \in Recorders : Record(r)
  PROVE  IInv'
  <1>1. /\ UNCHANGED <<child, helper, streams>>
        /\ boss'.outcome = boss.outcome
    BY DEF IInv, Types, BossRecords, Swap, Take, Record, Goto
  <1>2. Types'
    <2>1. CASE Swap
      BY <2>1 DEF IInv, Types, BossRecords, BossPCs, Swap, Goto
    <2>2. CASE Take
      <3>1. cancel' = [cancel EXCEPT !.slot = None] /\ UNCHANGED <<child, helper, streams>>
        BY <2>2 DEF Take
      <3>2. boss' \in BossRecords
        <4>1. CASE cancel.slot = None
          BY <2>2, <4>1 DEF IInv, Types, BossRecords, BossPCs, Take, Goto
        <4>2. CASE cancel.slot # None
          <5>1. boss' = [boss EXCEPT !.pc = "grace", !.kind = cancel.slot]
            BY <2>2, <4>2 DEF Take
          <5>2. boss \in BossRecords /\ cancel.slot \in Kinds \cup {None}
            BY DEF IInv, Types
          <5>3. "grace" \in BossPCs
            BY DEF BossPCs
          <5> QED
            BY <5>1, <5>2, <5>3 DEF BossRecords
        <4>3. QED
          BY <4>1, <4>2
      <3>3. QED
        BY <3>1, <3>2 DEF IInv, Types
    <2>3. CASE \E r \in Recorders : Record(r)
      <3>1. PICK r \in Recorders : Record(r)
        BY <2>3
      <3>2. CASE \E kind \in Kinds : cancel' = [cancel EXCEPT !.slot = kind,
                                        !.last = kind, !.lock = r]
        BY <3>1, <3>2 DEF IInv, Types, Record
      <3>3. CASE cancel' = [cancel EXCEPT !.flag = TRUE, !.lock = None,
                                          !.done = @ \cup {r}]
        <4>1. cancel'.done = cancel.done \cup {r} /\ cancel.done \cup {r} \subseteq Recorders
          BY <3>3 DEF IInv, Types
        <4>2. QED
          BY <3>1, <3>3, <4>1 DEF IInv, Types, Record
      <3>4. QED
        BY <3>1, <3>2, <3>3 DEF Record
    <2>4. QED
      BY <2>1, <2>2, <2>3
  <1>3. Pending'
    <2>1. CASE Swap
      BY <2>1 DEF IInv, Types, BossRecords, Pending, At, Swap, Goto
    <2>2. CASE Take
      BY <2>2 DEF IInv, Types, BossRecords, Pending, Take
    <2>3. CASE \E r \in Recorders : Record(r)
      <3>1. PICK r \in Recorders : Record(r)
        BY <2>3
      <3>2. cancel'.slot # None => cancel'.flag \/ cancel'.lock # None \/ At("take")'
        BY <3>1, SupervisionAssumption DEF IInv, Types, Pending, At, Record
      <3>3. cancel'.slot # None => cancel'.slot = cancel'.last
        BY <3>1 DEF IInv, Types, Pending, Record
      <3>4. QED
        BY <3>2, <3>3 DEF Pending
    <2>4. QED
      BY <2>1, <2>2, <2>3
  <1>4. QED
    BY <1>1, <1>2, <1>3, SilentStep DEF IInv, ChildLives, HelperLives

\* An end that is not a capture, and true of the processes, disturbs nothing.
LEMMA EndStep ==
  ASSUME IInv, UNCHANGED <<streams, cancel>>, Types', ~ At("take"),
         boss'.outcome # "captured", OutcomeMatchesTree',
         ChildLives' => ChildLives, HelperLives' => HelperLives
  PROVE  IInv'
  <1>1. ASSUME NEW s \in Streams PROVE StreamInv(s)'
    BY DEF IInv, StreamInv
  <1>2. Answered'
    BY DEF Answered
  <1>3. Pending'
    BY DEF IInv, Pending
  <1>4. QED
    BY <1>1, <1>2, <1>3 DEF IInv

LEMMA LookStep ==
  ASSUME IInv, Look
  PROVE  IInv'
  <1>1. boss.pc = "look" /\ UNCHANGED <<child, helper, streams, late, cancel>>
    BY DEF Look, At
  <1>2. CASE ~ ChildLives /\ End("completed")
    <2>1. Types' /\ boss'.outcome = "completed"
      BY <1>1, <1>2 DEF IInv, Types, BossRecords, BossPCs, End, WaitOutcomes
    <2>2. QED
      BY <1>1, <1>2, <2>1, EndStep DEF At, OutcomeMatchesTree, ChildLives, HelperLives
  <1>3. CASE End("uncertain")
    <2>1. Types' /\ boss'.outcome = "uncertain"
      BY <1>1, <1>3 DEF IInv, Types, BossRecords, BossPCs, End, WaitOutcomes
    <2>2. QED
      BY <1>1, <2>1, EndStep DEF At, OutcomeMatchesTree, ChildLives, HelperLives
  <1>4. CASE Goto("poll")
    <2>1. Types' /\ boss'.outcome = boss.outcome
      BY <1>1, <1>4 DEF IInv, Types, BossRecords, BossPCs, Goto
    <2>2. Pending'
      BY <1>1 DEF IInv, Pending, At
    <2>3. QED
      BY <1>1, <2>1, <2>2, SilentStep DEF IInv, ChildLives, HelperLives
  <1>5. QED
    BY <1>2, <1>3, <1>4 DEF Look

LEMMA GraceStep ==
  ASSUME IInv, Grace
  PROVE  IInv'
  <1>1. boss.pc = "grace" /\ UNCHANGED <<child, helper, streams, late, cancel>>
    BY DEF Grace, At
  <1>2. CASE ~ ChildLives /\ End("graceful")
    <2>1. Types' /\ boss'.outcome = "graceful"
      BY <1>1, <1>2 DEF IInv, Types, BossRecords, BossPCs, End, WaitOutcomes
    <2>2. QED
      BY <1>1, <1>2, <2>1, EndStep DEF At, OutcomeMatchesTree, ChildLives, HelperLives
  <1>3. CASE Goto("force")
    <2>1. Types' /\ boss'.outcome = boss.outcome
      BY <1>1, <1>3 DEF IInv, Types, BossRecords, BossPCs, Goto
    <2>2. Pending'
      BY <1>1 DEF IInv, Pending, At
    <2>3. QED
      BY <1>1, <2>1, <2>2, SilentStep DEF IInv, ChildLives, HelperLives
  <1>4. QED
    BY <1>2, <1>3 DEF Grace

LEMMA ForceStep ==
  ASSUME IInv, ForceTerminate
  PROVE  IInv'
  <1>1. boss.pc = "force" /\ UNCHANGED <<streams, late, cancel>>
    BY DEF ForceTerminate, At
  <1>2. ~ ChildLives' /\ ~ HelperLives'
    BY DEF ForceTerminate, Kills, ChildLives, HelperLives
  <1>3. Types' /\ boss'.outcome = "forced"
    BY <1>1
    DEF IInv, Types, BossRecords, BossPCs, ForceTerminate, Kills, End, WaitOutcomes
  <1>4. QED
    BY <1>1, <1>2, <1>3, EndStep DEF At, OutcomeMatchesTree

\* A failing system: the probe goes on, the wait loop ends with the error.
LEMMA OsFailsStep ==
  ASSUME IInv, OsFails
  PROVE  IInv'
  <1>1. UNCHANGED <<child, helper, streams, late, cancel>>
    BY DEF OsFails
  <1>2. CASE /\ boss.pc \in {"poll", "kill", "reap"}
             /\ boss' = [boss EXCEPT !.pc = IF @ = "kill" THEN "reap" ELSE "join",
                                     !.failed = TRUE]
    <2>1. Types' /\ boss'.outcome = boss.outcome
      BY <1>1, <1>2 DEF IInv, Types, BossRecords, BossPCs
    <2>2. Pending'
      BY <1>1, <1>2 DEF IInv, Pending, At
    <2>3. QED
      BY <1>1, <2>1, <2>2, SilentStep DEF IInv, ChildLives, HelperLives
  <1>3. CASE boss.pc \in {"look", "grace", "force"} /\ End("error")
    <2>1. Types' /\ boss'.outcome = "error"
      BY <1>1, <1>3 DEF IInv, Types, BossRecords, BossPCs, End, WaitOutcomes
    <2>2. QED
      BY <1>1, <1>3, <2>1, EndStep DEF At, OutcomeMatchesTree, ChildLives, HelperLives
  <1>4. QED
    BY <1>2, <1>3 DEF OsFails

LEMMA InductiveStep == IInv /\ [Next]_vars => IInv'
  <1> SUFFICES ASSUME IInv, [Next]_vars PROVE IInv'
    OBVIOUS
  <1>1. CASE Forks \/ Exits \/ HelperExits \/ Expire
    BY <1>1, TreeStep
  <1>2. CASE PollChild \/ KillGroup \/ Reap
    BY <1>2, ProbeStep
  <1>3. CASE Join
    BY <1>3, JoinStep
  <1>4. CASE Swap \/ Take \/ \E r \in Recorders : Record(r)
    BY <1>4, CancelStep
  <1>5. CASE Look \/ Grace \/ ForceTerminate \/ OsFails
    BY <1>5, LookStep, GraceStep, ForceStep, OsFailsStep
  <1>6. CASE \E s \in Streams : Writes(s) \/ Drainer(s) \/ DrainFails(s)
    BY <1>6, WritesStep, DrainStep DEF Drainer
  <1>7. CASE UNCHANGED vars
    BY <1>7
    DEF vars, IInv, Types, StreamInv, Answered, OutcomeMatchesTree, Pending,
        ChildLives, HelperLives, At
  <1>8. QED
    BY <1>1, <1>2, <1>3, <1>4, <1>5, <1>6, <1>7 DEF Next, Supervise

\* The inductive invariant holds in every reachable state.
THEOREM Invariance == Spec => []IInv
  BY InitInv, InductiveStep, PTL DEF Spec

\* What a probe returns is everything that was written, of a process tree that
\* has ended with success (execute_runtime_information_probe), for any number
\* of streams and any limit.
THEOREM CapturesAreComplete == Spec => []CaptureComplete
  <1>1. IInv => CaptureComplete
    <2> SUFFICES ASSUME IInv, boss.outcome = "captured"
                 PROVE  /\ child = "zero" /\ ~ HelperLives
                        /\ \A s \in Streams : streams[s].kept = streams[s].written
      BY DEF CaptureComplete
    <2>1. child = "zero" /\ \A s \in Streams : streams[s].drain = "ended"
                                               /\ ~ streams[s].truncated
      BY DEF IInv, Answered
    <2>2. ASSUME NEW s \in Streams
          PROVE  streams[s].kept = streams[s].written /\ ~ HelperLives
      BY <2>1 DEF IInv, Types, StreamRecords, StreamInv
    <2>3. QED
      BY <2>1, <2>2, SupervisionAssumption
  <1>2. QED
    BY <1>1, Invariance, PTL

\* An end that the wait loop reports is true of the process, and after a forced
\* end of the whole group (wait_with_cancellation, force_terminate_tree).
THEOREM OutcomesMatch == Spec => []OutcomeMatchesTree
  <1>1. IInv => OutcomeMatchesTree
    BY DEF IInv
  <1>2. QED
    BY <1>1, Invariance, PTL

\* No recorded cancellation is left where nobody will look, and the kind passed
\* on is the one recorded last (CancellationState::record and poll), for any
\* number of concurrent recorders.
THEOREM CancellationsArrive == Spec => NoCancellationLost
  <1> DEFINE Waiting ==
        cancel.slot # None => cancel.flag \/ cancel.lock # None \/ At("take")
      Faithful == boss'.kind # boss.kind => boss'.kind = cancel.last
  <1>1. IInv => Waiting
    BY DEF IInv, Pending
  <1>2. IInv /\ [Next]_vars => [Faithful]_vars
    <2> SUFFICES ASSUME IInv, Next PROVE Faithful
      OBVIOUS
    <2>1. CASE Take
      BY <2>1 DEF IInv, Types, BossRecords, Pending, Take, Goto
    <2>2. CASE ~ Take
      BY <2>2
      DEF IInv, Types, BossRecords, Next, Supervise, Drainer, Forks, Exits, HelperExits, Expire,
          PollChild, KillGroup, Reap, Join, Swap, Look, Grace, ForceTerminate, OsFails,
          Writes, Drain, DrainEnds, DrainFails, Record, Goto, End
    <2>3. QED
      BY <2>1, <2>2
  <1> HIDE DEF Waiting, Faithful
  <1>3. Spec => []Waiting /\ [][Faithful]_vars
    BY <1>1, <1>2, Invariance, PTL DEF Spec
  <1>4. QED
    BY <1>3 DEF NoCancellationLost, Waiting, Faithful
=============================================================================
