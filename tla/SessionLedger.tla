---------------------------- MODULE SessionLedger ----------------------------
(***************************************************************************)
(* What the sessions of an operation promise, whoever selects, supervises, *)
(* reconciles and hands them over: the states a session goes through form  *)
(* a ledger that only grows, by legal moves; what is told of the sessions  *)
(* is an entry of a ledger; a handler runs at most once, while its session *)
(* is running and nothing moves it; and success is reported only of a      *)
(* session that succeeded.  BackgroundExecution implements it.             *)
(*                                                                         *)
(* The promise ends for a session whose runtime outlives its supervisor's  *)
(* lease: its ledger is lost from then on.                                 *)
(***************************************************************************)
EXTENDS Naturals, Sequences

CONSTANT Sessions

VARIABLES
  ledger,     \* per session: the states it went through
  told,       \* what is told of the sessions: an entry of a ledger
  handler,    \* per session: its handler is waiting, working or over
  confirmed   \* the sessions reported as successful

NothingTold == [session |-> "none", entry |-> 0, state |-> "none"]
Lost == <<"lost">>

\* The state of s, once it has been opened.
Last(s) == ledger[s][Len(ledger[s])]

Init ==
  /\ ledger = [s \in Sessions |-> <<>>]
  /\ told = NothingTold
  /\ handler = [s \in Sessions |-> "waiting"]
  /\ confirmed = {}

Open(s) ==
  /\ ledger[s] = <<>>
  /\ ledger' = [ledger EXCEPT ![s] = <<"prepared">>]
  /\ UNCHANGED <<told, handler, confirmed>>

\* Only failures are abandoned.
Follows(from, to) ==
  \/ from = "prepared" /\ to \in {"running", "failed"}
  \/ from = "running"  /\ to \in {"succeeded", "failed"}
  \/ from = "failed"   /\ to = "abandoned"

\* A session starts to run before its handler works and succeeds after it.
InTime(s, to) ==
  /\ handler[s] # "working"
  /\ to = "running"   => handler[s] = "waiting"
  /\ to = "succeeded" => handler[s] = "over"

Move(s, to) ==
  /\ ledger[s] # <<>> /\ Follows(Last(s), to) /\ InTime(s, to)
  /\ ledger' = [ledger EXCEPT ![s] = Append(@, to)]
  /\ UNCHANGED <<told, handler, confirmed>>

Telling(s, i) ==
  told' = [session |-> s, entry |-> i, state |-> ledger[s][i]]

\* What is told anew may be out of date, but it was true once.
Tell(s, i) ==
  /\ told' # told
  /\ i \in DOMAIN ledger[s] /\ Telling(s, i)
  /\ UNCHANGED <<ledger, handler, confirmed>>

\* The handler starts when it is told that its session runs.
Begin(s) ==
  /\ ledger[s] # <<>> /\ Last(s) = "running" /\ handler[s] = "waiting"
  /\ Telling(s, Len(ledger[s]))
  /\ handler' = [handler EXCEPT ![s] = "working"]
  /\ UNCHANGED <<ledger, confirmed>>

\* The handler ended, or it will never run.
Finish(s) ==
  /\ handler' = [handler EXCEPT ![s] = "over"]
  /\ UNCHANGED <<ledger, told, confirmed>>

Confirm(s) ==
  /\ ledger[s] # <<>> /\ Last(s) = "succeeded"
  /\ confirmed' = confirmed \cup {s}
  /\ UNCHANGED <<ledger, told, handler>>

Disown(s) ==
  /\ ledger[s] # <<>> /\ s \notin confirmed
  /\ ledger' = [ledger EXCEPT ![s] = Lost]
  /\ told' = IF told.session = s
             THEN [session |-> s, entry |-> 1, state |-> "lost"] ELSE told
  /\ handler' = [handler EXCEPT ![s] = "over"]
  /\ UNCHANGED confirmed

Next ==
  \E s \in Sessions :
    \/ Open(s) \/ Begin(s) \/ Finish(s) \/ Confirm(s) \/ Disown(s)
    \/ \E to \in {"running", "succeeded", "failed", "abandoned"} : Move(s, to)
    \/ \E i \in DOMAIN ledger[s] : Tell(s, i)

Spec == Init /\ [][Next]_<<ledger, told, handler, confirmed>>
=============================================================================
