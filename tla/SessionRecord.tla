---------------------------- MODULE SessionRecord ----------------------------
(***************************************************************************)
(* The durable session document of lexicon-core and its state machine:     *)
(* SessionRecordV1 (session/model.rs), the transition table                *)
(* (session/transition.rs), the effect of a transition and the invariants  *)
(* from_json enforces on every load.  Timestamps are kept as "is it set";  *)
(* the identity fields never change after creation and are left out.       *)
(***************************************************************************)
EXTENDS Naturals

States == {"prepared", "running", "succeeded", "failed", "abandoned"}

\* SessionState::is_terminal
Terminal == {"succeeded", "failed", "abandoned"}
Active   == States \ Terminal

\* What SafeSessionFailure tells apart here: who wrote the failure, and why.
Failures == {"stale", "launch", "abnormal", "source", "panic"}
None     == "none"

SessionRecords ==
  [state    : States,
   rev      : Nat,
   started  : BOOLEAN,
   finished : BOOLEAN,
   failure  : Failures \cup {None}]

\* No session.json on disk (SessionStoreError::MissingSession).
NoRecord ==
  [state |-> None, rev |-> 0, started |-> FALSE, finished |-> FALSE,
   failure |-> None]

NewPrepared ==
  [state |-> "prepared", rev |-> 0, started |-> FALSE, finished |-> FALSE,
   failure |-> None]

\* The transition table of validate_transition.
Legal(from, to) ==
  \/ from = "prepared" /\ to \in {"running", "failed", "abandoned"}
  \/ from = "running"  /\ to \in {"succeeded", "failed", "abandoned"}
  \/ from = "failed"   /\ to = "abandoned"

\* Variant of ApplyTransition: abandoning keeps the recorded failure.
KeepFailure(r, to, why) ==
  [state    |-> to,
   rev      |-> r.rev + 1,
   started  |-> r.started \/ to = "running",
   finished |-> r.finished \/ to \in Terminal,
   failure  |-> IF to = "failed" THEN why ELSE r.failure]

\* apply_transition: the record a transition of r to `to` leaves behind.
ApplyTransition(r, to, why) ==
  [state    |-> to,
   rev      |-> r.rev + 1,
   started  |-> r.started \/ to = "running",
   finished |-> r.finished \/ to \in Terminal,
   failure  |-> IF to = "failed" THEN why
                ELSE IF to = "abandoned" THEN None ELSE r.failure]

\* validate_record_invariants
ValidRecord(r) ==
  /\ r.state = "prepared" => ~r.started
  /\ r.state \in {"running", "succeeded"} => r.started
  /\ r.finished <=> r.state \in Terminal
  /\ r.failure # None <=> r.state = "failed"

\* SessionStore::load with from_json: there is a document, and its fields and
\* its state agree.
Loads(r) == r # NoRecord /\ ValidRecord(r)
=============================================================================
