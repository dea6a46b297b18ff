-------------------------- MODULE HttpAcquisition --------------------------
(***************************************************************************)
(* The acquisition runtime of lexicon-core as its source sees it:          *)
(* HttpAcquisitionContext (context.rs) with the transaction recorder       *)
(* (transaction/recorder.rs), the progress document and the checkpoints.   *)
(* Every session has a runtime process that executes one request at a      *)
(* time; all of them share the raw root of the source.  Around them the    *)
(* session's life is kept to what the engine checks and the readers see:   *)
(* its state, its stamps and its lease (DataExecution has the whole).      *)
(***************************************************************************)
EXTENDS TransactionStore

CONSTANTS
  Requests,     \* what a source may ask for
  Answers,      \* what a server may answer
  FaultProne,   \* sessions whose file operations may fail
  Killable,     \* sessions whose runtime or supervisor may be killed
  MaxCommits    \* bound: commit_checkpoint calls of a session

ASSUME AcquisitionAssumption ==
  /\ FaultProne \subseteq Sessions
  /\ Killable \subseteq Sessions
  /\ MaxCommits \in Nat
  /\ Requests \subseteq HttpRequests
  /\ Answers \subseteq HttpAnswers

VARIABLES
  clock,        \* the last stamp taken in every session
  view,         \* session documents: state, started_at, finished_at
  lease,        \* who holds the session's lease
  ending,       \* the stamp a reconciler took for the session's end
  orphaned,     \* sessions whose supervisor died before them
  raw,          \* the raw root: directory of every transaction identity
  progress,     \* acquisition_progress.json of every session
  checkpoints,  \* the checkpoints directory of every session
  engine,       \* the runtime's control state, and execute_impl's locals
  registry,     \* transaction_registry: the last good transaction of a key
  outcome,      \* what the last execute returned
  returned,     \* the transactions execute ever returned as good
  exchanges,    \* the exchanges the current execute had with servers
  commits       \* bound: commits begun

disk == <<view, lease, ending, orphaned, progress, checkpoints>>
vars == <<clock, view, lease, ending, orphaned, raw, progress, checkpoints,
          engine,
          registry, outcome, returned, exchanges, commits>>

Idle ==
  [pc |-> "idle", caller |-> None, request |-> None, physical |-> 0,
   followed |-> 0, retried |-> 0, parent |-> None, seen |-> {},
   tx |-> None, answer |-> Broken, base |-> NewProgress,
   key |-> None, stamp |-> 0]

NoOutcome == [kind |-> "none", tx |-> None]

Init ==
  /\ clock = [s \in Sessions |-> 0]
  /\ view = [s \in Sessions |-> NoSession]
  /\ lease = [s \in Sessions |-> "free"]
  /\ ending = [s \in Sessions |-> 0]
  /\ orphaned = {}
  /\ raw = << >>
  /\ progress = [s \in Sessions |-> NewProgress]
  /\ checkpoints = [s \in Sessions |-> << >>]
  /\ engine = [s \in Sessions |-> [Idle EXCEPT !.pc = "off"]]
  /\ registry = [s \in Sessions |-> << >>]
  /\ outcome = [s \in Sessions |-> NoOutcome]
  /\ returned = {}
  /\ exchanges = [s \in Sessions |-> {}]
  /\ commits = [s \in Sessions |-> 0]

\* Only stamps of one session are compared, but for the order of lookups.
Now(s) == clock[s] + 1
Tick(s) == clock' = [clock EXCEPT ![s] = @ + 1]

Step(s, e)    == engine' = [engine EXCEPT ![s] = e]
Goto(s, pc)   == Step(s, [engine[s] EXCEPT !.pc = pc])

\* The runtime checks its own session: Running, and somebody holds the lease.
\* It cannot see who.
RunningSession(s) == view[s].state = "running" /\ lease[s] # "free"

\* execute returns.  What was recorded stays, whatever it returns.
Return(s, kind) ==
  LET id == IF kind = "recorder" THEN None ELSE engine[s].tx
  IN  /\ Step(s, Idle)
      /\ outcome' = [outcome EXCEPT ![s] = [kind |-> kind, tx |-> id]]
      /\ returned' = IF kind = "ok" THEN returned \cup {id} ELSE returned

-----------------------------------------------------------------------------
(* The session around the engine                                           *)

\* The runtime is bound to its session and enters Running.
Open(s) ==
  /\ engine[s].pc = "off"
  /\ view[s].state = "absent"
  /\ Tick(s)
  /\ view' = [view EXCEPT ![s] = [state |-> "running", started |-> Now(s),
                                  finished |-> 0]]
  /\ lease' = [lease EXCEPT ![s] = "supervisor"]
  /\ Goto(s, "idle")
  /\ UNCHANGED <<ending, orphaned, raw, progress, checkpoints, registry, outcome,
                 returned, exchanges, commits>>

\* The handler returned: the session becomes terminal unless it already is.
Finish(s) ==
  /\ engine[s].pc = "idle"
  /\ Tick(s)
  /\ view' = IF view[s].state = "running"
               THEN [view EXCEPT ![s].state = "ended", ![s].finished = Now(s)]
               ELSE view
  /\ lease' = IF lease[s] = "supervisor" THEN [lease EXCEPT ![s] = "free"]
              ELSE lease
  /\ Goto(s, "ended")
  /\ UNCHANGED <<ending, orphaned, raw, progress, checkpoints, registry, outcome,
                 returned, exchanges, commits>>

\* The runtime process dies wherever it is.
KillRuntime(s) ==
  /\ s \in Killable
  /\ engine[s].pc \notin {"off", "ended", "dead"}
  /\ Step(s, [Idle EXCEPT !.pc = "dead"])
  /\ UNCHANGED <<clock, disk, raw, registry, outcome, returned, exchanges,
                 commits>>

\* Its supervisor sees it gone and fails the session.
RecordDeath(s) ==
  /\ engine[s].pc = "dead"
  /\ lease[s] = "supervisor"
  /\ Tick(s)
  /\ view' = IF view[s].state = "running"
               THEN [view EXCEPT ![s].state = "ended", ![s].finished = Now(s)]
               ELSE view
  /\ lease' = [lease EXCEPT ![s] = "free"]
  /\ UNCHANGED <<ending, orphaned, raw, progress, checkpoints, engine, registry,
                 outcome, returned, exchanges, commits>>

\* The supervisor dies; the runtime does not notice.
KillSupervisor(s) ==
  /\ s \in Killable
  /\ lease[s] = "supervisor"
  /\ lease' = [lease EXCEPT ![s] = "free"]
  /\ orphaned' = orphaned \cup {s}
  /\ UNCHANGED <<clock, view, ending, raw, progress, checkpoints, engine, registry,
                 outcome, returned, exchanges, commits>>

\* A later invocation takes the free lease of a running session and stamps
\* its end ...
BeginReconcile(s) ==
  /\ lease[s] = "free"
  /\ view[s].state = "running"
  /\ Tick(s)
  /\ lease' = [lease EXCEPT ![s] = "reconciler"]
  /\ ending' = [ending EXCEPT ![s] = Now(s)]
  /\ UNCHANGED <<view, orphaned, raw, progress, checkpoints, engine, registry,
                 outcome, returned, exchanges, commits>>

\* ... and writes the failed record with that stamp.  No reader of the raw root
\* tells a failed session from a succeeded one: both have ended.
EndReconcile(s) ==
  /\ lease[s] = "reconciler"
  /\ view' = IF view[s].state = "running"
               THEN [view EXCEPT ![s].state = "ended",
                                 ![s].finished = ending[s]]
               ELSE view
  /\ lease' = [lease EXCEPT ![s] = "free"]
  /\ UNCHANGED <<clock, ending, orphaned, raw, progress, checkpoints, engine,
                 registry, outcome, returned, exchanges, commits>>

-----------------------------------------------------------------------------
(* execute: one logical request, one physical attempt after the other      *)

\* Identities still free; a request is only begun when the bound leaves room
\* for every attempt it may need.
Used == Cardinality(DOMAIN raw)
Room(request) ==
  Used + request.maxAttempts * (request.maxRedirects + 1) <= MaxTransactions

\* validate_for_execution and finalize; the caller's URL is the first seen.
Execute(s, request) ==
  /\ engine[s].pc = "idle"
  /\ RunningSession(s)
  /\ Finalizable(request)
  /\ Room(request)
  /\ Step(s, [Idle EXCEPT !.pc = "attempt", !.caller = request,
                          !.request = request, !.seen = {request.url}])
  /\ outcome' = [outcome EXCEPT ![s] = NoOutcome]
  /\ exchanges' = [exchanges EXCEPT ![s] = {}]
  /\ UNCHANGED <<clock, disk, raw, registry, returned, commits>>

\* A mutant: the parent is not handed down to the next attempt.
RootlessTransaction(s) ==
  [session |-> s, key |-> engine[s].request.key, parent |-> None,
   physical |-> engine[s].physical + 1, redirect |-> engine[s].followed,
   retry |-> engine[s].retried, created |-> Now(s), completed |-> 0,
   outcome |-> "none", final |-> FALSE]

\* record_transaction_attempt up to the exchange: a fresh staging directory
\* with the request in it.
NewTransaction(s) ==
  [session |-> s, key |-> engine[s].request.key, parent |-> engine[s].parent,
   physical |-> engine[s].physical + 1, redirect |-> engine[s].followed,
   retry |-> engine[s].retried, created |-> Now(s), completed |-> 0,
   outcome |-> "none", final |-> FALSE]

Stage(s) ==
  LET id == Used + 1
      staged == [i \in DOMAIN raw \cup {id} |->
                   IF i = id THEN NewTransaction(s) ELSE raw[i]]
  IN  /\ engine[s].pc = "attempt"
      /\ id \in TxIds
      /\ AttemptIdentity(engine[s].physical + 1, engine[s].followed,
                         engine[s].retried)
      /\ \/ /\ raw' = staged
            /\ Tick(s)
            /\ Step(s, [engine[s] EXCEPT !.pc = "exchange", !.tx = id,
                                         !.physical = @ + 1])
            /\ UNCHANGED <<outcome, returned>>
         \/ /\ s \in FaultProne
            /\ \/ raw' = staged /\ Tick(s)
               \/ UNCHANGED <<raw, clock>>
            /\ Return(s, "recorder")
      /\ UNCHANGED <<disk, registry, exchanges, commits>>

\* The transport and the recording of its result; a body that breaks off
\* leaves the incomplete marker, or nothing if that cannot be written.
Recorded(s, answer) ==
  CASE answer.kind = "response" ->
         [raw[engine[s].tx] EXCEPT !.outcome = "response", !.completed = Now(s)]
    [] answer.kind = "failure" ->
         [raw[engine[s].tx] EXCEPT !.outcome = "failure", !.completed = Now(s)]
    [] OTHER -> [raw[engine[s].tx] EXCEPT !.outcome = "incomplete"]

Exchange(s, answer) ==
  LET e == engine[s]
  IN  /\ e.pc = "exchange"
      /\ Tick(s)
      /\ exchanges' = [exchanges EXCEPT ![s] = @ \cup
           {[tx |-> e.tx, url |-> e.request.url,
             headers |-> e.request.headers]}]
      /\ \/ /\ raw' = [raw EXCEPT ![e.tx] = Recorded(s, answer)]
            /\ IF answer.kind = "broken"
                 THEN Return(s, "recorder")
                 ELSE /\ Step(s, [e EXCEPT !.pc = "publish",
                                           !.answer = answer])
                      /\ UNCHANGED <<outcome, returned>>
         \/ /\ s \in FaultProne
            /\ Return(s, "recorder")
            /\ UNCHANGED raw
      /\ UNCHANGED <<disk, registry, commits>>

\* A mutant: the directory is renamed before the response is complete.
PublishIncomplete(s) ==
  /\ engine[s].pc \in {"exchange", "publish"}
  /\ raw' = [raw EXCEPT ![engine[s].tx].final = TRUE]
  /\ IF engine[s].pc = "publish" THEN Goto(s, "progress")
                                 ELSE UNCHANGED engine
  /\ UNCHANGED <<clock, disk, registry, outcome, returned, exchanges, commits>>

\* The no-replace rename, then the sync of the raw root: a failed sync is an
\* error of an attempt that is published.
Publish(s) ==
  /\ engine[s].pc = "publish"
  /\ \/ /\ raw' = [raw EXCEPT ![engine[s].tx].final = TRUE]
        /\ Goto(s, "progress")
        /\ UNCHANGED <<outcome, returned>>
     \/ /\ s \in FaultProne
        /\ \/ UNCHANGED raw
           \/ raw' = [raw EXCEPT ![engine[s].tx].final = TRUE]
        /\ Return(s, "recorder")
  /\ UNCHANGED <<clock, disk, registry, exchanges, commits>>

-----------------------------------------------------------------------------
(* persist_progress: read, compute, check again, rename                    *)

ReadProgress(s) ==
  /\ engine[s].pc = "progress"
  /\ \/ /\ RunningSession(s)
        /\ ProgressValid(progress[s])
        /\ Step(s, [engine[s] EXCEPT !.pc = "revalidate",
                                     !.base = progress[s]])
        /\ UNCHANGED <<outcome, returned>>
     \/ /\ \/ ~ RunningSession(s)
           \/ ~ ProgressValid(progress[s])
           \/ s \in FaultProne
        /\ Return(s, "partial_commit")
  /\ UNCHANGED <<clock, disk, raw, registry, exchanges, commits>>

\* revalidate_progress_ownership, after the new document is in its temporary
\* file
RevalidateProgress(s) ==
  /\ engine[s].pc = "revalidate"
  /\ \/ /\ RunningSession(s)
        /\ ProgressValid(progress[s])
        /\ progress[s].revision = engine[s].base.revision
        /\ Goto(s, "write")
        /\ UNCHANGED <<outcome, returned>>
     \/ /\ \/ ~ RunningSession(s)
           \/ progress[s].revision # engine[s].base.revision
           \/ s \in FaultProne
        /\ Return(s, "partial_commit")
  /\ UNCHANGED <<clock, disk, raw, registry, exchanges, commits>>

\* The rename, then the sync of the directory: a failed sync is reported as a
\* partial commit although the document advanced.
WriteProgress(s) ==
  LET e == engine[s]
      next == Advance(e.base, e.tx, e.answer.kind = "failure",
                      IsRedirect(e.answer), e.retried > 0)
  IN  /\ e.pc = "write"
      /\ \/ /\ progress' = [progress EXCEPT ![s] = next]
            /\ Goto(s, "decide")
            /\ UNCHANGED <<outcome, returned>>
         \/ /\ s \in FaultProne
            /\ \/ UNCHANGED progress
               \/ progress' = [progress EXCEPT ![s] = next]
            /\ Return(s, "partial_commit")
      /\ UNCHANGED <<clock, view, lease, ending, orphaned, raw, checkpoints, registry,
                     exchanges, commits>>

\* A mutant: whatever execute returns becomes the registry's entry.
DecideAndRegister(s) ==
  LET e == engine[s]
      verdict == Verdict(e.request, e.retried, e.followed, e.seen, e.answer)
  IN  /\ e.pc = "decide"
      /\ IF verdict = "retry"
           THEN /\ Step(s, [e EXCEPT !.pc = "attempt", !.parent = e.tx,
                                     !.retried = @ + 1])
                /\ UNCHANGED <<outcome, returned, registry>>
           ELSE /\ Return(s, verdict)
                /\ registry' = [registry EXCEPT ![s] =
                     [k \in DOMAIN @ \cup {e.request.key} |->
                        IF k = e.request.key THEN e.tx ELSE @[k]]]
      /\ UNCHANGED <<clock, disk, raw, exchanges, commits>>

\* What the recorded answer leads to: another attempt at the same URL, the
\* request a redirect asks for, or the end of execute.  A response that is
\* returned becomes the registry's entry of its key.
Decide(s) ==
  LET e == engine[s]
      verdict == Verdict(e.request, e.retried, e.followed, e.seen, e.answer)
  IN  /\ e.pc = "decide"
      /\ \/ /\ verdict = "retry"
            /\ Step(s, [e EXCEPT !.pc = "attempt", !.parent = e.tx,
                                 !.retried = @ + 1])
            /\ UNCHANGED <<outcome, returned, registry>>
         \/ /\ verdict = "redirect"
            /\ Step(s, [e EXCEPT
                 !.pc = "attempt", !.parent = e.tx, !.retried = 0,
                 !.followed = @ + 1, !.seen = @ \cup {e.answer.target},
                 !.request = RedirectedRequest(@, e.answer.status,
                                               e.answer.target)])
            /\ UNCHANGED <<outcome, returned, registry>>
         \/ /\ verdict \notin {"retry", "redirect"}
            /\ Return(s, verdict)
            /\ registry' =
                 IF verdict = "ok" /\ e.request.key # None
                   THEN [registry EXCEPT ![s] =
                           [k \in DOMAIN @ \cup {e.request.key} |->
                              IF k = e.request.key THEN e.tx ELSE @[k]]]
                   ELSE registry
      /\ UNCHANGED <<clock, disk, raw, exchanges, commits>>

-----------------------------------------------------------------------------
(* commit_checkpoint                                                       *)

\* The transaction the registry names is admitted again and belongs to this
\* session and key; a checkpoint already there must name the same one and is
\* then returned.  The new document is stamped.
BeginCommit(s, key) ==
  LET id == registry[s][key]
  IN  /\ engine[s].pc = "idle"
      /\ key \in DOMAIN registry[s]
      /\ commits[s] < MaxCommits
      /\ RunningSession(s)
      /\ Admitted(raw, id)
      /\ raw[id].session = s
      /\ raw[id].key = key
      /\ raw[id].outcome # "failure"
      /\ key \notin DOMAIN checkpoints[s]
      /\ Now(s) >= raw[id].completed
      /\ Tick(s)
      /\ commits' = [commits EXCEPT ![s] = @ + 1]
      /\ Step(s, [Idle EXCEPT !.pc = "commit", !.key = key, !.tx = id,
                              !.stamp = Now(s)])
      /\ UNCHANGED <<disk, raw, registry, outcome, returned, exchanges>>

\* The session is checked once more after the stamp.
RevalidateCommit(s) ==
  /\ engine[s].pc = "commit"
  /\ IF RunningSession(s) THEN Goto(s, "store") ELSE Step(s, Idle)
  /\ UNCHANGED <<clock, disk, raw, registry, outcome, returned, exchanges,
                 commits>>

\* write_checkpoint_atomic: a no-replace rename; the sync after it may fail,
\* and the commit is then reported as partial.
StoreCheckpoint(s) ==
  LET e == engine[s]
      t == raw[e.tx]
      document == [tx |-> e.tx, physical |-> t.physical,
                   redirect |-> t.redirect, retry |-> t.retry,
                   committed |-> e.stamp]
  IN  /\ e.pc = "store"
      /\ \/ /\ e.key \notin DOMAIN checkpoints[s]
            /\ checkpoints' = [checkpoints EXCEPT ![s] =
                 [k \in DOMAIN @ \cup {e.key} |->
                    IF k = e.key THEN document ELSE @[k]]]
         \/ /\ s \in FaultProne \/ e.key \in DOMAIN checkpoints[s]
            /\ UNCHANGED checkpoints
      /\ Step(s, Idle)
      /\ UNCHANGED <<clock, view, lease, ending, orphaned, raw, progress, registry,
                     outcome, returned, exchanges, commits>>

-----------------------------------------------------------------------------

EngineStep(s) ==
  \/ Stage(s) \/ Publish(s)
  \/ \E answer \in Answers : Exchange(s, answer)
  \/ ReadProgress(s) \/ RevalidateProgress(s) \/ WriteProgress(s)
  \/ Decide(s)
  \/ RevalidateCommit(s) \/ StoreCheckpoint(s)

\* What the source does: it may ask again, commit, or return.
SourceStep(s) ==
  \/ \E request \in Requests : Execute(s, request)
  \/ \E key \in Keys : BeginCommit(s, key)
  \/ Finish(s)

Next ==
  \E s \in Sessions :
    \/ Open(s)
    \/ SourceStep(s)
    \/ EngineStep(s)
    \/ KillRuntime(s) \/ RecordDeath(s) \/ KillSupervisor(s)
    \/ BeginReconcile(s) \/ EndReconcile(s)

Spec == Init /\ [][Next]_vars

-----------------------------------------------------------------------------
(* Properties                                                              *)

Executing ==
  {"attempt", "exchange", "publish", "progress", "revalidate", "write",
   "decide"}

\* One logical request is sent to one URL at most maximum_attempts times, also
\* when redirects lead in a circle, and never to more URLs than its redirect
\* policy allows (the nested loops of execute_impl).
ExchangesBounded ==
  \A s \in Sessions : engine[s].pc \in Executing =>
    LET c == engine[s].caller
        sentTo(u) == { x \in exchanges[s] : x.url = u }
        asked == { x.url : x \in exchanges[s] }
    IN  /\ \A u \in asked : Cardinality(sentTo(u)) <= c.maxAttempts
        /\ Cardinality(asked) <= c.maxRedirects + 1

\* However many redirects a request went through, no protected header and no
\* header the source marked reaches an origin the caller did not name
\* (redirect_request_from, applied hop by hop).
SecretsStayHome ==
  \A s \in Sessions : engine[s].pc \in Executing =>
    LET c == engine[s].caller
    IN  \A x \in exchanges[s] :
          ~ SameOrigin(x.url, c.url) =>
            \A h \in x.headers : ~ MustRedact(h, c.sensitive)

\* The published attempts of a request form a chain back to its first one:
\* every later attempt names a published parent of the same session and key,
\* one position before it and finished before it began.
AttemptsChained ==
  \A id \in Finalized(raw) :
    raw[id].physical > 1 =>
      LET parent == raw[id].parent
      IN  /\ parent \in Finalized(raw)
          /\ raw[parent].session = raw[id].session
          /\ raw[parent].key = raw[id].key
          /\ raw[parent].physical + 1 = raw[id].physical
          /\ raw[parent].completed <= raw[id].created

\* Whatever fails in between, the progress document never claims more than the
\* raw root holds: not more transactions, failures or retries, and its last
\* transaction is a published one of its session.  A transaction that execute
\* returned is complete, published and counted before the source sees it.
ProgressTruthful ==
  \A s \in Sessions :
    LET mine == { id \in Finalized(raw) : raw[id].session = s }
        failed == { id \in mine : raw[id].outcome = "failure" }
        retried == { id \in mine : raw[id].retry > 0 }
        doc == progress[s]
    IN  /\ ProgressValid(doc)
        /\ doc.last \in mine \cup {None}
        /\ doc.completed <= Cardinality(mine)
        /\ doc.failures <= Cardinality(failed)
        /\ doc.retries <= Cardinality(retried)
        /\ outcome[s].kind = "ok" =>
             /\ Admitted(raw, outcome[s].tx)
             /\ raw[outcome[s].tx].outcome = "response"
             /\ doc.last = outcome[s].tx

\* Crashes and failures leave staging directories behind; none of them, and no
\* published transaction, ever makes latest_transaction fail, and what it finds
\* for a key is never older than a transaction execute returned for it.
LeftoversPassedOver ==
  /\ ~ LookupFails(raw, view)
  /\ \A s \in Sessions : \A k \in DOMAIN registry[s] :
       LET latest == LatestTransaction(raw, k)
       IN  latest # None /\ ~ Newer(raw, registry[s][k], latest)

\* A checkpoint stands for a transaction that execute returned as good for
\* that key in that session, not for one it gave up on.
CheckpointVouched ==
  \A s \in Sessions : \A k \in DOMAIN checkpoints[s] :
    LET id == checkpoints[s][k].tx
    IN  /\ id \in returned
        /\ Admitted(raw, id)
        /\ raw[id].session = s
        /\ raw[id].key = k

\* A transaction every later reader accepts: processing discovers it.
EvidenceAvailable(s) ==
  /\ \A id \in Finalized(raw) :
       raw[id].session = s => Discoverable(raw, view, id)
  /\ \A k \in DOMAIN checkpoints[s] :
       CheckpointAdmitted(raw, view[s], s, k, checkpoints[s][k])

\* As long as its supervisor lives, everything a session published stays
\* acceptable to discovery and to has_checkpoint, through faults, crashes of
\* the runtime and the end of the session; so with no supervisor lost
\* has_checkpoint answers for every key.
SupervisedEvidenceAvailable ==
  /\ \A s \in Sessions \ orphaned : EvidenceAvailable(s)
  /\ orphaned = {} =>
       \A k \in Keys : HasCheckpoint(raw, view, checkpoints, k) # "error"

=============================================================================
