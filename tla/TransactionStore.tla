-------------------------- MODULE TransactionStore --------------------------
(***************************************************************************)
(* The documents an acquisition leaves on disk and the checks every reader *)
(* makes before it believes them: a transaction directory and its          *)
(* admission (transaction/metadata.rs), the session's progress document,   *)
(* a checkpoint and its admission (checkpoint/model.rs), the lookup of the *)
(* latest transaction (context.rs) and the provenance a processing runtime *)
(* demands (processing/transactions.rs).  Operators only; times are ticks  *)
(* of a clock that never stands still between two stamps, 0 is "not set".  *)
(***************************************************************************)
EXTENDS HttpExchange

CONSTANTS
  Sessions,         \* acquisition sessions of one source
  MaxTransactions   \* bound: transaction identities the model hands out

TxIds == 1 .. MaxTransactions

ASSUME MaxTransactionsAssumption ==
  /\ MaxTransactions \in Nat
  /\ None \notin TxIds

-----------------------------------------------------------------------------
(* Sessions, as far as the readers look at them                            *)

SessionViews ==
  [state : {"absent", "running", "ended"},
   started : Nat, finished : Nat]

NoSession == [state |-> "absent", started |-> 0, finished |-> 0]

-----------------------------------------------------------------------------
(* Transactions                                                            *)

Outcomes == {"none", "response", "failure", "incomplete"}

Transactions ==
  [session : Sessions, key : Keys \cup {None}, parent : TxIds \cup {None},
   physical : Nat, redirect : Nat, retry : Nat,
   created : Nat, completed : Nat,
   outcome : Outcomes, final : BOOLEAN]

\* HttpAttemptIdentity::new
AttemptIdentity(physical, redirect, retry) ==
  /\ physical > 0
  /\ redirect < physical
  /\ retry < physical

\* parse_transaction_directory_name and the entries of the directory: it
\* bears a final name, and request and response have their documents.
DirectoryComplete(tx) == tx.final /\ tx.outcome # "none"

\* The response: an answer or a failure of the transport, not a marker of an
\* incomplete one, at a time that is not before the request.
ResponseAdmitted(tx) ==
  tx.outcome \in {"response", "failure"} /\ tx.completed >= tx.created

\* admit_transaction_from_disk, on directories the recorder wrote.
Admitted(raw, id) ==
  /\ id \in DOMAIN raw
  /\ DirectoryComplete(raw[id])
  /\ raw[id].created > 0
  /\ ResponseAdmitted(raw[id])
  /\ AttemptIdentity(raw[id].physical, raw[id].redirect, raw[id].retry)
  /\ raw[id].physical = 1 => raw[id].parent = None
  /\ raw[id].parent # id

\* A mutant: staging directories count as well.
EveryDirectory(raw) == DOMAIN raw

\* enumerate_finalized_transactions: ".partial-" directories are passed over,
\* never deleted.
Finalized(raw) == { id \in DOMAIN raw : raw[id].final }

-----------------------------------------------------------------------------
(* The progress document                                                   *)

Progresses ==
  [completed : Nat, failures : Nat, redirects : Nat, retries : Nat,
   last : TxIds \cup {None}, revision : Nat]

\* new_initial; also what the absence of the file is read as
NewProgress ==
  [completed |-> 0, failures |-> 0, redirects |-> 0, retries |-> 0,
   last |-> None, revision |-> 0]

\* validate_existing
ProgressValid(doc) ==
  /\ doc.failures <= doc.completed
  /\ doc.redirects <= doc.completed
  /\ doc.retries <= doc.completed
  /\ doc.revision = doc.completed
  /\ doc.completed > 0 <=> doc.last # None

One(condition) == IF condition THEN 1 ELSE 0

\* A mutant: a failed attempt is counted as a retry.
AdvanceMiscounts(doc, id, failure, redirect, retry) ==
  [completed |-> doc.completed + 1,
   failures  |-> doc.failures + One(failure),
   redirects |-> doc.redirects + One(redirect),
   retries   |-> doc.retries + One(retry \/ failure),
   last      |-> id,
   revision  |-> doc.revision + 1]

\* advance
Advance(doc, id, failure, redirect, retry) ==
  [completed |-> doc.completed + 1,
   failures  |-> doc.failures + One(failure),
   redirects |-> doc.redirects + One(redirect),
   retries   |-> doc.retries + One(retry),
   last      |-> id,
   revision  |-> doc.revision + 1]

-----------------------------------------------------------------------------
(* Checkpoints                                                             *)

Checkpoints ==
  [tx : TxIds, physical : Nat, redirect : Nat, retry : Nat, committed : Nat]

\* validate_checkpoint_transaction
CheckpointMatches(checkpoint, session, key, view, tx) ==
  /\ tx.session = session
  /\ tx.key = key
  /\ tx.outcome # "failure"
  /\ <<tx.physical, tx.redirect, tx.retry>>
       = <<checkpoint.physical, checkpoint.redirect, checkpoint.retry>>
  /\ checkpoint.committed >= tx.completed
  /\ checkpoint.committed >= view.started
  /\ view.finished # 0 => checkpoint.committed <= view.finished

\* find_transaction_by_identity: staging directories are passed over.
TransactionFound(raw, id) == id \in Finalized(raw) /\ Admitted(raw, id)

\* admit_http_checkpoint_from_disk
CheckpointAdmitted(raw, view, session, key, checkpoint) ==
  /\ view.state # "absent"
  /\ view.started # 0
  /\ TransactionFound(raw, checkpoint.tx)
  /\ CheckpointMatches(checkpoint, session, key, view, raw[checkpoint.tx])

\* has_checkpoint: one candidate that is not admitted fails the whole lookup.
HasCheckpoint(raw, views, checkpoints, key) ==
  LET holders == { s \in Sessions : key \in DOMAIN checkpoints[s] }
  IN  IF \E s \in holders :
           ~ CheckpointAdmitted(raw, views[s], s, key, checkpoints[s][key])
        THEN "error"
      ELSE IF holders # {} THEN "yes" ELSE "no"

-----------------------------------------------------------------------------
(* Lookup and provenance                                                   *)

\* is_newer_transaction; identities break the tie
Newer(raw, c, d) ==
  \/ raw[c].created > raw[d].created
  \/ raw[c].created = raw[d].created /\ raw[c].physical > raw[d].physical
  \/ raw[c].created = raw[d].created /\ raw[c].physical = raw[d].physical
       /\ c > d

\* latest_transaction: a directory that is not admitted fails the lookup.
Candidates(raw, key) ==
  { id \in Finalized(raw) : raw[id].key = key /\ raw[id].outcome = "response" }

LookupFails(raw, views) ==
  \E id \in Finalized(raw) :
    ~ Admitted(raw, id) \/ views[raw[id].session].state = "absent"

LatestTransaction(raw, key) ==
  IF Candidates(raw, key) = {} THEN None
  ELSE CHOOSE id \in Candidates(raw, key) :
         \A other \in Candidates(raw, key) \ {id} : Newer(raw, id, other)

\* validate_session_record
SessionAccepted(view) == view.state # "absent" /\ view.started # 0

\* validate_transaction_against_session
WithinSession(view, tx) ==
  /\ tx.created >= view.started
  /\ tx.completed >= tx.created
  /\ view.finished # 0 => tx.completed <= view.finished

\* discover_http_transactions_for_processing takes this transaction
Discoverable(raw, views, id) ==
  /\ Admitted(raw, id)
  /\ SessionAccepted(views[raw[id].session])
  /\ WithinSession(views[raw[id].session], raw[id])

=============================================================================
