------------------------ MODULE ProcessingRun_proofs ------------------------
(***************************************************************************)
(* Proofs about ProcessingRun, for any number of processing sessions, any  *)
(* of them killable and fault prone: types, SucceededIsDurable, that the   *)
(* runs implement ProcessingContract, and that the journal a killed run    *)
(* left is rolled back before another run works.                           *)
(***************************************************************************)
EXTENDS ProcessingRun, TLAPS

\* What a run may only return when nothing of it is in the database.
KeptFailures == {"setup", "path", "handler", "rollback", "sidecar", "transaction"}

\* The run can still promise that the database holds nothing of it.
Untouched(s) ==
  \/ run[s].pc \in {"off", "discover", "path", "open",
                    "sidecars_after_rollback"}
  \/ run[s].active
  \/ run[s].pc = "fail" /\ run[s].failure \in KeptFailures
  \/ outcome[s] \in KeptFailures

RunInv(s) ==
  /\ run[s].active =>
       run[s].pc \in {"handler", "boundary", "commit", "rollback"}
  /\ run[s].pc \in {"commit", "rollback"} => run[s].active
  /\ Untouched(s) => s \notin database
  /\ run[s].pc \in {"sync", "sidecars", "complete"} => s \in database
  /\ run[s].pc \in {"sidecars", "complete"} => s \in synced
  /\ run[s].pc = "fail" => run[s].failure \in Failures
  /\ outcome[s] = "none" <=> run[s].pc # "returned"
  /\ record[s] = "succeeded" => s \in database /\ s \in synced
  /\ outcome[s] = "ok" => record[s] = "succeeded"

IInv == ProcessingTypeOK /\ \A s \in Sessions : RunInv(s)

LEMMA InitInv == Init => IInv
  BY DEF Init, IInv, ProcessingTypeOK, RunInv, Untouched, KeptFailures, Off,
         Runs, PCs, Failures

-----------------------------------------------------------------------------
(* What the helpers do to a run                                            *)

LEMMA StepEffect ==
  ASSUME run \in [Sessions -> Runs], NEW s \in Sessions, NEW r \in Runs,
         Step(s, r)
  PROVE  /\ run' \in [Sessions -> Runs]
         /\ run'[s] = r
         /\ \A t \in Sessions \ {s} : run'[t] = run[t]
  BY DEF Step

LEMMA MoveToEffect ==
  ASSUME run \in [Sessions -> Runs], NEW s \in Sessions, NEW pc \in PCs,
         NEW active \in BOOLEAN, MoveTo(s, pc, active)
  PROVE  /\ run' \in [Sessions -> Runs]
         /\ run'[s].pc = pc
         /\ run'[s].active = active
         /\ \A t \in Sessions \ {s} : run'[t] = run[t]
<1> DEFINE r == [run[s] EXCEPT !.pc = pc, !.active = active]
<1>1. r \in Runs /\ r.pc = pc /\ r.active = active
  BY DEF Runs
<1>2. Step(s, r)
  BY DEF MoveTo
<1>3. QED
  <2> HIDE DEF r
  <2> QED BY <1>1, <1>2, StepEffect

LEMMA MovesKeepFailure ==
  ASSUME run \in [Sessions -> Runs], NEW s \in Sessions, NEW pc \in PCs,
         NEW active \in BOOLEAN, MoveTo(s, pc, active)
  PROVE  \A t \in Sessions : run'[t].failure = run[t].failure
<1>1. [run[s] EXCEPT !.pc = pc, !.active = active].failure = run[s].failure
  BY DEF Runs
<1>2. QED
  BY <1>1 DEF MoveTo, Step

LEMMA GotoEffect ==
  ASSUME run \in [Sessions -> Runs], NEW s \in Sessions, NEW pc \in PCs,
         Goto(s, pc)
  PROVE  /\ run' \in [Sessions -> Runs]
         /\ run'[s].pc = pc
         /\ run'[s].active = run[s].active
         /\ run'[s].failure = run[s].failure
         /\ \A t \in Sessions \ {s} : run'[t] = run[t]
<1>1. [run[s] EXCEPT !.pc = pc] \in Runs
  BY DEF Runs
<1>2. QED
  BY <1>1, StepEffect DEF Goto, Runs

LEMMA FailAsEffect ==
  ASSUME run \in [Sessions -> Runs], NEW s \in Sessions,
         NEW failure \in Failures, FailAs(s, failure)
  PROVE  /\ run' \in [Sessions -> Runs]
         /\ run'[s].pc = "fail"
         /\ run'[s].active = FALSE
         /\ run'[s].failure = failure
         /\ \A t \in Sessions \ {s} : run'[t] = run[t]
<1> DEFINE r == [run[s] EXCEPT !.pc = "fail", !.failure = failure,
                               !.active = FALSE]
<1>1. r \in Runs /\ r.pc = "fail" /\ r.failure = failure /\ r.active = FALSE
  BY DEF Runs, PCs
<1>2. Step(s, r)
  BY DEF FailAs
<1>3. QED
  <2> HIDE DEF r
  <2> QED BY <1>1, <1>2, StepEffect

-----------------------------------------------------------------------------
(* Typing                                                                  *)

\* Every step keeps the types.
LEMMA TypeStep ==
  ASSUME IInv, [Next]_vars
  PROVE  ProcessingTypeOK'
<1> USE DEF IInv, ProcessingTypeOK, sqlite, At, Closed, Returns
<1>1. ASSUME NEW s \in Sessions, EnterRunning(s) PROVE ProcessingTypeOK'
  BY <1>1, GotoEffect DEF EnterRunning, PCs
<1>2. ASSUME NEW s \in Sessions, RuntimeStep(s) PROVE ProcessingTypeOK'
  <2>1. CASE Discover(s)
    BY <2>1, GotoEffect, FailAsEffect DEF Discover, PCs, Failures
  <2>2. CASE DerivePath(s)
    BY <2>2, GotoEffect, FailAsEffect DEF DerivePath, PCs, Failures
  <2>3. CASE OpenDatabase(s)
    BY <2>3, MoveToEffect, FailAsEffect DEF OpenDatabase, PCs, Failures
  <2>4. CASE HandlerReturns(s)
    <3>1. PICK result \in {"ok", "error"} :
            Step(s, [run[s] EXCEPT !.pc = "boundary", !.result = result])
      BY <2>4 DEF HandlerReturns
    <3>2. [run[s] EXCEPT !.pc = "boundary", !.result = result] \in Runs
      BY DEF Runs, PCs
    <3>3. QED
      BY <2>4, <3>1, <3>2, StepEffect DEF HandlerReturns
  <2>5. CASE CheckBoundary(s)
    BY <2>5, GotoEffect, FailAsEffect DEF CheckBoundary, PCs, Failures
  <2>6. CASE CommitDatabase(s)
    BY <2>6, MoveToEffect, FailAsEffect DEF CommitDatabase, PCs, Failures
  <2>7. CASE SyncDatabase(s)
    BY <2>7, GotoEffect, FailAsEffect DEF SyncDatabase, PCs, Failures
  <2>8. CASE CheckSidecars(s)
    BY <2>8, GotoEffect, FailAsEffect DEF CheckSidecars, PCs, Failures
  <2>9. CASE RollbackDatabase(s)
    BY <2>9, MoveToEffect, FailAsEffect DEF RollbackDatabase, PCs, Failures
  <2>10. CASE CheckSidecarsAfterRollback(s)
    BY <2>10, FailAsEffect DEF CheckSidecarsAfterRollback, PCs, Failures
  <2>11. CASE Complete(s)
    BY <2>11, GotoEffect DEF Complete, PCs, Failures
  <2>12. CASE FailSession(s)
    BY <2>12, GotoEffect DEF FailSession, RunInv, PCs
  <2>13. QED BY <1>2, <2>1, <2>2, <2>3, <2>4, <2>5, <2>6, <2>7, <2>8, <2>9,
                <2>10, <2>11, <2>12 DEF RuntimeStep
<1>3. ASSUME NEW s \in Sessions, HandlerWrites(s) PROVE ProcessingTypeOK'
  <2>1. [run[s] EXCEPT !.wrote = TRUE] \in Runs
    BY DEF Runs
  <2>2. QED
    BY <1>3, <2>1, StepEffect DEF HandlerWrites
<1>4. ASSUME NEW s \in Sessions, HandlerEndsTransaction(s)
      PROVE  ProcessingTypeOK'
  <2>1. [run[s] EXCEPT !.active = FALSE] \in Runs
    BY DEF Runs
  <2>2. QED
    BY <1>4, <2>1, StepEffect DEF HandlerEndsTransaction
<1>5. ASSUME NEW s \in Sessions, HandlerWritesAlone(s) PROVE ProcessingTypeOK'
  BY <1>5 DEF HandlerWritesAlone
<1>6. ASSUME NEW s \in Sessions, Kill(s) PROVE ProcessingTypeOK'
  BY <1>6, MoveToEffect DEF Kill, PCs
<1>7. ASSUME NEW s \in Sessions, Reconcile(s) PROVE ProcessingTypeOK'
  BY <1>7 DEF Reconcile
<1>8. CASE UNCHANGED vars
  BY <1>8 DEF vars
<1>9. QED
  BY <1>1, <1>2, <1>3, <1>4, <1>5, <1>6, <1>7, <1>8 DEF Next

-----------------------------------------------------------------------------
(* The invariant                                                           *)

\* A step of another session leaves a run's part of the invariant alone.
LEMMA Frame ==
  ASSUME NEW t \in Sessions, RunInv(t), run'[t] = run[t],
         outcome'[t] = outcome[t], record'[t] = record[t],
         t \in database' <=> t \in database, t \in synced => t \in synced'
  PROVE  RunInv(t)'
  BY DEF RunInv, Untouched

\* What a step of session s leaves alone for every other session.
Elsewhere(s) ==
  \A t \in Sessions \ {s} :
    /\ run'[t] = run[t] /\ outcome'[t] = outcome[t] /\ record'[t] = record[t]
    /\ t \in database' <=> t \in database
    /\ t \in synced => t \in synced'

LEMMA InvOfStep ==
  ASSUME \A t \in Sessions : RunInv(t),
         NEW s \in Sessions, RunInv(s)', Elsewhere(s)
  PROVE  \A t \in Sessions : RunInv(t)'
  BY Frame DEF Elsewhere

LEMMA RunStep ==
  ASSUME IInv, [Next]_vars
  PROVE  \A t \in Sessions : RunInv(t)'
<1> USE DEF IInv, ProcessingTypeOK, sqlite, At, Closed, Returns
<1>1. ASSUME NEW s \in Sessions, EnterRunning(s)
      PROVE  \A t \in Sessions : RunInv(t)'
  <2>1. RunInv(s)'
    BY <1>1, GotoEffect
    DEF EnterRunning, RunInv, Untouched, KeptFailures, PCs, Failures
  <2>2. Elsewhere(s)
    BY <1>1, GotoEffect
    DEF EnterRunning, Elsewhere, PCs, Failures
  <2>3. QED
    BY <2>1, <2>2, InvOfStep
<1>2. ASSUME NEW s \in Sessions, Discover(s)
      PROVE  \A t \in Sessions : RunInv(t)'
  <2>1. RunInv(s)'
    BY <1>2, GotoEffect, FailAsEffect
    DEF Discover, RunInv, Untouched, KeptFailures, PCs, Failures
  <2>2. Elsewhere(s)
    BY <1>2, GotoEffect, FailAsEffect
    DEF Discover, Elsewhere, PCs, Failures
  <2>3. QED
    BY <2>1, <2>2, InvOfStep
<1>3. ASSUME NEW s \in Sessions, DerivePath(s)
      PROVE  \A t \in Sessions : RunInv(t)'
  <2>1. RunInv(s)'
    BY <1>3, GotoEffect, FailAsEffect
    DEF DerivePath, RunInv, Untouched, KeptFailures, PCs, Failures
  <2>2. Elsewhere(s)
    BY <1>3, GotoEffect, FailAsEffect
    DEF DerivePath, Elsewhere, PCs, Failures
  <2>3. QED
    BY <2>1, <2>2, InvOfStep
<1>4. ASSUME NEW s \in Sessions, OpenDatabase(s)
      PROVE  \A t \in Sessions : RunInv(t)'
  <2>1. RunInv(s)'
    BY <1>4, MoveToEffect, FailAsEffect
    DEF OpenDatabase, RunInv, Untouched, KeptFailures, PCs, Failures
  <2>2. Elsewhere(s)
    BY <1>4, MoveToEffect, FailAsEffect
    DEF OpenDatabase, Elsewhere, PCs, Failures
  <2>3. QED
    BY <2>1, <2>2, InvOfStep
<1>5. ASSUME NEW s \in Sessions, CheckBoundary(s)
      PROVE  \A t \in Sessions : RunInv(t)'
  <2>1. RunInv(s)'
    BY <1>5, GotoEffect, FailAsEffect
    DEF CheckBoundary, RunInv, Untouched, KeptFailures, PCs, Failures
  <2>2. Elsewhere(s)
    BY <1>5, GotoEffect, FailAsEffect
    DEF CheckBoundary, Elsewhere, PCs, Failures
  <2>3. QED
    BY <2>1, <2>2, InvOfStep
<1>6. ASSUME NEW s \in Sessions, CommitDatabase(s)
      PROVE  \A t \in Sessions : RunInv(t)'
  <2>1. RunInv(s)'
    BY <1>6, MoveToEffect, FailAsEffect
    DEF CommitDatabase, RunInv, Untouched, KeptFailures, PCs, Failures
  <2>2. Elsewhere(s)
    BY <1>6, MoveToEffect, FailAsEffect
    DEF CommitDatabase, Elsewhere, PCs, Failures
  <2>3. QED
    BY <2>1, <2>2, InvOfStep
<1>7. ASSUME NEW s \in Sessions, SyncDatabase(s)
      PROVE  \A t \in Sessions : RunInv(t)'
  <2>1. RunInv(s)'
    BY <1>7, GotoEffect, FailAsEffect
    DEF SyncDatabase, RunInv, Untouched, KeptFailures, PCs, Failures
  <2>2. Elsewhere(s)
    BY <1>7, GotoEffect, FailAsEffect
    DEF SyncDatabase, Elsewhere, PCs, Failures
  <2>3. QED
    BY <2>1, <2>2, InvOfStep
<1>8. ASSUME NEW s \in Sessions, CheckSidecars(s)
      PROVE  \A t \in Sessions : RunInv(t)'
  <2>1. RunInv(s)'
    BY <1>8, GotoEffect, FailAsEffect
    DEF CheckSidecars, RunInv, Untouched, KeptFailures, PCs, Failures
  <2>2. Elsewhere(s)
    BY <1>8, GotoEffect, FailAsEffect
    DEF CheckSidecars, Elsewhere, PCs, Failures
  <2>3. QED
    BY <2>1, <2>2, InvOfStep
<1>9. ASSUME NEW s \in Sessions, RollbackDatabase(s)
      PROVE  \A t \in Sessions : RunInv(t)'
  <2>1. RunInv(s)'
    BY <1>9, MoveToEffect, FailAsEffect
    DEF RollbackDatabase, RunInv, Untouched, KeptFailures, PCs, Failures
  <2>2. Elsewhere(s)
    BY <1>9, MoveToEffect, FailAsEffect
    DEF RollbackDatabase, Elsewhere, PCs, Failures
  <2>3. QED
    BY <2>1, <2>2, InvOfStep
<1>10. ASSUME NEW s \in Sessions, CheckSidecarsAfterRollback(s)
      PROVE  \A t \in Sessions : RunInv(t)'
  <2>1. RunInv(s)'
    BY <1>10, FailAsEffect
    DEF CheckSidecarsAfterRollback, RunInv, Untouched, KeptFailures, PCs, Failures
  <2>2. Elsewhere(s)
    BY <1>10, FailAsEffect
    DEF CheckSidecarsAfterRollback, Elsewhere, PCs, Failures
  <2>3. QED
    BY <2>1, <2>2, InvOfStep
<1>11. ASSUME NEW s \in Sessions, Complete(s)
      PROVE  \A t \in Sessions : RunInv(t)'
  <2>1. RunInv(s)'
    BY <1>11, GotoEffect
    DEF Complete, RunInv, Untouched, KeptFailures, PCs, Failures
  <2>2. Elsewhere(s)
    BY <1>11, GotoEffect
    DEF Complete, Elsewhere, PCs, Failures
  <2>3. QED
    BY <2>1, <2>2, InvOfStep
<1>12. ASSUME NEW s \in Sessions, FailSession(s)
      PROVE  \A t \in Sessions : RunInv(t)'
  <2>1. RunInv(s)'
    BY <1>12, GotoEffect
    DEF FailSession, RunInv, Untouched, KeptFailures, PCs, Failures
  <2>2. Elsewhere(s)
    BY <1>12, GotoEffect
    DEF FailSession, Elsewhere, PCs, Failures
  <2>3. QED
    BY <2>1, <2>2, InvOfStep
<1>13. ASSUME NEW s \in Sessions, Kill(s)
      PROVE  \A t \in Sessions : RunInv(t)'
  <2>1. RunInv(s)'
    BY <1>13, MoveToEffect
    DEF Kill, RunInv, Untouched, KeptFailures, PCs, Failures
  <2>2. Elsewhere(s)
    BY <1>13, MoveToEffect
    DEF Kill, Elsewhere, PCs, Failures
  <2>3. QED
    BY <2>1, <2>2, InvOfStep
<1>14. ASSUME NEW s \in Sessions, HandlerReturns(s)
      PROVE  \A t \in Sessions : RunInv(t)'
  <2>1. PICK result \in {"ok", "error"} :
          Step(s, [run[s] EXCEPT !.pc = "boundary", !.result = result])
    BY <1>14 DEF HandlerReturns
  <2> DEFINE r == [run[s] EXCEPT !.pc = "boundary", !.result = result]
  <2>2. /\ r \in Runs /\ r.pc = "boundary" /\ r.active = run[s].active
        /\ r.failure = run[s].failure
    BY DEF Runs, PCs
  <2>3. run'[s] = r /\ \A t \in Sessions \ {s} : run'[t] = run[t]
    BY <2>1, <2>2, StepEffect
  <2> HIDE DEF r
  <2>4. RunInv(s)'
    BY <1>14, <2>2, <2>3
    DEF HandlerReturns, RunInv, Untouched, KeptFailures, PCs, Failures
  <2>5. Elsewhere(s)
    BY <1>14, <2>3 DEF HandlerReturns, Elsewhere
  <2>6. QED
    BY <2>4, <2>5, InvOfStep
<1>15. ASSUME NEW s \in Sessions, HandlerWrites(s)
      PROVE  \A t \in Sessions : RunInv(t)'
  <2> DEFINE r == [run[s] EXCEPT !.wrote = TRUE]
  <2>1. /\ r \in Runs /\ r.pc = run[s].pc /\ r.active = run[s].active
        /\ r.failure = run[s].failure
    BY DEF Runs
  <2>2. run'[s] = r /\ \A t \in Sessions \ {s} : run'[t] = run[t]
    BY <1>15, <2>1, StepEffect DEF HandlerWrites
  <2> HIDE DEF r
  <2>3. RunInv(s)'
    BY <1>15, <2>1, <2>2
    DEF HandlerWrites, RunInv, Untouched, KeptFailures, PCs, Failures
  <2>4. Elsewhere(s)
    BY <1>15, <2>2 DEF HandlerWrites, Elsewhere
  <2>5. QED
    BY <2>3, <2>4, InvOfStep
<1>16. ASSUME NEW s \in Sessions, HandlerEndsTransaction(s)
      PROVE  \A t \in Sessions : RunInv(t)'
  <2> DEFINE r == [run[s] EXCEPT !.active = FALSE]
  <2>1. /\ r \in Runs /\ r.pc = run[s].pc /\ r.active = FALSE
        /\ r.failure = run[s].failure
    BY DEF Runs
  <2>2. run'[s] = r /\ \A t \in Sessions \ {s} : run'[t] = run[t]
    BY <1>16, <2>1, StepEffect DEF HandlerEndsTransaction
  <2> HIDE DEF r
  <2>3. RunInv(s)'
    BY <1>16, <2>1, <2>2
    DEF HandlerEndsTransaction, RunInv, Untouched, KeptFailures, PCs, Failures
  <2>4. Elsewhere(s)
    BY <1>16, <2>2 DEF HandlerEndsTransaction, Elsewhere
  <2>5. QED
    BY <2>3, <2>4, InvOfStep
<1>17. ASSUME NEW s \in Sessions, HandlerWritesAlone(s)
      PROVE  \A t \in Sessions : RunInv(t)'
  <2>1. RunInv(s)'
    BY <1>17 DEF HandlerWritesAlone, RunInv, Untouched, KeptFailures
  <2>2. Elsewhere(s)
    BY <1>17 DEF HandlerWritesAlone, Elsewhere
  <2>3. QED
    BY <2>1, <2>2, InvOfStep
<1>18. ASSUME NEW s \in Sessions, Reconcile(s)
      PROVE  \A t \in Sessions : RunInv(t)'
  <2>1. RunInv(s)'
    BY <1>18 DEF Reconcile, RunInv, Untouched, KeptFailures
  <2>2. Elsewhere(s)
    BY <1>18 DEF Reconcile, Elsewhere
  <2>3. QED
    BY <2>1, <2>2, InvOfStep
<1>19. CASE UNCHANGED vars
  BY <1>19, Frame DEF vars
<1>20. QED
  BY <1>1, <1>2, <1>3, <1>4, <1>5, <1>6, <1>7, <1>8, <1>9, <1>10, <1>11, <1>12, <1>13, <1>14, <1>15, <1>16, <1>17, <1>18, <1>19
  DEF Next, RuntimeStep

-----------------------------------------------------------------------------
(* Theorems                                                                *)

THEOREM Invariance == Spec => []IInv
<1>1. IInv /\ [Next]_vars => IInv'
  BY TypeStep, RunStep DEF IInv
<1>2. QED
  BY InitInv, <1>1, PTL DEF Spec

\* Types of every reachable state.
THEOREM ProcessingTypes == Spec => []ProcessingTypeOK
<1>1. IInv => ProcessingTypeOK
  BY DEF IInv
<1>2. QED
  BY Invariance, <1>1, PTL

\* In every reachable state of any number of runs the Succeeded records are
\* those of runs that returned success with their output durably in the
\* database.
THEOREM SuccessIsDurable == Spec => []SucceededIsDurable
<1>1. IInv => SucceededIsDurable
  BY DEF IInv, RunInv, SucceededIsDurable
<1>2. QED
  BY Invariance, <1>1, PTL

-----------------------------------------------------------------------------
(* The runs implement the contract                                         *)

Reported == [s \in Sessions |-> Said(s)]

LEMMA InitContract == Init => Contract!Init
  BY DEF Init, Contract!Init, Said

LEMMA NothingReported ==
  ASSUME outcome' = outcome
  PROVE  Reported' = Reported
  BY DEF Reported, Said

\* A step that leaves the database and the outcomes alone is a stutter.
LEMMA Stutter ==
  ASSUME database' = database, outcome' = outcome
  PROVE  UNCHANGED <<database, Reported>>
  BY NothingReported

\* A step that adds s to the database, before s has returned.
LEMMA ApplyStep ==
  ASSUME NEW s \in Sessions, outcome[s] = "none", outcome' = outcome,
         database' = database \cup {s}
  PROVE  Contract!Next
<1>1. Reported[s] = "none" /\ Reported' = Reported
  BY NothingReported DEF Reported, Said
<1>2. Contract!Apply(s)
  BY <1>1 DEF Contract!Apply, Reported
<1>3. QED
  BY <1>2 DEF Contract!Next

\* A step in which s returns, and what it says fits the database.
LEMMA ReportStep ==
  ASSUME outcome \in [Sessions -> Failures \cup {"none", "ok"}],
         NEW s \in Sessions, outcome[s] = "none",
         NEW kind \in Failures \cup {"ok"},
         outcome' = [outcome EXCEPT ![s] = kind], database' = database,
         kind = "ok" => s \in database,
         kind \in KeptFailures => s \notin database
  PROVE  Contract!Next
<1> DEFINE said == CASE kind = "ok" -> "replaced"
                     [] kind \in {"partial_commit", "uncertain"} -> "possible"
                     [] OTHER -> "kept"
<1>1. /\ said \in Contract!Reports \ {"none"}
      /\ said = "replaced" => kind = "ok"
      /\ said = "kept" => kind \in KeptFailures
  BY DEF Contract!Reports, KeptFailures, Failures
<1>2. Said(s)' = said
  BY DEF Said, Failures
<1>3. \A t \in Sessions \ {s} : Said(t)' = Said(t)
  BY DEF Said
<1> HIDE DEF said
<1>4. Reported' = [Reported EXCEPT ![s] = said]
  BY <1>2, <1>3 DEF Reported
<1>5. Reported[s] = "none"
  BY DEF Reported, Said
<1>6. Contract!Report(s, said)
  BY <1>1, <1>4, <1>5 DEF Contract!Report, Reported
<1>7. QED
  BY <1>1, <1>6 DEF Contract!Next

LEMMA ContractStep ==
  ASSUME IInv, [Next]_vars
  PROVE  [Contract!Next]_<<database, Reported>>
<1> USE DEF sqlite, At, Returns
<1>1. ASSUME NEW s \in Sessions, run[s].pc # "returned"
      PROVE  outcome[s] = "none"
  BY <1>1 DEF IInv, RunInv
<1>2. ASSUME NEW s \in Sessions, CommitDatabase(s)
      PROVE  [Contract!Next]_<<database, Reported>>
  <2>1. outcome[s] = "none" /\ outcome' = outcome
    BY <1>1, <1>2 DEF CommitDatabase
  <2>2. database' = database \/ database' = database \cup {s}
    BY <1>2 DEF CommitDatabase
  <2>3. QED
    BY <2>1, <2>2, ApplyStep, Stutter
<1>3. ASSUME NEW s \in Sessions, HandlerEndsTransaction(s)
      PROVE  [Contract!Next]_<<database, Reported>>
  <2>1. outcome[s] = "none" /\ outcome' = outcome
    BY <1>1, <1>3 DEF HandlerEndsTransaction
  <2>2. database' = database \/ database' = database \cup {s}
    BY <1>3 DEF HandlerEndsTransaction
  <2>3. QED
    BY <2>1, <2>2, ApplyStep, Stutter
<1>4. ASSUME NEW s \in Sessions, HandlerWritesAlone(s)
      PROVE  [Contract!Next]_<<database, Reported>>
  BY <1>1, <1>4, ApplyStep DEF HandlerWritesAlone
<1>5. ASSUME NEW s \in Sessions, Complete(s)
      PROVE  [Contract!Next]_<<database, Reported>>
  <2>1. /\ outcome[s] = "none" /\ s \in database /\ database' = database
        /\ outcome \in [Sessions -> Failures \cup {"none", "ok"}]
    BY <1>1, <1>5 DEF Complete, IInv, RunInv, ProcessingTypeOK
  <2>2. \/ outcome' = [outcome EXCEPT ![s] = "ok"]
        \/ outcome' = [outcome EXCEPT ![s] = "partial_commit"]
    BY <1>5 DEF Complete
  <2>3. "partial_commit" \in Failures /\ "partial_commit" \notin KeptFailures
        /\ "ok" \notin KeptFailures
    BY DEF Failures, KeptFailures
  <2>4. QED
    BY <2>1, <2>2, <2>3, ReportStep
<1>6. ASSUME NEW s \in Sessions, FailSession(s)
      PROVE  [Contract!Next]_<<database, Reported>>
  <2> DEFINE failure == run[s].failure
  <2>1. /\ outcome[s] = "none" /\ database' = database
        /\ outcome \in [Sessions -> Failures \cup {"none", "ok"}]
        /\ outcome' = [outcome EXCEPT ![s] = failure]
    BY <1>1, <1>6 DEF FailSession, IInv, RunInv, ProcessingTypeOK
  <2>2. failure \in Failures /\ (failure \in KeptFailures => s \notin database)
    BY <1>6 DEF FailSession, IInv, RunInv, Untouched
  <2>3. failure # "ok"
    BY <2>2 DEF Failures
  <2> HIDE DEF failure
  <2>4. QED
    BY <2>1, <2>2, <2>3, ReportStep
<1>7. ASSUME NEW s \in Sessions,
             \/ EnterRunning(s) \/ Discover(s) \/ DerivePath(s)
             \/ OpenDatabase(s) \/ HandlerWrites(s) \/ HandlerReturns(s)
             \/ CheckBoundary(s) \/ SyncDatabase(s) \/ CheckSidecars(s)
             \/ RollbackDatabase(s) \/ CheckSidecarsAfterRollback(s)
             \/ Kill(s) \/ Reconcile(s)
      PROVE  [Contract!Next]_<<database, Reported>>
  <2>1. database' = database /\ outcome' = outcome
    BY <1>7 DEF EnterRunning, Discover, DerivePath, OpenDatabase,
      HandlerWrites, HandlerReturns, CheckBoundary, SyncDatabase,
      CheckSidecars, RollbackDatabase, CheckSidecarsAfterRollback, Kill,
      Reconcile
  <2>2. QED
    BY <2>1, Stutter
<1>8. CASE UNCHANGED vars
  BY <1>8, Stutter DEF vars
<1>9. QED
  BY <1>2, <1>3, <1>4, <1>5, <1>6, <1>7, <1>8 DEF Next, RuntimeStep

\* Every behaviour of any number of processing runs is one ProcessingContract
\* allows: the output appears at once and before the report, "kept" is said
\* only when nothing of the run is in the database, "replaced" only when it is
\* (run_processing_runtime_invocation).
THEOREM RunsKeepContract == Spec => KeepsContract
<1>1. IInv /\ [Next]_vars => [Contract!Next]_<<database, Reported>>
  BY ContractStep
<1>2. Init => Contract!Init
  BY InitContract
<1>3. QED
  BY <1>1, <1>2, Invariance, PTL
  DEF Spec, KeepsContract, Contract!Spec, Reported

-----------------------------------------------------------------------------
(* What killed runs leave behind                                           *)

\* Before its transaction a run has written nothing; with the transaction it
\* has the write lock, and the journal beside the database is its own.
Owns(s) ==
  /\ run[s].pc \in {"off", "discover", "path", "open"} => ~ run[s].wrote
  /\ run[s].active =>
       writer = s /\ journal = IF run[s].wrote THEN s ELSE Unowned

Owned == \A s \in Sessions : Owns(s)

\* The moves of a run keep what it wrote.
LEMMA WroteKept ==
  ASSUME run \in [Sessions -> Runs], NEW s \in Sessions, NEW pc \in PCs,
         NEW active \in BOOLEAN, NEW failure \in Failures,
         Goto(s, pc) \/ MoveTo(s, pc, active) \/ FailAs(s, failure)
  PROVE  run'[s].wrote = run[s].wrote
<1>1. /\ [run[s] EXCEPT !.pc = pc].wrote = run[s].wrote
      /\ [run[s] EXCEPT !.pc = pc, !.active = active].wrote = run[s].wrote
      /\ [run[s] EXCEPT !.pc = "fail", !.failure = failure,
                        !.active = FALSE].wrote = run[s].wrote
  BY DEF Runs
<1>2. QED
  BY <1>1 DEF Goto, MoveTo, FailAs, Step

\* A run whose lock and journal a step leaves alone stays as it was.
LEMMA OwnedElsewhere ==
  ASSUME NEW t \in Sessions, Owns(t), run'[t] = run[t],
         run[t].active => writer' = writer /\ journal' = journal
  PROVE  Owns(t)'
  BY DEF Owns

\* Opening the database rolls back what lies there; only the holder of the lock
\* touches the journal afterwards.
LEMMA OwnedStep ==
  ASSUME IInv, Owned, [Next]_vars
  PROVE  Owned'
<1> USE DEF Owned
<1>1. run \in [Sessions -> Runs] /\ Unowned \notin Sessions
  BY ProcessingAssumption DEF IInv, ProcessingTypeOK
<1>2. ASSUME NEW s \in Sessions,
             \/ EnterRunning(s) \/ Discover(s) \/ DerivePath(s)
             \/ CheckBoundary(s) \/ SyncDatabase(s) \/ CheckSidecars(s)
             \/ CheckSidecarsAfterRollback(s) \/ Complete(s) \/ FailSession(s)
      PROVE  Owned'
  <2>1. PICK pc \in PCs, failure \in Failures :
          /\ Goto(s, pc) \/ FailAs(s, failure)
          /\ pc \in {"off", "discover", "path", "open"} =>
               run[s].pc \in {"off", "discover", "path", "open"}
    <3>1. {"discover", "path", "open", "commit", "rollback", "sidecars",
           "complete", "returned"} \subseteq PCs
      BY DEF PCs
    <3>2. {"setup", "path", "handler", "sidecar", "partial_commit"}
             \subseteq Failures
      BY DEF Failures
    <3>3. CASE EnterRunning(s)
      BY <3>1, <3>2, <3>3 DEF EnterRunning, At
    <3>4. CASE Discover(s)
      BY <3>1, <3>2, <3>4 DEF Discover, At
    <3>5. CASE DerivePath(s)
      BY <3>1, <3>2, <3>5 DEF DerivePath, At
    <3>6. CASE CheckBoundary(s)
      BY <3>1, <3>2, <3>6 DEF CheckBoundary, At
    <3>7. CASE SyncDatabase(s)
      BY <3>1, <3>2, <3>7 DEF SyncDatabase, At
    <3>8. CASE CheckSidecars(s)
      BY <3>1, <3>2, <3>8 DEF CheckSidecars, At
    <3>9. CASE CheckSidecarsAfterRollback(s)
      BY <3>1, <3>2, <3>9 DEF CheckSidecarsAfterRollback, At
    <3>10. CASE Complete(s)
      BY <3>1, <3>2, <3>10 DEF Complete, Returns, At
    <3>11. CASE FailSession(s)
      BY <3>1, <3>2, <3>11 DEF FailSession, Returns, At
    <3>12. QED
      BY <1>2, <3>3, <3>4, <3>5, <3>6, <3>7, <3>8, <3>9, <3>10, <3>11
  <2>2. UNCHANGED <<journal, writer>>
    BY <1>2
    DEF EnterRunning, Discover, DerivePath, CheckBoundary, SyncDatabase,
        CheckSidecars, CheckSidecarsAfterRollback, Complete, FailSession, sqlite
  <2>3. /\ run'[s].wrote = run[s].wrote
        /\ run'[s].active => run[s].active
        /\ run'[s].pc \in {"off", "discover", "path", "open"} =>
             run[s].pc \in {"off", "discover", "path", "open"}
        /\ \A t \in Sessions \ {s} : run'[t] = run[t]
    BY <1>1, <2>1, WroteKept, GotoEffect, FailAsEffect
  <2>4. Owns(s)'
    BY <2>2, <2>3 DEF Owns
  <2>5. QED
    BY <2>2, <2>3, <2>4, OwnedElsewhere
<1>3. ASSUME NEW s \in Sessions, OpenDatabase(s)
      PROVE  Owned'
  <2>1. CASE writer = Unowned /\ MoveTo(s, "handler", TRUE)
             /\ writer' = s /\ journal' = Unowned
    <3>1. /\ run'[s].pc = "handler" /\ run'[s].wrote = run[s].wrote
          /\ \A t \in Sessions \ {s} : run'[t] = run[t]
      BY <1>1, <2>1, MoveToEffect, WroteKept DEF PCs, Failures
    <3>2. ~ run[s].wrote /\ \A t \in Sessions : ~ run[t].active
      BY <1>1, <1>3, <2>1 DEF OpenDatabase, At, Owns
    <3>3. Owns(s)'
      BY <2>1, <3>1, <3>2 DEF Owns
    <3>4. QED
      BY <3>1, <3>2, <3>3, OwnedElsewhere
  <2>2. CASE FailAs(s, "setup") /\ UNCHANGED <<journal, writer>>
    <3>1. /\ run'[s].pc = "fail" /\ ~ run'[s].active
          /\ \A t \in Sessions \ {s} : run'[t] = run[t]
      BY <1>1, <2>2, FailAsEffect DEF Failures
    <3>2. Owns(s)'
      BY <3>1 DEF Owns
    <3>3. QED
      BY <2>2, <3>1, <3>2, OwnedElsewhere
  <2>3. QED
    BY <1>3, <2>1, <2>2 DEF OpenDatabase
<1>4. ASSUME NEW s \in Sessions, HandlerWrites(s)
      PROVE  Owned'
  <2>1. /\ [run[s] EXCEPT !.wrote = TRUE] \in Runs
        /\ [run[s] EXCEPT !.wrote = TRUE].wrote
        /\ [run[s] EXCEPT !.wrote = TRUE].pc = run[s].pc
    BY <1>1 DEF Runs
  <2>2. /\ run'[s].wrote /\ run'[s].pc = "handler"
        /\ \A t \in Sessions \ {s} : run'[t] = run[t]
    BY <1>1, <1>4, <2>1, StepEffect DEF HandlerWrites, At
  <2>3. writer = s /\ writer' = s /\ journal' = s
    BY <1>4 DEF HandlerWrites, Owns
  <2>4. \A t \in Sessions \ {s} : ~ run[t].active
    BY <2>3 DEF Owns
  <2>5. Owns(s)'
    BY <2>2, <2>3 DEF Owns
  <2>6. QED
    BY <2>2, <2>4, <2>5, OwnedElsewhere
<1>5. ASSUME NEW s \in Sessions,
             HandlerEndsTransaction(s) \/ CommitDatabase(s) \/ RollbackDatabase(s)
      PROVE  Owned'
  <2>1. /\ ~ run'[s].active
        /\ run'[s].pc \in {"handler", "sync", "sidecars_after_rollback", "fail"}
        /\ \A t \in Sessions \ {s} : run'[t] = run[t]
    <3>1. CASE HandlerEndsTransaction(s)
      <4>1. /\ [run[s] EXCEPT !.active = FALSE] \in Runs
            /\ ~ [run[s] EXCEPT !.active = FALSE].active
            /\ [run[s] EXCEPT !.active = FALSE].pc = run[s].pc
        BY <1>1 DEF Runs
      <4>2. QED
        BY <1>1, <3>1, <4>1, StepEffect DEF HandlerEndsTransaction, At
    <3>2. CASE CommitDatabase(s)
      BY <1>1, <3>2, MoveToEffect, FailAsEffect DEF CommitDatabase, PCs, Failures
    <3>3. CASE RollbackDatabase(s)
      BY <1>1, <3>3, MoveToEffect, FailAsEffect DEF RollbackDatabase, PCs, Failures
    <3>4. QED
      BY <1>5, <3>1, <3>2, <3>3
  <2>2. Closed(s)
    BY <1>5 DEF HandlerEndsTransaction, CommitDatabase, RollbackDatabase
  <2>3. Owns(s)'
    BY <2>1 DEF Owns
  <2>4. ASSUME NEW t \in Sessions \ {s} PROVE Owns(t)'
    <3>1. run[t].active => writer' = writer /\ journal' = journal
      BY <1>1, <2>2 DEF Owns, Closed
    <3>2. QED
      BY <2>1, <3>1, OwnedElsewhere
  <2>5. QED
    BY <2>3, <2>4
<1>6. ASSUME NEW s \in Sessions, Kill(s)
      PROVE  Owned'
  <2>1. /\ run'[s].pc = "dead" /\ ~ run'[s].active
        /\ \A t \in Sessions \ {s} : run'[t] = run[t]
    BY <1>1, <1>6, MoveToEffect DEF Kill, PCs
  <2>2. Owns(s)'
    BY <2>1 DEF Owns
  <2>3. ASSUME NEW t \in Sessions \ {s} PROVE Owns(t)'
    <3>1. run[t].active => writer' = writer /\ journal' = journal
      BY <1>1, <1>6 DEF Owns, Kill
    <3>2. QED
      BY <2>1, <3>1, OwnedElsewhere
  <2>4. QED
    BY <2>2, <2>3
<1>7. ASSUME NEW s \in Sessions, HandlerReturns(s)
      PROVE  Owned'
  <2>1. PICK result \in {"ok", "error"} :
          Step(s, [run[s] EXCEPT !.pc = "boundary", !.result = result])
    BY <1>7 DEF HandlerReturns
  <2> DEFINE r == [run[s] EXCEPT !.pc = "boundary", !.result = result]
  <2>2. /\ r \in Runs /\ r.pc = "boundary"
        /\ r.active = run[s].active /\ r.wrote = run[s].wrote
    BY <1>1 DEF Runs, PCs
  <2>3. run'[s] = r /\ \A t \in Sessions \ {s} : run'[t] = run[t]
    BY <1>1, <2>1, <2>2, StepEffect
  <2> HIDE DEF r
  <2>4. UNCHANGED <<journal, writer>>
    BY <1>7 DEF HandlerReturns, sqlite
  <2>5. Owns(s)'
    BY <2>2, <2>3, <2>4 DEF Owns
  <2>6. QED
    BY <2>3, <2>4, <2>5, OwnedElsewhere
<1>8. ASSUME NEW s \in Sessions, HandlerWritesAlone(s)
      PROVE  Owned'
  <2>1. run' = run /\ \A t \in Sessions : ~ run[t].active
    BY <1>1, <1>8 DEF HandlerWritesAlone, Owns
  <2>2. QED
    BY <2>1, OwnedElsewhere
<1>9. ASSUME NEW s \in Sessions, Reconcile(s)
      PROVE  Owned'
  BY <1>9 DEF Reconcile, sqlite, Owns
<1>10. CASE UNCHANGED vars
  BY <1>10 DEF vars, Owns
<1>11. QED
  BY <1>2, <1>3, <1>4, <1>5, <1>6, <1>7, <1>8, <1>9, <1>10 DEF Next, RuntimeStep

\* However many runs were killed in their transactions: a run whose transaction
\* is open has no journal beside its database but its own, so the leftover of
\* the dead was rolled back before it read or wrote anything
\* (open_processing_database).
THEOREM LeftoversAreRolledBack == Spec => []JournalIsOwn
<1>1. Init => Owned
  <2>1. ~ Off.active /\ ~ Off.wrote
    BY DEF Off
  <2>2. QED
    BY <2>1 DEF Init, Owned, Owns
<1>2. IInv /\ Owned /\ [Next]_vars => Owned'
  BY OwnedStep
<1>3. Owned => JournalIsOwn
  BY DEF Owned, Owns, JournalIsOwn
<1>4. QED
  BY <1>1, <1>2, <1>3, Invariance, PTL DEF Spec

=============================================================================
