------------------------ MODULE JobExecution_proofs ------------------------
(***************************************************************************)
(* Proofs about JobExecution, for every set of executors, keys and inputs, *)
(* every retry limit and every combination of faults.                      *)
(***************************************************************************)
EXTENDS JobExecution, TLAPS

USE MaxAttemptsAssumption, ErrorBoundAssumption, NullsAssumption

-----------------------------------------------------------------------------
\* The row operations return rows, with the attempt number they promise.
LEMMA RowOperations ==
    ASSUME NEW row \in Row
    PROVE  /\ Succeed(row) \in Row
           /\ Succeed(row).attempt = row.attempt
           /\ Succeed(row).status = "SUCCEEDED"
           /\ Fail(row) \in Row
           /\ Fail(row).attempt = row.attempt
           /\ Fail(row).status = "FAILED"
           /\ \A input \in Inputs :
                 /\ StartOrRetry(row, input) \in Row
                 /\ StartOrRetry(row, input).attempt = row.attempt + 1
                 /\ StartOrRetry(row, input).status = "RUNNING"
  BY DEF Row, RowStatus, StartOrRetry, Succeed, Fail

\* What TypeOK says of one executor's call.
LEMMA CallTyped ==
    ASSUME TypeOK, NEW e \in Executors
    PROVE  KeyOf(e) \in Keys /\ InputOf(e) \in Inputs /\ RowOf(e) \in Row
           /\ draft[e] \in Row /\ RowOf(e).attempt \in Nat
  BY DEF TypeOK, KeyOf, InputOf, RowOf, Row

-----------------------------------------------------------------------------
\* Every reachable state is well typed: rows, places, drafts and outcomes keep
\* to the values the executor and the task_run table use.
THEOREM TypeCorrect == Spec => []TypeOK
<1>1. Init => TypeOK
  BY DEF Init, TypeOK, AbsentRow, Row, RowStatus, Places, Outcomes
<1>2. TypeOK /\ [Next]_vars => TypeOK'
  <2> SUFFICES ASSUME TypeOK, [Next]_vars PROVE TypeOK'
    OBVIOUS
  <2>1. ASSUME NEW e \in Executors, NEW k \in Keys, NEW i \in Inputs,
               Invoke(e, k, i)
        PROVE  TypeOK'
    BY <2>1 DEF Invoke, TypeOK, Places, Outcomes
  <2>2. ASSUME NEW e \in Executors, Proceed(e) PROVE TypeOK'
    <3> USE CallTyped, RowOperations
        DEF TypeOK, ReleaseLock, Finish, Places, Outcomes, Success
    <3>1. CASE LockAcquired(e)
      BY <3>1 DEF LockAcquired
    <3>2. CASE RejectConflict(e) \/ ReuseSuccess(e)
      BY <3>2 DEF RejectConflict, ReuseSuccess
    <3>3. CASE ExhaustRetries(e)
      BY <3>3 DEF ExhaustRetries, RowOf
    <3>4. CASE StartRun(e)
      BY <3>4 DEF StartRun
    <3>5. CASE RunCommits(e)
      BY <3>5 DEF RunCommits, CommitRun
    <3>6. CASE HandlerRaises(e) \/ RecordBusy(e)
      BY <3>6 DEF HandlerRaises, RecordBusy
    <3>7. CASE RecordStarts(e)
      BY <3>7 DEF RecordStarts
    <3>8. CASE RecordCommits(e)
      BY <3>8 DEF RecordCommits
    <3>9. CASE LockBusy(e)
      BY <3>9 DEF LockBusy
    <3> QED BY <2>2, <3>1, <3>2, <3>3, <3>4, <3>5, <3>6, <3>7, <3>8, <3>9
            DEF Proceed
  <2>3. ASSUME NEW e \in Executors, Fault(e) PROVE TypeOK'
    <3> USE CallTyped, RowOperations
        DEF TypeOK, ReleaseLock, DropLocks, Finish, Places, Outcomes, Success
    <3>1. CASE HandlerRaisesApplicationError(e)
      BY <3>1 DEF HandlerRaisesApplicationError
    <3>2. CASE CommitAckLost(e)
      BY <3>2 DEF CommitAckLost, CommitRun
    <3>3. CASE DatabaseFails(e)
      BY <3>3 DEF DatabaseFails
    <3>4. CASE RecordLost(e)
      BY <3>4 DEF RecordLost
    <3>5. CASE Crash(e)
      BY <3>5 DEF Crash
    <3> QED BY <2>3, <3>1, <3>2, <3>3, <3>4, <3>5 DEF Fault
  <2>4. CASE UNCHANGED vars
    BY <2>4 DEF vars, TypeOK
  <2> QED BY <2>1, <2>2, <2>3, <2>4 DEF Next
<1> QED BY <1>1, <1>2, PTL DEF Spec

-----------------------------------------------------------------------------
\* The advisory lock of a key is held by exactly the executor that is inside a
\* transaction of that key: handlers of one key exclude each other, and every
\* way out of a transaction gives the lock back.
LEMMA LockInductive ==
    ASSUME TypeOK, LockIsHeldInside, [Next]_vars
    PROVE  LockIsHeldInside'
<1> SUFFICES ASSUME NEW k \in Keys, NEW f \in Executors
             PROVE  (lock[k] = f <=> KeyOf(f) = k /\ pc[f] \in LockedPlaces)'
  BY DEF LockIsHeldInside
<1>0. lock[k] = f <=> KeyOf(f) = k /\ pc[f] \in LockedPlaces
  BY DEF LockIsHeldInside
<1> USE DEF LockIsHeldInside, LockedPlaces, TypeOK, KeyOf, ReleaseLock, DropLocks,
            Finish
<1>1. ASSUME NEW e \in Executors, NEW c \in Keys, NEW i \in Inputs, Invoke(e, c, i)
      PROVE  (lock[k] = f <=> KeyOf(f) = k /\ pc[f] \in LockedPlaces)'
  BY <1>0, <1>1 DEF Invoke
<1>2. ASSUME NEW e \in Executors, Proceed(e)
      PROVE  (lock[k] = f <=> KeyOf(f) = k /\ pc[f] \in LockedPlaces)'
  <2>1. CASE LockAcquired(e)
    BY <1>0, <2>1 DEF LockAcquired
  <2>2. CASE LockBusy(e) \/ RecordBusy(e)
    BY <1>0, <2>2 DEF LockBusy, RecordBusy
  <2>3. CASE RejectConflict(e) \/ ReuseSuccess(e) \/ ExhaustRetries(e)
    BY <1>0, <2>3 DEF RejectConflict, ReuseSuccess, ExhaustRetries
  <2>4. CASE StartRun(e)
    BY <1>0, <2>4 DEF StartRun
  <2>5. CASE RunCommits(e) \/ HandlerRaises(e)
    BY <1>0, <2>5 DEF RunCommits, CommitRun, HandlerRaises
  <2>6. CASE RecordStarts(e)
    BY <1>0, <2>6 DEF RecordStarts
  <2>7. CASE RecordCommits(e)
    BY <1>0, <2>7 DEF RecordCommits
  <2> QED BY <1>2, <2>1, <2>2, <2>3, <2>4, <2>5, <2>6, <2>7 DEF Proceed
<1>3. ASSUME NEW e \in Executors, Fault(e)
      PROVE  (lock[k] = f <=> KeyOf(f) = k /\ pc[f] \in LockedPlaces)'
  <2>1. CASE HandlerRaisesApplicationError(e) \/ CommitAckLost(e)
    BY <1>0, <2>1 DEF HandlerRaisesApplicationError, CommitAckLost, CommitRun
  <2>2. CASE DatabaseFails(e) \/ RecordLost(e) \/ Crash(e)
    BY <1>0, <2>2 DEF DatabaseFails, RecordLost, Crash
  <2> QED BY <1>3, <2>1, <2>2 DEF Fault
<1>4. CASE UNCHANGED vars
  BY <1>0, <1>4 DEF vars
<1> QED BY <1>1, <1>2, <1>3, <1>4 DEF Next

\* The advisory lock of a key is held exactly while an executor is inside a
\* transaction of that key: two handlers of one key never run together.
THEOREM LockSafe == Spec => []LockIsHeldInside
<1>1. Init => LockIsHeldInside
  BY DEF Init, LockIsHeldInside, LockedPlaces
<1>2. TypeOK /\ LockIsHeldInside /\ [Next]_vars => LockIsHeldInside'
  BY LockInductive
<1> QED BY <1>1, <1>2, TypeCorrect, PTL DEF Spec

-----------------------------------------------------------------------------
(* The safety invariants are not inductive as they stand.  EffectsWithin-  *)
(* RetryLimit needs that a handler in flight passed the attempt check for  *)
(* the row as it still is, which needs the lock; SuccessHasEffect needs    *)
(* that a recorded failure never carries another status than FAILED.       *)

AbsentIsFresh ==
    \A k \in Keys : taskRun[k].status = "ABSENT" => taskRun[k].attempt = 0

RunningWithinLimit ==
    \A e \in Executors :
        pc[e] = "running" =>
            RowOf(e).attempt < MaxAttempts /\ RowOf(e).status # "SUCCEEDED"

MarkingIsFailure ==
    \A e \in Executors : pc[e] = "marking" => draft[e].status = "FAILED"

JobInv ==
    /\ NoLostUpdate
    /\ SuccessHasEffect
    /\ EffectsWithinRetryLimit
    /\ ReportedSuccessIsDurable
    /\ AbsentIsFresh
    /\ RunningWithinLimit
    /\ MarkingIsFailure

\* The row of an executor's key is a row, with a number of attempts.
LEMMA RowTyped ==
    ASSUME TypeOK, NEW k \in Keys
    PROVE  taskRun[k] \in Row /\ taskRun[k].attempt \in Nat /\ effects[k] \in Nat
  BY DEF TypeOK, Row

\* Two executors inside a transaction are in transactions of different keys.
LEMMA InsideExcludes ==
    ASSUME LockIsHeldInside, TypeOK,
           NEW e \in Executors, NEW f \in Executors,
           e # f, pc[e] \in LockedPlaces, pc[f] \in LockedPlaces
    PROVE  KeyOf(e) # KeyOf(f)
  BY CallTyped DEF LockIsHeldInside

\* A step that writes no row and no effect, of an executor that ends outside
\* the transactions and reports no success it has not read in the row.
LEMMA QuietStep ==
    ASSUME TypeOK, JobInv, NEW e \in Executors,
           taskRun' = taskRun, effects' = effects, draft' = draft,
           NEW place \in Places \ {"running", "marking"},
           NEW result \in Outcomes,
           pc' = [pc EXCEPT ![e] = place],
           outcome' = [outcome EXCEPT ![e] = result],
           \A f \in Executors : f # e => call'[f] = call[f],
           result \in Success => effects[KeyOf(e)] >= 1 /\ call' = call
    PROVE  JobInv'
<1> USE DEF TypeOK, KeyOf, RowOf
<1>1. NoLostUpdate' /\ RunningWithinLimit' /\ MarkingIsFailure'
  BY DEF JobInv, NoLostUpdate, RunningWithinLimit, MarkingIsFailure
<1>2. SuccessHasEffect' /\ EffectsWithinRetryLimit' /\ AbsentIsFresh'
  BY DEF JobInv, SuccessHasEffect, EffectsWithinRetryLimit, AbsentIsFresh
<1>3. ReportedSuccessIsDurable'
  BY DEF JobInv, ReportedSuccessIsDurable
<1> QED BY <1>1, <1>2, <1>3 DEF JobInv

\* A commit by the executor inside the key's transaction.
LEMMA CommitStep ==
    ASSUME TypeOK, LockIsHeldInside, JobInv, NEW e \in Executors,
           pc[e] \in LockedPlaces,
           NEW row \in Row, NEW n \in Nat,
           taskRun' = [taskRun EXCEPT ![KeyOf(e)] = row],
           effects' = [effects EXCEPT ![KeyOf(e)] = n],
           n >= effects[KeyOf(e)], 2 * n <= MaxAttempts + 1,
           row.status = "SUCCEEDED" => 2 * n <= row.attempt + 1,
           row.status = "FAILED" => 2 * n <= row.attempt,
           row.status \in {"SUCCEEDED", "FAILED"},
           row.status = "SUCCEEDED" => n >= 1,
           NEW place \in {"idle", "recording"},
           NEW result \in Outcomes,
           pc' = [pc EXCEPT ![e] = place],
           outcome' = [outcome EXCEPT ![e] = result],
           result \in Success => n >= 1,
           call' = call, draft' = draft
    PROVE  JobInv'
<1> KeyOf(e) \in Keys BY CallTyped
<1>1. SuccessHasEffect' /\ EffectsWithinRetryLimit' /\ AbsentIsFresh'
  BY DEF JobInv, SuccessHasEffect, EffectsWithinRetryLimit, AbsentIsFresh, TypeOK
<1>2. ASSUME NEW f \in Executors, pc'[f] \in {"running", "marking"}
      PROVE  f # e /\ pc'[f] = pc[f] /\ RowOf(f)' = RowOf(f)
  <2>1. f # e /\ pc'[f] = pc[f]
    BY <1>2 DEF TypeOK
  <2>2. KeyOf(f) # KeyOf(e)
    BY <2>1, <1>2, InsideExcludes DEF LockedPlaces
  <2> QED BY <2>1, <2>2 DEF TypeOK, RowOf, KeyOf
<1>3. NoLostUpdate' /\ RunningWithinLimit' /\ MarkingIsFailure'
  BY <1>2 DEF JobInv, NoLostUpdate, RunningWithinLimit, MarkingIsFailure
<1>4. ReportedSuccessIsDurable'
  BY RowTyped DEF JobInv, ReportedSuccessIsDurable, TypeOK, KeyOf
<1> QED BY <1>1, <1>3, <1>4 DEF JobInv

\* The executor inside the transaction flushes the next attempt's row.
LEMMA DraftStep ==
    ASSUME TypeOK, JobInv, NEW e \in Executors,
           NEW row \in Row, row.attempt = RowOf(e).attempt + 1,
           NEW place \in {"running", "marking"},
           place = "running" =>
               RowOf(e).attempt < MaxAttempts /\ RowOf(e).status # "SUCCEEDED",
           place = "marking" => row.status = "FAILED",
           draft' = [draft EXCEPT ![e] = row],
           pc' = [pc EXCEPT ![e] = place],
           UNCHANGED <<taskRun, effects, call, outcome>>
    PROVE  JobInv'
<1>1. NoLostUpdate' /\ RunningWithinLimit' /\ MarkingIsFailure'
  BY DEF JobInv, NoLostUpdate, RunningWithinLimit, MarkingIsFailure, TypeOK,
         RowOf, KeyOf
<1>2. SuccessHasEffect' /\ EffectsWithinRetryLimit' /\ AbsentIsFresh'
      /\ ReportedSuccessIsDurable'
  BY DEF JobInv, SuccessHasEffect, EffectsWithinRetryLimit, AbsentIsFresh,
         ReportedSuccessIsDurable, KeyOf
<1> QED BY <1>1, <1>2 DEF JobInv

\* A commit of the handler's transaction, with or without its answer.
LEMMA CommitRunStep ==
    ASSUME TypeOK, LockIsHeldInside, JobInv, NEW e \in Executors,
           pc[e] = "running", CommitRun(e), UNCHANGED <<call, draft>>,
           NEW place \in {"idle", "recording"}, NEW result \in Outcomes,
           pc' = [pc EXCEPT ![e] = place],
           outcome' = [outcome EXCEPT ![e] = result]
    PROVE  JobInv'
<1> DEFINE n == effects[KeyOf(e)] + 1
<1>1. KeyOf(e) \in Keys /\ draft[e] \in Row
  BY CallTyped
<1>2. n \in Nat /\ n >= 1 /\ n >= effects[KeyOf(e)]
  BY <1>1, RowTyped
<1>3. 2 * n <= RowOf(e).attempt + 2 /\ 2 * n <= MaxAttempts + 1
  BY <1>1, RowTyped
  DEF JobInv, EffectsWithinRetryLimit, RunningWithinLimit, RowOf
<1>4. draft[e].attempt = RowOf(e).attempt + 1
  BY DEF JobInv, NoLostUpdate
<1>5. /\ Succeed(draft[e]) \in Row
      /\ Succeed(draft[e]).attempt = draft[e].attempt
      /\ Succeed(draft[e]).status = "SUCCEEDED"
  BY <1>1, RowOperations
<1>6. /\ taskRun' = [taskRun EXCEPT ![KeyOf(e)] = Succeed(draft[e])]
      /\ effects' = [effects EXCEPT ![KeyOf(e)] = n]
  BY DEF CommitRun
<1>7. pc[e] \in LockedPlaces
  BY DEF LockedPlaces
<1>8. 2 * n <= Succeed(draft[e]).attempt + 1
  BY <1>1, <1>3, <1>4, <1>5, RowTyped DEF RowOf
<1>9. call' = call /\ draft' = draft
  OBVIOUS
<1> HIDE DEF n
<1> QED BY <1>2, <1>3, <1>5, <1>6, <1>7, <1>8, <1>9, CommitStep

\* A commit that replaces a row by a FAILED one, at the same or a later attempt.
LEMMA CommitFailureStep ==
    ASSUME TypeOK, LockIsHeldInside, JobInv, NEW e \in Executors,
           pc[e] \in LockedPlaces,
           NEW row \in Row, row.status = "FAILED", row.attempt >= RowOf(e).attempt,
           RowOf(e).status = "SUCCEEDED" => row.attempt > RowOf(e).attempt,
           taskRun' = [taskRun EXCEPT ![KeyOf(e)] = row],
           UNCHANGED <<effects, call, draft>>,
           NEW result \in Outcomes \ Success, Finish(e, result)
    PROVE  JobInv'
<1> DEFINE n == effects[KeyOf(e)]
<1>1. KeyOf(e) \in Keys /\ RowOf(e).attempt \in Nat /\ row.attempt \in Nat
  BY CallTyped DEF Row
<1>2. n \in Nat /\ 2 * n <= MaxAttempts + 1
  BY <1>1, RowTyped DEF JobInv, EffectsWithinRetryLimit, RowOf
<1>3. 2 * n <= row.attempt /\ n >= effects[KeyOf(e)]
  BY <1>1, <1>2, RowTyped DEF JobInv, EffectsWithinRetryLimit, RowOf
<1>4. effects' = [effects EXCEPT ![KeyOf(e)] = n]
  BY DEF TypeOK
<1>5. /\ pc' = [pc EXCEPT ![e] = "idle"]
      /\ outcome' = [outcome EXCEPT ![e] = result]
      /\ call' = call /\ draft' = draft
  BY DEF Finish
<1> HIDE DEF n
<1> QED BY <1>2, <1>3, <1>4, <1>5, CommitStep

\* Every step of execute() and _record_failure() keeps JobInv.
LEMMA JobInductive ==
    ASSUME TypeOK, LockIsHeldInside, JobInv, [Next]_vars
    PROVE  JobInv'
<1>1. ASSUME NEW e \in Executors, NEW k \in Keys, NEW i \in Inputs, Invoke(e, k, i)
      PROVE  JobInv'
  <2>1. \A f \in Executors : f # e => call'[f] = call[f]
    BY <1>1 DEF Invoke, TypeOK
  <2> QED BY <1>1, <2>1, QuietStep DEF Invoke, Places, Outcomes, Success
<1>2. ASSUME NEW e \in Executors, Proceed(e) PROVE JobInv'
  <2> USE DEF Finish, Places, Outcomes, Success
  <2> outcome[e] \in Outcomes BY DEF TypeOK
  <2>0. KeyOf(e) \in Keys /\ InputOf(e) \in Inputs /\ RowOf(e) \in Row
        /\ draft[e] \in Row
    BY CallTyped
  <2>1. CASE LockAcquired(e)
    <3>1. outcome' = [outcome EXCEPT ![e] = outcome[e]]
      BY <2>1 DEF LockAcquired, TypeOK
    <3>2. outcome[e] \in Success => effects[KeyOf(e)] >= 1
      BY DEF JobInv, ReportedSuccessIsDurable
    <3> QED BY <2>1, <3>1, <3>2, QuietStep DEF LockAcquired
  <2>2. CASE LockBusy(e) \/ RejectConflict(e)
    BY <2>2, QuietStep DEF LockBusy, RejectConflict
  <2>3. CASE ReuseSuccess(e)
    <3>1. effects[KeyOf(e)] >= 1
      BY <2>3, <2>0 DEF ReuseSuccess, AlreadySucceeded, RowOf, JobInv, SuccessHasEffect
    <3> QED BY <2>3, <3>1, QuietStep DEF ReuseSuccess
  <2>4. CASE ExhaustRetries(e)
    <3>1. taskRun' = [taskRun EXCEPT ![KeyOf(e)] = Fail(RowOf(e))]
          /\ pc[e] \in LockedPlaces
      BY <2>4 DEF ExhaustRetries, RowOf, TypeOK, LockedPlaces
    <3>2. Fail(RowOf(e)) \in Row /\ Fail(RowOf(e)).status = "FAILED"
          /\ Fail(RowOf(e)).attempt >= RowOf(e).attempt
      BY <2>0, CallTyped, RowOperations
    <3>3. Finish(e, "exhausted") /\ "exhausted" \in Outcomes \ Success
      BY <2>4 DEF ExhaustRetries
    <3>4. RowOf(e).status # "SUCCEEDED"
      BY <2>4 DEF ExhaustRetries, AlreadySucceeded
    <3> QED BY <2>4, <3>1, <3>2, <3>3, <3>4, CommitFailureStep DEF ExhaustRetries
  <2>5. CASE StartRun(e)
    <3>1. RowOf(e).attempt < MaxAttempts /\ RowOf(e).status # "SUCCEEDED"
      <4>1. CASE RowOf(e).status = "ABSENT"
        BY <4>1, <2>0 DEF JobInv, AbsentIsFresh, RowOf
      <4>2. CASE RowOf(e).status # "ABSENT"
        BY <4>2, <2>5, <2>0
        DEF StartRun, AttemptsExhausted, AlreadySucceeded, Exists, Row
      <4> QED BY <4>1, <4>2
    <3> QED BY <2>5, <2>0, <3>1, RowOperations, DraftStep DEF StartRun
  <2>6. CASE RunCommits(e)
    BY <2>6, CommitRunStep DEF RunCommits
  <2>7. CASE HandlerRaises(e)
    <3>1. outcome' = [outcome EXCEPT ![e] = outcome[e]]
      BY <2>7 DEF HandlerRaises, TypeOK
    <3>2. outcome[e] \in Success => effects[KeyOf(e)] >= 1
      BY DEF JobInv, ReportedSuccessIsDurable
    <3> QED BY <2>7, <3>1, <3>2, QuietStep DEF HandlerRaises
  <2>8. CASE RecordBusy(e)
    BY <2>8, QuietStep DEF RecordBusy
  <2>9. CASE RecordStarts(e)
    <3>1. StartOrRetry(RowOf(e), InputOf(e)) \in Row
      BY <2>0, RowOperations
    <3> QED BY <2>9, <2>0, <3>1, RowOperations, DraftStep DEF RecordStarts
  <2>10. CASE RecordCommits(e)
    <3>1. taskRun' = [taskRun EXCEPT ![KeyOf(e)] = draft[e]]
          /\ pc[e] \in LockedPlaces
      BY <2>10 DEF RecordCommits, LockedPlaces
    <3>2. /\ draft[e].attempt > RowOf(e).attempt
          /\ draft[e].attempt >= RowOf(e).attempt
          /\ draft[e].status = "FAILED"
      BY <2>10, CallTyped DEF RecordCommits, JobInv, NoLostUpdate, MarkingIsFailure
    <3>3. Finish(e, "failed") /\ "failed" \in Outcomes \ Success
      BY <2>10 DEF RecordCommits
    <3> QED BY <2>0, <2>10, <3>1, <3>2, <3>3, CommitFailureStep DEF RecordCommits
  <2> QED BY <1>2, <2>1, <2>2, <2>3, <2>4, <2>5, <2>6, <2>7, <2>8, <2>9, <2>10
          DEF Proceed
<1>3. ASSUME NEW e \in Executors, Fault(e) PROVE JobInv'
  <2> USE DEF Finish, Places, Outcomes, Success
  <2>1. outcome[e] \in Outcomes
        /\ (outcome[e] \in Success => effects[KeyOf(e)] >= 1)
    BY DEF TypeOK, JobInv, ReportedSuccessIsDurable
  <2>2. CASE HandlerRaisesApplicationError(e) \/ RecordLost(e) \/ Crash(e)
    BY <2>2, QuietStep DEF HandlerRaisesApplicationError, RecordLost, Crash
  <2>3. CASE CommitAckLost(e)
    <3>1. outcome' = [outcome EXCEPT ![e] = outcome[e]]
      BY <2>3 DEF CommitAckLost, TypeOK
    <3> QED BY <2>1, <2>3, <3>1, CommitRunStep DEF CommitAckLost
  <2>4. CASE DatabaseFails(e)
    <3>1. outcome' = [outcome EXCEPT ![e] = outcome[e]]
      BY <2>4 DEF DatabaseFails, TypeOK
    <3> QED BY <2>1, <2>4, <3>1, QuietStep DEF DatabaseFails
  <2> QED BY <1>3, <2>2, <2>3, <2>4 DEF Fault
<1>4. CASE UNCHANGED vars
  BY <1>4 DEF vars, JobInv, NoLostUpdate, SuccessHasEffect, EffectsWithinRetryLimit,
              ReportedSuccessIsDurable, AbsentIsFresh, RunningWithinLimit,
              MarkingIsFailure, RowOf, KeyOf
<1> QED BY <1>1, <1>2, <1>3, <1>4 DEF Next

\* The safety of job execution: no lost update of a row, a SUCCEEDED row beside
\* its effect, at most one effect for two attempts, no false report of success.
THEOREM JobSafe ==
    Spec => [](/\ NoLostUpdate
               /\ SuccessHasEffect
               /\ EffectsWithinRetryLimit
               /\ ReportedSuccessIsDurable)
<1>1. Init => JobInv
  BY DEF Init, JobInv, NoLostUpdate, SuccessHasEffect, EffectsWithinRetryLimit,
         ReportedSuccessIsDurable, AbsentIsFresh, RunningWithinLimit,
         MarkingIsFailure, AbsentRow, Success
<1>2. TypeOK /\ LockIsHeldInside /\ JobInv /\ [Next]_vars => JobInv'
  BY JobInductive
<1>3. JobInv => /\ NoLostUpdate
                /\ SuccessHasEffect
                /\ EffectsWithinRetryLimit
                /\ ReportedSuccessIsDurable
  BY DEF JobInv
<1> QED BY <1>1, <1>2, <1>3, TypeCorrect, LockSafe, PTL DEF Spec

\* No attempt that another executor recorded is overwritten: a row about to be
\* committed is the successor of the row it replaces.
THEOREM NoAttemptIsLost == Spec => []NoLostUpdate
  BY JobSafe, PTL

\* A caller that is told of success is told the truth, also after later failures
\* and crashes: the handler's writes are committed.
THEOREM ReportsAreTrue == Spec => []ReportedSuccessIsDurable
  BY JobSafe, PTL

\* A key that used up its attempts stays FAILED and gets no further effect:
\* whoever is still running its handler would hold the lock, and would have
\* passed the attempt check for the row as it is.
LEMMA ExhaustionStep ==
    ASSUME TypeOK, JobInv, [Next]_vars, NEW k \in Keys,
           taskRun[k].status = "FAILED", taskRun[k].attempt >= MaxAttempts
    PROVE  effects'[k] = effects[k] /\ taskRun'[k].status = "FAILED"
<1> USE DEF TypeOK
<1>1. ASSUME NEW e \in Executors, pc[e] = "running", CommitRun(e)
      PROVE  effects'[k] = effects[k] /\ taskRun'[k].status = "FAILED"
  <2>1. KeyOf(e) # k
    BY <1>1, RowTyped DEF JobInv, RunningWithinLimit, RowOf
  <2> QED BY <1>1, <2>1 DEF CommitRun
<1>2. ASSUME NEW e \in Executors, Proceed(e)
      PROVE  effects'[k] = effects[k] /\ taskRun'[k].status = "FAILED"
  <2>1. CASE ExhaustRetries(e)
    BY <2>1, RowTyped, RowOperations DEF ExhaustRetries
  <2>2. CASE RunCommits(e)
    BY <2>2, <1>1 DEF RunCommits
  <2>3. CASE RecordCommits(e)
    BY <2>3 DEF RecordCommits, JobInv, MarkingIsFailure
  <2>4. CASE UNCHANGED <<taskRun, effects>>
    BY <2>4
  <2> QED BY <1>2, <2>1, <2>2, <2>3, <2>4
          DEF Proceed, LockAcquired, LockBusy, RejectConflict, ReuseSuccess,
              StartRun, HandlerRaises, RecordBusy, RecordStarts
<1>3. ASSUME NEW e \in Executors, Fault(e)
      PROVE  effects'[k] = effects[k] /\ taskRun'[k].status = "FAILED"
  <2>1. CASE CommitAckLost(e)
    BY <2>1, <1>1 DEF CommitAckLost
  <2>2. CASE UNCHANGED <<taskRun, effects>>
    BY <2>2
  <2> QED BY <1>3, <2>1, <2>2
          DEF Fault, HandlerRaisesApplicationError, DatabaseFails, RecordLost, Crash
<1>4. CASE (\E e \in Executors, c \in Keys, i \in Inputs : Invoke(e, c, i))
           \/ UNCHANGED vars
  BY <1>4 DEF Invoke, vars
<1> QED BY <1>2, <1>3, <1>4 DEF Next

\* A key that has used up its attempts without success stays FAILED, and its
\* handler's writes are not committed any more.
THEOREM ExhaustionFinal == Spec => ExhaustionIsFinal
<1>1. Init => JobInv
  BY DEF Init, JobInv, NoLostUpdate, SuccessHasEffect, EffectsWithinRetryLimit,
         ReportedSuccessIsDurable, AbsentIsFresh, RunningWithinLimit,
         MarkingIsFailure, AbsentRow, Success
<1>2. TypeOK /\ LockIsHeldInside /\ JobInv /\ [Next]_vars => JobInv'
  BY JobInductive
<1>3. TypeOK /\ JobInv /\ [Next]_vars =>
        [\A k \in Keys :
            taskRun[k].status = "FAILED" /\ taskRun[k].attempt >= MaxAttempts
                => effects'[k] = effects[k] /\ taskRun'[k].status = "FAILED"]_vars
  BY ExhaustionStep
<1> QED BY <1>1, <1>2, <1>3, TypeCorrect, LockSafe, PTL DEF Spec, ExhaustionIsFinal

-----------------------------------------------------------------------------
(* A single worker without database errors outside the handler and without *)
(* lost commit answers: the case in which "exactly once" does hold.        *)

SingleWorker ==
    /\ \A e, f \in Executors : e = f
    /\ Faults \cap {"db_error", "ack_lost"} = {}

\* Past the checks of execute() the row is open, and stays so until the attempt
\* is committed or recorded: nobody else can close it.
OpenWhileTrying ==
    \A e \in Executors :
        pc[e] \in {"running", "recording", "marking"} =>
            RowOf(e).status # "SUCCEEDED" /\ RowOf(e).attempt < MaxAttempts

EffectIffSucceeded ==
    \A k \in Keys :
        effects[k] = IF taskRun[k].status = "SUCCEEDED" THEN 1 ELSE 0

OnceInv == OpenWhileTrying /\ EffectIffSucceeded

\* One step of a single worker keeps OnceInv, leaves a SUCCEEDED row alone and
\* is a step of the idempotent job or changes nothing it speaks of.
LEMMA SingleStep ==
    ASSUME SingleWorker, TypeOK, JobInv, OnceInv, [Next]_vars
    PROVE  /\ OnceInv'
           /\ \A k \in Keys :
                taskRun[k].status = "SUCCEEDED" => taskRun'[k] = taskRun[k]
           /\ [Job!Next]_(Job!jobVars)
<1> DEFINE Goal == /\ OnceInv'
                   /\ \A k \in Keys :
                        taskRun[k].status = "SUCCEEDED" => taskRun'[k] = taskRun[k]
                   /\ [Job!Next]_(Job!jobVars)
<1>1. ASSUME UNCHANGED <<taskRun, effects>>, OpenWhileTrying' PROVE Goal
  BY <1>1 DEF OnceInv, EffectIffSucceeded, Job!jobVars
<1>2. ASSUME NEW e \in Executors, NEW k \in Keys, NEW i \in Inputs, Invoke(e, k, i)
      PROVE  Goal
  BY <1>1, <1>2 DEF Invoke, OpenWhileTrying, OnceInv, TypeOK, RowOf, KeyOf
<1>3. ASSUME NEW e \in Executors, Proceed(e) PROVE Goal
  <2> USE DEF SingleWorker
  <2>0. KeyOf(e) \in Keys /\ RowOf(e) \in Row /\ RowOf(e).attempt \in Nat
    BY CallTyped
  <2>1. CASE LockAcquired(e) \/ LockBusy(e) \/ RejectConflict(e)
             \/ ReuseSuccess(e) \/ RecordBusy(e)
    BY <1>1, <2>1 DEF LockAcquired, LockBusy, RejectConflict, ReuseSuccess,
           RecordBusy, Finish, OpenWhileTrying, OnceInv, TypeOK, RowOf, KeyOf
  <2>2. CASE HandlerRaises(e) \/ RecordStarts(e)
    BY <1>1, <2>2 DEF HandlerRaises, RecordStarts, OpenWhileTrying, OnceInv,
           TypeOK, RowOf, KeyOf
  <2>3. CASE StartRun(e)
    <3>1. RowOf(e).attempt < MaxAttempts /\ RowOf(e).status # "SUCCEEDED"
      <4>1. CASE RowOf(e).status = "ABSENT"
        BY <4>1, <2>0 DEF JobInv, AbsentIsFresh, RowOf
      <4>2. CASE RowOf(e).status # "ABSENT"
        BY <4>2, <2>3, <2>0 DEF StartRun, AttemptsExhausted, AlreadySucceeded, Exists
      <4> QED BY <4>1, <4>2
    <3>2. UNCHANGED <<taskRun, effects>> /\ OpenWhileTrying'
      BY <3>1, <2>3 DEF StartRun, OpenWhileTrying, TypeOK, RowOf, KeyOf
    <3> QED BY <1>1, <3>2
  <2>4. CASE ExhaustRetries(e)
    <3>1. /\ RowOf(e).status # "SUCCEEDED"
          /\ Fail(RowOf(e)).status = "FAILED"
          /\ Fail(RowOf(e)).attempt = RowOf(e).attempt
          /\ taskRun' = [taskRun EXCEPT ![KeyOf(e)] = Fail(RowOf(e))]
          /\ effects' = effects
      BY <2>4, <2>0, RowOperations DEF ExhaustRetries, AlreadySucceeded, RowOf
    <3>2. OpenWhileTrying'
      BY <2>4 DEF ExhaustRetries, Finish, OpenWhileTrying, TypeOK
    <3>3. EffectIffSucceeded'
      BY <2>0, <3>1 DEF EffectIffSucceeded, OnceInv, RowOf, TypeOK
    <3>4. \A k \in Keys : taskRun[k].status = "SUCCEEDED" => taskRun'[k] = taskRun[k]
      BY <2>0, <3>1 DEF RowOf, TypeOK
    <3>5. \A k \in Keys : taskRun'[k].attempt = taskRun[k].attempt
      BY <2>0, <3>1 DEF RowOf, TypeOK
    <3>6. UNCHANGED Job!jobVars
      BY <3>1, <3>5 DEF Job!jobVars
    <3> QED BY <3>2, <3>3, <3>4, <3>6 DEF OnceInv
  <2>5. CASE RunCommits(e)
    <3>1. /\ RowOf(e).status # "SUCCEEDED" /\ RowOf(e).attempt < MaxAttempts
          /\ draft[e].attempt = RowOf(e).attempt + 1
          /\ effects[KeyOf(e)] = 0
      BY <2>5, <2>0 DEF RunCommits, OnceInv, OpenWhileTrying, EffectIffSucceeded,
             JobInv, NoLostUpdate, RowOf
    <3>2. /\ Succeed(draft[e]).status = "SUCCEEDED"
          /\ Succeed(draft[e]).attempt = RowOf(e).attempt + 1
      BY <3>1, CallTyped, RowOperations
    <3>3. /\ taskRun' = [taskRun EXCEPT ![KeyOf(e)] = Succeed(draft[e])]
          /\ effects' = [effects EXCEPT ![KeyOf(e)] = 1]
      BY <2>5, <3>1 DEF RunCommits, CommitRun
    <3>4. OpenWhileTrying'
      BY <2>5 DEF RunCommits, Finish, OpenWhileTrying, TypeOK
    <3>5. EffectIffSucceeded'
      BY <2>0, <3>2, <3>3 DEF EffectIffSucceeded, OnceInv, TypeOK
    <3>6. \A k \in Keys : taskRun[k].status = "SUCCEEDED" => taskRun'[k] = taskRun[k]
      BY <2>0, <3>1, <3>3 DEF RowOf, TypeOK
    <3>7. PICK c \in Keys : c = KeyOf(e)
      BY <2>0
    <3>8. Job!Apply(c)
      BY <2>0, <3>1, <3>2, <3>3, <3>7 DEF Job!Apply, Job!Open, RowOf, TypeOK
    <3>9. Job!Next
      BY <3>8 DEF Job!Next
    <3> QED BY <3>4, <3>5, <3>6, <3>9 DEF OnceInv
  <2>6. CASE RecordCommits(e)
    <3>1. /\ RowOf(e).status # "SUCCEEDED" /\ RowOf(e).attempt < MaxAttempts
          /\ draft[e].attempt = RowOf(e).attempt + 1
          /\ draft[e].status = "FAILED"
          /\ effects[KeyOf(e)] = 0
      BY <2>6, <2>0 DEF RecordCommits, OnceInv, OpenWhileTrying, EffectIffSucceeded,
             JobInv, NoLostUpdate, MarkingIsFailure, RowOf
    <3>2. taskRun' = [taskRun EXCEPT ![KeyOf(e)] = draft[e]] /\ effects' = effects
      BY <2>6 DEF RecordCommits
    <3>3. OpenWhileTrying'
      BY <2>6 DEF RecordCommits, Finish, OpenWhileTrying, TypeOK
    <3>4. EffectIffSucceeded'
      BY <2>0, <3>1, <3>2 DEF EffectIffSucceeded, OnceInv, TypeOK
    <3>5. \A k \in Keys : taskRun[k].status = "SUCCEEDED" => taskRun'[k] = taskRun[k]
      BY <2>0, <3>1, <3>2 DEF RowOf, TypeOK
    <3>6. PICK c \in Keys : c = KeyOf(e)
      BY <2>0
    <3>7. Job!CountFailure(c)
      BY <2>0, <3>1, <3>2, <3>6 DEF Job!CountFailure, Job!Open, RowOf, TypeOK
    <3>8. Job!Next
      BY <3>7 DEF Job!Next
    <3> QED BY <3>3, <3>4, <3>5, <3>8 DEF OnceInv
  <2> QED BY <1>3, <2>1, <2>2, <2>3, <2>4, <2>5, <2>6 DEF Proceed
<1>4. ASSUME NEW e \in Executors, Fault(e) PROVE Goal
  BY <1>1, <1>4 DEF Fault, SingleWorker, HandlerRaisesApplicationError,
     CommitAckLost, DatabaseFails, RecordLost, Crash, Finish, OpenWhileTrying,
     OnceInv, TypeOK, RowOf, KeyOf
<1>5. CASE UNCHANGED vars
  BY <1>1, <1>5 DEF vars, OpenWhileTrying, OnceInv, RowOf, KeyOf
<1> QED BY <1>2, <1>3, <1>4, <1>5 DEF Next

\* The invariants of a single worker hold when no job has run.
LEMMA OnceInit == Init => OnceInv /\ JobInv /\ Job!Init
  BY DEF Init, OnceInv, OpenWhileTrying, EffectIffSucceeded, JobInv, NoLostUpdate,
         SuccessHasEffect, EffectsWithinRetryLimit, ReportedSuccessIsDurable,
         AbsentIsFresh, RunningWithinLimit, MarkingIsFailure, AbsentRow, Success,
         Job!Init

\* "Exactly once as business effect" for one worker, as ADR-0008 has it: no key's
\* handler writes are committed twice.
THEOREM SingleWorkerAtMostOnce ==
    ASSUME SingleWorker
    PROVE  Spec => []AtMostOneEffect
<1>1. TypeOK /\ LockIsHeldInside /\ JobInv /\ OnceInv /\ [Next]_vars
        => JobInv' /\ OnceInv'
  BY JobInductive, SingleStep
<1>2. OnceInv => AtMostOneEffect
  BY DEF OnceInv, EffectIffSucceeded, AtMostOneEffect
<1> QED BY <1>1, <1>2, OnceInit, TypeCorrect, LockSafe, PTL DEF Spec

\* With one worker a SUCCEEDED row is never touched again.
THEOREM SingleWorkerSuccessFinal ==
    ASSUME SingleWorker
    PROVE  Spec => SuccessIsFinal
<1>1. TypeOK /\ LockIsHeldInside /\ JobInv /\ OnceInv /\ [Next]_vars
        => JobInv' /\ OnceInv'
  BY JobInductive, SingleStep
<1>2. TypeOK /\ JobInv /\ OnceInv /\ [Next]_vars =>
        [\A k \in Keys :
            taskRun[k].status = "SUCCEEDED" => taskRun'[k] = taskRun[k]]_vars
  BY SingleStep
<1> QED BY <1>1, <1>2, OnceInit, TypeCorrect, LockSafe, PTL
        DEF Spec, SuccessIsFinal

\* The executor of a single worker implements the idempotent job: every step is
\* the effect, a counted failure, or nothing an observer of the table sees.
THEOREM SingleWorkerImplementsJob ==
    ASSUME SingleWorker
    PROVE  Spec => ImplementsIdempotentJob
<1>1. TypeOK /\ LockIsHeldInside /\ JobInv /\ OnceInv /\ [Next]_vars
        => JobInv' /\ OnceInv'
  BY JobInductive, SingleStep
<1>2. TypeOK /\ JobInv /\ OnceInv /\ [Next]_vars => [Job!Next]_(Job!jobVars)
  BY SingleStep
<1> QED BY <1>1, <1>2, OnceInit, TypeCorrect, LockSafe, PTL
        DEF Spec, Job!Spec, ImplementsIdempotentJob

=============================================================================
