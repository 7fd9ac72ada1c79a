---------------------------- MODULE JobExecution ----------------------------
(***************************************************************************)
(* ReliableJobExecutor.execute (infrastructure/persistence/jobs.py): an    *)
(* idempotency key, a transaction-scoped advisory lock and one durable     *)
(* task_run row per key.  The handler's writes (event and outbox rows)     *)
(* share the transaction that marks the row SUCCEEDED.  A failure is       *)
(* recorded by a second transaction that takes the lock again, after the   *)
(* rollback of the first has released it.                                  *)
(*                                                                         *)
(* An executor is one call of execute() in flight: a worker process, or a  *)
(* second worker, or a manual replay.                                      *)
(***************************************************************************)
EXTENDS Integers, FiniteSets

CONSTANTS
    Executors,      \* the callers of execute()
    Keys,           \* idempotency keys
    Inputs,         \* input hashes
    MaxAttempts,    \* max_attempts of the executor
    Faults,         \* which of FaultKinds the environment may produce
    ErrorBound      \* bound: no database error beyond this attempt number

FaultKinds == {"app_error", "db_error", "ack_lost", "record_lost", "crash"}

ASSUME MaxAttemptsAssumption == MaxAttempts \in Nat \ {0}
ASSUME ErrorBoundAssumption == ErrorBound \in Nat
ASSUME ExecutorsAssumption == IsFiniteSet(Executors)
ASSUME FaultsAssumption == Faults \subseteq FaultKinds

NoExecutor == "free"
NoInput == "none"
ASSUME NullsAssumption == NoExecutor \notin Executors /\ NoInput \notin Inputs

VARIABLES
    lock,       \* holder of each key's advisory lock
    taskRun,    \* the committed task_run row of each key
    effects,    \* how often a key's handler writes were committed
    pc,         \* where each executor is in execute()
    call,       \* the arguments of the executor's current or last call
    draft,      \* the row an open transaction has flushed, not committed
    outcome     \* what the executor's last call returned or raised

vars == <<lock, taskRun, effects, pc, call, draft, outcome>>

RowStatus == {"ABSENT", "RUNNING", "SUCCEEDED", "FAILED"}
Row == [status : RowStatus, attempt : Nat, input : Inputs \cup {NoInput}]
AbsentRow == [status |-> "ABSENT", attempt |-> 0, input |-> NoInput]

Places == {"idle", "entered", "locked", "running", "recording", "marking"}
LockedPlaces == {"locked", "running", "marking"}
Success == {"completed", "reused"}
Outcomes == Success \cup
    {"none", "busy", "conflict", "exhausted", "app_error", "failed"}

TypeOK ==
    /\ lock \in [Keys -> Executors \cup {NoExecutor}]
    /\ taskRun \in [Keys -> Row]
    /\ effects \in [Keys -> Nat]
    /\ pc \in [Executors -> Places]
    /\ call \in [Executors -> [key : Keys, input : Inputs]]
    /\ draft \in [Executors -> Row]
    /\ outcome \in [Executors -> Outcomes]

Init ==
    /\ lock = [k \in Keys |-> NoExecutor]
    /\ taskRun = [k \in Keys |-> AbsentRow]
    /\ effects = [k \in Keys |-> 0]
    /\ pc = [e \in Executors |-> "idle"]
    /\ call \in [Executors -> [key : Keys, input : Inputs]]
    /\ draft = [e \in Executors |-> AbsentRow]
    /\ outcome = [e \in Executors |-> "none"]

-----------------------------------------------------------------------------
(* The row operations of TaskRunRepository.                                *)

\* A missing row is created at attempt 1, an existing one goes on to the next
\* attempt: its status is not looked at and its input hash is replaced.
StartOrRetry(row, input) ==
    [status |-> "RUNNING", attempt |-> row.attempt + 1, input |-> input]

Succeed(row) == [row EXCEPT !.status = "SUCCEEDED"]

\* Mutated form of Fail: a status the table does not know.
FailUnknownStatus(row) == [row EXCEPT !.status = "EXHAUSTED"]

Fail(row) == [row EXCEPT !.status = "FAILED"]

KeyOf(e) == call[e].key
InputOf(e) == call[e].input
RowOf(e) == taskRun[KeyOf(e)]
Exists(row) == row.status # "ABSENT"

\* The end of a transaction, by commit or rollback, releases its lock.
ReleaseLock(e) == lock' = [lock EXCEPT ![KeyOf(e)] = NoExecutor]

\* The end of a transaction that may not have got its lock yet.
DropLocks(e) ==
    lock' = [k \in Keys |-> IF lock[k] = e THEN NoExecutor ELSE lock[k]]

\* The call ends: it returns a result or raises.
Finish(e, result) ==
    /\ pc' = [pc EXCEPT ![e] = "idle"]
    /\ outcome' = [outcome EXCEPT ![e] = result]

-----------------------------------------------------------------------------
(* execute(): the transaction that runs the handler.                       *)

Invoke(e, k, i) ==
    /\ pc[e] = "idle"
    /\ pc' = [pc EXCEPT ![e] = "entered"]
    /\ call' = [call EXCEPT ![e] = [key |-> k, input |-> i]]
    /\ outcome' = [outcome EXCEPT ![e] = "none"]
    /\ UNCHANGED <<lock, taskRun, effects, draft>>

\* Mutated form of LockAcquired: the result of the try is not looked at.
LockAcquiredUnchecked(e) ==
    /\ pc[e] = "entered"
    /\ lock' = [lock EXCEPT ![KeyOf(e)] = e]
    /\ pc' = [pc EXCEPT ![e] = "locked"]
    /\ UNCHANGED <<taskRun, effects, call, draft, outcome>>

\* pg_try_advisory_xact_lock never waits: a held lock ends the call.
LockAcquired(e) ==
    /\ pc[e] = "entered"
    /\ lock[KeyOf(e)] = NoExecutor
    /\ lock' = [lock EXCEPT ![KeyOf(e)] = e]
    /\ pc' = [pc EXCEPT ![e] = "locked"]
    /\ UNCHANGED <<taskRun, effects, call, draft, outcome>>

LockBusy(e) ==
    /\ pc[e] = "entered"
    /\ lock[KeyOf(e)] # NoExecutor
    /\ Finish(e, "busy")
    /\ UNCHANGED <<lock, taskRun, effects, call, draft>>

InputConflicts(e) == Exists(RowOf(e)) /\ RowOf(e).input # InputOf(e)

\* Mutated forms: the status is not looked at; any existing row is reused; one
\* attempt too many.
AlreadySucceededForgotten(e) == FALSE
AlreadySucceededIfExists(e) == Exists(RowOf(e))
AttemptsExhaustedLate(e) == Exists(RowOf(e)) /\ RowOf(e).attempt > MaxAttempts

AlreadySucceeded(e) == RowOf(e).status = "SUCCEEDED"
AttemptsExhausted(e) == Exists(RowOf(e)) /\ RowOf(e).attempt >= MaxAttempts

RejectConflict(e) ==
    /\ pc[e] = "locked"
    /\ InputConflicts(e)
    /\ ReleaseLock(e)
    /\ Finish(e, "conflict")
    /\ UNCHANGED <<taskRun, effects, call, draft>>

ReuseSuccess(e) ==
    /\ pc[e] = "locked"
    /\ ~InputConflicts(e)
    /\ AlreadySucceeded(e)
    /\ ReleaseLock(e)
    /\ Finish(e, "reused")
    /\ UNCHANGED <<taskRun, effects, call, draft>>

\* The refusal of a further attempt is itself committed.
ExhaustRetries(e) ==
    /\ pc[e] = "locked"
    /\ ~InputConflicts(e)
    /\ ~AlreadySucceeded(e)
    /\ AttemptsExhausted(e)
    /\ taskRun' = [taskRun EXCEPT ![KeyOf(e)] = Fail(@)]
    /\ ReleaseLock(e)
    /\ Finish(e, "exhausted")
    /\ UNCHANGED <<effects, call, draft>>

StartRun(e) ==
    /\ pc[e] = "locked"
    /\ ~InputConflicts(e)
    /\ ~AlreadySucceeded(e)
    /\ ~AttemptsExhausted(e)
    /\ draft' = [draft EXCEPT ![e] = StartOrRetry(RowOf(e), InputOf(e))]
    /\ pc' = [pc EXCEPT ![e] = "running"]
    /\ UNCHANGED <<lock, taskRun, effects, call, outcome>>

\* What a commit of the running transaction makes durable: the handler's
\* event and outbox rows together with the SUCCEEDED row.
CommitRun(e) ==
    /\ taskRun' = [taskRun EXCEPT ![KeyOf(e)] = Succeed(draft[e])]
    /\ effects' = [effects EXCEPT ![KeyOf(e)] = @ + 1]
    /\ ReleaseLock(e)

RunCommits(e) ==
    /\ pc[e] = "running"
    /\ CommitRun(e)
    /\ Finish(e, "completed")
    /\ UNCHANGED <<call, draft>>

\* An ApplicationError of the handler is raised again and leaves no record.
HandlerRaisesApplicationError(e) ==
    /\ "app_error" \in Faults
    /\ pc[e] = "running"
    /\ ReleaseLock(e)
    /\ Finish(e, "app_error")
    /\ UNCHANGED <<taskRun, effects, call, draft>>

\* Any other exception, of the handler or of the commit, rolls back, which
\* releases the lock, and goes on to _record_failure.
HandlerRaises(e) ==
    /\ pc[e] = "running"
    /\ ReleaseLock(e)
    /\ pc' = [pc EXCEPT ![e] = "recording"]
    /\ UNCHANGED <<taskRun, effects, call, draft, outcome>>

\* The database commits but the connection fails before the answer: commit()
\* raises although the transaction is durable.
CommitAckLost(e) ==
    /\ "ack_lost" \in Faults
    /\ pc[e] = "running"
    /\ CommitRun(e)
    /\ pc' = [pc EXCEPT ![e] = "recording"]
    /\ UNCHANGED <<call, draft, outcome>>

\* A database error before the handler starts takes the same way out, whatever
\* the row says.  So does a lost answer to the commit of ExhaustRetries, which
\* leaves a FAILED row as it was.
DatabaseFails(e) ==
    /\ "db_error" \in Faults
    /\ pc[e] \in {"entered", "locked"}
    /\ RowOf(e).attempt < ErrorBound
    /\ DropLocks(e)
    /\ pc' = [pc EXCEPT ![e] = "recording"]
    /\ UNCHANGED <<taskRun, effects, call, draft, outcome>>

-----------------------------------------------------------------------------
(* _record_failure(): the transaction that writes the failure down.        *)

\* When another executor holds the key the failure is not recorded.
RecordBusy(e) ==
    /\ pc[e] = "recording"
    /\ lock[KeyOf(e)] # NoExecutor
    /\ Finish(e, "failed")
    /\ UNCHANGED <<lock, taskRun, effects, call, draft>>

RecordStarts(e) ==
    /\ pc[e] = "recording"
    /\ lock[KeyOf(e)] = NoExecutor
    /\ lock' = [lock EXCEPT ![KeyOf(e)] = e]
    /\ draft' = [draft EXCEPT ![e] = Fail(StartOrRetry(RowOf(e), InputOf(e)))]
    /\ pc' = [pc EXCEPT ![e] = "marking"]
    /\ UNCHANGED <<taskRun, effects, call, outcome>>

RecordCommits(e) ==
    /\ pc[e] = "marking"
    /\ taskRun' = [taskRun EXCEPT ![KeyOf(e)] = draft[e]]
    /\ ReleaseLock(e)
    /\ Finish(e, "failed")
    /\ UNCHANGED <<effects, call, draft>>

\* The recording transaction itself fails (the database is what went away).
RecordLost(e) ==
    /\ "record_lost" \in Faults
    /\ pc[e] \in {"recording", "marking"}
    /\ DropLocks(e)
    /\ Finish(e, "failed")
    /\ UNCHANGED <<taskRun, effects, call, draft>>

\* The process dies, or the coroutine is cancelled (not an Exception): the
\* transaction is rolled back, its lock released and nothing is recorded.
Crash(e) ==
    /\ "crash" \in Faults
    /\ pc[e] # "idle"
    /\ DropLocks(e)
    /\ Finish(e, "none")
    /\ UNCHANGED <<taskRun, effects, call, draft>>

-----------------------------------------------------------------------------
\* The steps of a call that do not depend on a fault.
Proceed(e) ==
    \/ LockAcquired(e) \/ LockBusy(e)
    \/ RejectConflict(e) \/ ReuseSuccess(e) \/ ExhaustRetries(e) \/ StartRun(e)
    \/ RunCommits(e) \/ HandlerRaises(e)
    \/ RecordBusy(e) \/ RecordStarts(e) \/ RecordCommits(e)

Fault(e) ==
    \/ HandlerRaisesApplicationError(e) \/ CommitAckLost(e)
    \/ DatabaseFails(e) \/ RecordLost(e) \/ Crash(e)

Next ==
    \E e \in Executors :
        \/ \E k \in Keys, i \in Inputs : Invoke(e, k, i)
        \/ Proceed(e)
        \/ Fault(e)

Spec == Init /\ [][Next]_vars

-----------------------------------------------------------------------------
(* Properties.                                                             *)

\* An executor past the lock step, and no other one, holds the advisory lock
\* of its key: two handlers of one key are never in flight together, and no
\* way out of execute() or _record_failure() keeps the lock.
LockIsHeldInside ==
    \A k \in Keys, e \in Executors :
        lock[k] = e <=> KeyOf(e) = k /\ pc[e] \in LockedPlaces

\* A row about to be committed is the successor of the row it replaces: no
\* attempt another executor recorded is overwritten.
NoLostUpdate ==
    \A e \in Executors :
        pc[e] \in {"running", "marking"} => draft[e].attempt = RowOf(e).attempt + 1

\* A row that says SUCCEEDED has its handler's writes beside it, and a row
\* other transactions can read is never RUNNING: that status exists only inside
\* the transaction that will replace it.
SuccessHasEffect ==
    \A k \in Keys :
        /\ taskRun[k].status = "SUCCEEDED" => effects[k] >= 1
        /\ taskRun[k].status # "RUNNING"

\* However failures, reopened rows and retries interleave, a key's writes are
\* committed at most once for every two attempts of the limit, rounded up: to
\* commit them again a recorded failure must first have reopened the row, and
\* both that failure and the run that follows it use up an attempt.
EffectsWithinRetryLimit ==
    \A k \in Keys :
        /\ taskRun[k].status = "SUCCEEDED" => 2 * effects[k] <= taskRun[k].attempt + 1
        /\ taskRun[k].status # "SUCCEEDED" => 2 * effects[k] <= taskRun[k].attempt
        /\ 2 * effects[k] <= MaxAttempts + 1

\* A caller told that the job completed, or that an earlier run is reused, is
\* never wrong: the writes are durable, also after later failures and crashes.
ReportedSuccessIsDurable ==
    \A e \in Executors : outcome[e] \in Success => effects[KeyOf(e)] >= 1

\* Once a key has used up its attempts without success it stays that way: no
\* handler that was already in flight can still commit.
ExhaustionIsFinal ==
    [][\A k \in Keys :
        taskRun[k].status = "FAILED" /\ taskRun[k].attempt >= MaxAttempts
            => effects'[k] = effects[k] /\ taskRun'[k].status = "FAILED"]_vars

\* "At least once at the process boundary, exactly once as business effect":
\* the handler's event and outbox rows of a key are committed at most once.
AtMostOneEffect == \A k \in Keys : effects[k] <= 1

\* A SUCCEEDED row is never touched again.
SuccessIsFinal ==
    [][\A k \in Keys :
        taskRun[k].status = "SUCCEEDED" => taskRun'[k] = taskRun[k]]_vars

\* The committed effect and the row's attempt number are the abstract state.
Job == INSTANCE IdempotentJob WITH
    applied <- effects,
    tries <- [k \in Keys |-> taskRun[k].attempt]

\* The executor of a single worker implements the idempotent job of ADR-0008:
\* every step that commits is one of its steps, every other one a stutter.
ImplementsIdempotentJob == Job!Spec

=============================================================================
