--------------------------- MODULE WorkerSchedule ---------------------------
(***************************************************************************)
(* The worker's poll (worker/main.py, infrastructure/runtime_scheduler.py) *)
(* over an explicit trading calendar (application/schedule.py).  A poll    *)
(* dispatches, oldest session first, every job of the last MaxReplay       *)
(* sessions that have closed, each through ReliableJobExecutor: the module *)
(* JobExecution, one executor for each worker process.  A dispatch that    *)
(* raises ends the poll and the process, which the container restarts.     *)
(***************************************************************************)
EXTENDS Integers, Sequences, FiniteSets

CONSTANTS
    Workers,        \* worker processes: one, or two while one replaces another
    Calendar,       \* the sessions in order, each with its week and its month
    MaxReplay,      \* max_replay_sessions
    MaxAttempts,    \* max_attempts of the executor
    Faults,         \* which of JobExecution's FaultKinds may happen
    ErrorBound,     \* bound: no database error beyond this attempt number
    FailureBound    \* bound: a handler raises in no later attempt than this one

ASSUME CalendarAssumption == Calendar \in Seq([week : Nat, month : Nat])
ASSUME MaxReplayAssumption == MaxReplay \in Nat \ {0}
ASSUME FailureBoundAssumption == FailureBound \in Nat

Sessions == 1..Len(Calendar)
Cadences == {"daily", "weekly", "monthly", "quarterly"}

\* The order in which jobs_for_session lists the jobs of a session.
Rank == [daily |-> 1, weekly |-> 2, monthly |-> 3, quarterly |-> 4]

Period(cadence, s) ==
    CASE cadence = "daily" -> s
      [] cadence = "weekly" -> Calendar[s].week
      [] cadence = "monthly" -> Calendar[s].month
      [] cadence = "quarterly" -> Calendar[s].month \div 3

\* is_final_session_of_week, _of_month and _of_quarter: no later session of the
\* calendar is in the same period.  Every session is the last one of its day.
IsFinal(cadence, s) ==
    \A t \in Sessions : t > s => Period(cadence, t) # Period(cadence, s)

\* A job is its idempotency key: the job name and the close of its session.
Jobs == {j \in [cadence : Cadences, session : Sessions] : IsFinal(j.cadence, j.session)}

\* The order of a poll: sessions by their close, jobs of a session by rank.
Before(i, j) ==
    \/ i.session < j.session
    \/ i.session = j.session /\ Rank[i.cadence] < Rank[j.cadence]

\* The hash of a job's input depends on the job alone, so a replay repeats it.
InputHash == "input_hash"

VARIABLES
    lock, taskRun, effects, pc, call, draft, outcome,   \* of JobExecution
    closed,     \* how many sessions have closed by now
    poll        \* the jobs each worker's poll has still to dispatch

jobVars == <<lock, taskRun, effects, pc, call, draft, outcome>>
vars == <<jobVars, closed, poll>>

Exec == INSTANCE JobExecution WITH
    Executors <- Workers, Keys <- Jobs, Inputs <- {InputHash}

\* What JobExecution assumes, of the constants it gets here.
ASSUME ExecutorAssumption ==
    /\ MaxAttempts \in Nat \ {0} /\ ErrorBound \in Nat
    /\ IsFiniteSet(Workers) /\ Exec!NoExecutor \notin Workers
    /\ Faults \subseteq Exec!FaultKinds

TypeOK ==
    /\ Exec!TypeOK
    /\ closed \in 0..Len(Calendar)
    /\ poll \in [Workers -> SUBSET Jobs]

\* The last call of a worker that has made none is not looked at.
Init ==
    /\ Exec!Init
    /\ call = [w \in Workers |-> [key |-> CHOOSE j \in Jobs : TRUE, input |-> InputHash]]
    /\ closed = 0
    /\ poll = [w \in Workers |-> {}]

\* Mutated form of DueJobs: the window is one session short.
DueJobsOneShort ==
    {j \in Jobs : j.session > closed - MaxReplay + 1 /\ j.session <= closed}

DueJobs == {j \in Jobs : j.session > closed - MaxReplay /\ j.session <= closed}

\* Mutated form of CloseSession: time goes on past the end of the calendar.
CloseSessionUnbounded ==
    /\ closed' = closed + 1
    /\ UNCHANGED <<jobVars, poll>>

CloseSession ==
    /\ closed < Len(Calendar)
    /\ closed' = closed + 1
    /\ UNCHANGED <<jobVars, poll>>

\* dispatch_due plans with the time read at its start.
StartPoll(w) ==
    /\ pc[w] = "idle"
    /\ poll[w] = {}
    /\ poll' = [poll EXCEPT ![w] = DueJobs]
    /\ UNCHANGED <<jobVars, closed>>

\* Mutated form of IsFirst: all daily jobs of the window first, and so on.
IsFirstByCadence(j, jobs) ==
    j \in jobs /\ \A i \in jobs : Rank[j.cadence] <= Rank[i.cadence]

IsFirst(j, jobs) == j \in jobs /\ \A i \in jobs \ {j} : Before(j, i)

Dispatch(w) ==
    /\ \E j \in poll[w] : IsFirst(j, poll[w]) /\ Exec!Invoke(w, j, InputHash)
    /\ UNCHANGED <<closed, poll>>

\* Mutated form of Remaining: a failed job is logged and the poll goes on.
RemainingAfterFailure(w, result) == poll[w] \ {call[w].key}

\* A result takes the poll to its next job, an exception ends it.
Remaining(w, result) ==
    IF result \in Exec!Success THEN poll[w] \ {call[w].key} ELSE {}

\* What a step of execute() means for the poll that awaits it.
Await(w) ==
    /\ poll' = IF pc'[w] = "idle"
               THEN [poll EXCEPT ![w] = Remaining(w, outcome'[w])] ELSE poll
    /\ UNCHANGED closed

\* A handler that raises does so in the attempts up to FailureBound.
WithinFailureBound(w) ==
    pc[w] = "running" /\ pc'[w] = "recording" => draft[w].attempt <= FailureBound

Step(w) == Exec!Proceed(w) /\ Await(w) /\ WithinFailureBound(w)
Disturb(w) == Exec!Fault(w) /\ Await(w)

\* The process dies between two jobs.
Stop(w) ==
    /\ "crash" \in Faults
    /\ pc[w] = "idle"
    /\ poll[w] # {}
    /\ poll' = [poll EXCEPT ![w] = {}]
    /\ UNCHANGED <<jobVars, closed>>

Next ==
    \/ CloseSession
    \/ \E w \in Workers :
        StartPoll(w) \/ Dispatch(w) \/ Step(w) \/ Disturb(w) \/ Stop(w)

Spec == Init /\ [][Next]_vars

\* Sessions close as time passes; a worker polls again after a pause, or after
\* the restart of its container, and goes on whenever its await completes.
Fairness ==
    /\ WF_vars(CloseSession)
    /\ \A w \in Workers :
        WF_vars(StartPoll(w)) /\ WF_vars(Dispatch(w)) /\ WF_vars(Step(w))

LiveSpec == Spec /\ Fairness

-----------------------------------------------------------------------------
(* Properties.                                                             *)

Attempted(j) == taskRun[j].status # "ABSENT"

\* The jobs of a session run in the order daily, weekly, monthly, quarterly,
\* across polls, restarts and workers: none is even attempted before the writes
\* of those it follows are durable.
PredecessorsComplete ==
    \A i, j \in Jobs :
        i.session = j.session /\ Before(i, j) /\ Attempted(j) => effects[i] >= 1

\* Replay goes oldest first: the row of a due job is not touched before the
\* writes of every due job ahead of it are durable, also those of older sessions.
ReplaysOldestFirst ==
    [][\A i, j \in DueJobs :
        Before(i, j) /\ taskRun'[j] # taskRun[j] => effects[i] >= 1]_vars

\* A job of the sessions still in the window completes although its handler
\* fails in all attempts but the last one.
CatchesUp ==
    \A j \in Jobs :
        j.session > Len(Calendar) - MaxReplay => <>(taskRun[j].status = "SUCCEEDED")

\* At least once: every job that stays due is attempted.  Without the assumption
\* of CatchesUp the code does not have this property (README.md, Remarks).
EveryDueJobIsAttempted ==
    \A j \in Jobs : j.session > Len(Calendar) - MaxReplay => <>Attempted(j)

=============================================================================
