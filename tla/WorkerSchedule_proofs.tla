----------------------- MODULE WorkerSchedule_proofs -----------------------
(***************************************************************************)
(* Proofs about WorkerSchedule, for every calendar, every number of worker *)
(* processes, every replay window and every combination of faults.  What   *)
(* the executor guarantees is not proved again: a run of the schedule is a *)
(* run of the executor, whose theorems are taken from its proof module.    *)
(***************************************************************************)
EXTENDS WorkerSchedule, TLAPS

Proved == INSTANCE JobExecution_proofs WITH
    Executors <- Workers, Keys <- Jobs, Inputs <- {InputHash}

-----------------------------------------------------------------------------
(* The executor inside the schedule.                                       *)

\* The schedule gives JobExecution constants it allows.
LEMMA ExecutorAssumptions ==
    /\ Proved!MaxAttemptsAssumption
    /\ Proved!ErrorBoundAssumption
    /\ Proved!ExecutorsAssumption
    /\ Proved!FaultsAssumption
    /\ Proved!NullsAssumption
  BY ExecutorAssumption
  DEF Proved!MaxAttemptsAssumption, Proved!ErrorBoundAssumption,
      Proved!ExecutorsAssumption, Proved!FaultsAssumption, Proved!NullsAssumption,
      Proved!NoInput, Proved!NoExecutor, Exec!NoExecutor, InputHash,
      Proved!FaultKinds, Exec!FaultKinds, IsFiniteSet, Proved!IsFiniteSet

\* Exec and Proved are the same executor: JobExecution_proofs adds no state and
\* no step to JobExecution.
LEMMA SameExecutor ==
    /\ Exec!Init => Proved!Init
    /\ [Exec!Next]_(Exec!vars) => [Proved!Next]_(Proved!vars)
    /\ Proved!TypeOK => Exec!TypeOK
    /\ Proved!ReportedSuccessIsDurable => Exec!ReportedSuccessIsDurable
    /\ Proved!EffectsWithinRetryLimit => Exec!EffectsWithinRetryLimit
<1> USE DEF Exec!NoExecutor, Proved!NoExecutor, Exec!NoInput, Proved!NoInput,
            Exec!AbsentRow, Proved!AbsentRow, Exec!Success, Proved!Success,
            Exec!KeyOf, Proved!KeyOf, Exec!InputOf, Proved!InputOf,
            Exec!RowOf, Proved!RowOf, Exec!Exists, Proved!Exists,
            Exec!StartOrRetry, Proved!StartOrRetry, Exec!Fail, Proved!Fail,
            Exec!Succeed, Proved!Succeed, Exec!Finish, Proved!Finish,
            Exec!ReleaseLock, Proved!ReleaseLock, Exec!DropLocks, Proved!DropLocks
<1>1. Exec!Init => Proved!Init
  BY DEF Exec!Init, Proved!Init
<1>2. UNCHANGED Exec!vars => UNCHANGED Proved!vars
  BY DEF Exec!vars, Proved!vars
<1>3. ASSUME NEW w \in Workers, Exec!Proceed(w) PROVE Proved!Proceed(w)
  BY <1>3
  DEF Exec!Proceed, Proved!Proceed, Exec!LockAcquired, Proved!LockAcquired,
      Exec!LockBusy, Proved!LockBusy, Exec!InputConflicts, Proved!InputConflicts,
      Exec!AlreadySucceeded, Proved!AlreadySucceeded,
      Exec!AttemptsExhausted, Proved!AttemptsExhausted,
      Exec!RejectConflict, Proved!RejectConflict,
      Exec!ReuseSuccess, Proved!ReuseSuccess,
      Exec!ExhaustRetries, Proved!ExhaustRetries, Exec!StartRun, Proved!StartRun,
      Exec!RunCommits, Proved!RunCommits, Exec!CommitRun, Proved!CommitRun,
      Exec!HandlerRaises, Proved!HandlerRaises, Exec!RecordBusy, Proved!RecordBusy,
      Exec!RecordStarts, Proved!RecordStarts,
      Exec!RecordCommits, Proved!RecordCommits
<1>4. ASSUME NEW w \in Workers, Exec!Fault(w) PROVE Proved!Fault(w)
  BY <1>4
  DEF Exec!Fault, Proved!Fault, Exec!Crash, Proved!Crash,
      Exec!HandlerRaisesApplicationError, Proved!HandlerRaisesApplicationError,
      Exec!CommitAckLost, Proved!CommitAckLost, Exec!CommitRun, Proved!CommitRun,
      Exec!DatabaseFails, Proved!DatabaseFails, Exec!RecordLost, Proved!RecordLost
<1>5. Exec!Next => Proved!Next
  <2> SUFFICES ASSUME Exec!Next PROVE Proved!Next
    OBVIOUS
  <2>1. ASSUME NEW w \in Workers, NEW k \in Jobs, NEW i \in {InputHash},
               Exec!Invoke(w, k, i)
        PROVE  Proved!Invoke(w, k, i)
    BY <2>1 DEF Exec!Invoke, Proved!Invoke
  <2> QED BY <1>3, <1>4, <2>1 DEF Exec!Next, Proved!Next
<1>6. Proved!TypeOK => Exec!TypeOK
  BY DEF Exec!TypeOK, Proved!TypeOK, Exec!Row, Proved!Row, Exec!RowStatus,
         Proved!RowStatus, Exec!Places, Proved!Places, Exec!Outcomes, Proved!Outcomes
<1>7. Proved!ReportedSuccessIsDurable => Exec!ReportedSuccessIsDurable
  BY DEF Exec!ReportedSuccessIsDurable, Proved!ReportedSuccessIsDurable
<1>8. Proved!EffectsWithinRetryLimit => Exec!EffectsWithinRetryLimit
  BY DEF Exec!EffectsWithinRetryLimit, Proved!EffectsWithinRetryLimit
<1> QED BY <1>1, <1>2, <1>5, <1>6, <1>7, <1>8

-----------------------------------------------------------------------------
(* The poll.                                                               *)

PollTyped == closed \in 0..Len(Calendar) /\ poll \in [Workers -> SUBSET Jobs]

\* Jobs enter a poll from the due window and only leave it.
LEMMA PollTypedInductive == PollTyped /\ [Next]_vars => PollTyped'
<1> SUFFICES ASSUME PollTyped, [Next]_vars PROVE PollTyped'
  OBVIOUS
<1> USE DEF PollTyped
<1>0. Len(Calendar) \in Nat
  BY CalendarAssumption
<1>1. CASE CloseSession
  BY <1>0, <1>1 DEF CloseSession
<1>2. ASSUME NEW w \in Workers, StartPoll(w) PROVE PollTyped'
  BY <1>2 DEF StartPoll, DueJobs
<1>3. ASSUME NEW w \in Workers, Dispatch(w) \/ Stop(w) PROVE PollTyped'
  BY <1>3 DEF Dispatch, Stop
<1>4. ASSUME NEW w \in Workers, Step(w) \/ Disturb(w) PROVE PollTyped'
  BY <1>4 DEF Step, Disturb, Await, Remaining
<1>5. CASE UNCHANGED vars
  BY <1>5 DEF vars
<1> QED BY <1>1, <1>2, <1>3, <1>4, <1>5 DEF Next

\* A step of the schedule is a step of the executor, or one it does not see.
LEMMA ExecutorSteps == PollTyped /\ [Next]_vars => [Exec!Next]_(Exec!vars)
<1> SUFFICES ASSUME PollTyped, [Next]_vars PROVE Exec!Next \/ UNCHANGED Exec!vars
  OBVIOUS
<1>1. ASSUME NEW w \in Workers, Dispatch(w) PROVE Exec!Next
  BY <1>1 DEF Dispatch, Exec!Next, PollTyped
<1>2. ASSUME NEW w \in Workers, Step(w) \/ Disturb(w) PROVE Exec!Next
  BY <1>2 DEF Step, Disturb, Exec!Next
<1>3. ASSUME UNCHANGED jobVars PROVE UNCHANGED Exec!vars
  BY <1>3 DEF jobVars, Exec!vars
<1>4. ASSUME NEW w \in Workers, StartPoll(w) \/ Stop(w) PROVE UNCHANGED jobVars
  BY <1>4 DEF StartPoll, Stop
<1>5. CASE CloseSession \/ UNCHANGED vars
  BY <1>3, <1>5 DEF CloseSession, vars
<1> QED BY <1>1, <1>2, <1>3, <1>4, <1>5 DEF Next

\* What the worker calls is the executor of JobExecution: every behaviour of the
\* schedule, with its polls, restarts and closing sessions, is one of execute().
THEOREM ScheduleRunsExecutor == Spec => Exec!Spec
<1>1. Init => Exec!Init
  BY DEF Init
<1>2. Init => PollTyped
  BY CalendarAssumption DEF Init, PollTyped
<1> QED BY <1>1, <1>2, PollTypedInductive, ExecutorSteps, PTL DEF Spec, Exec!Spec

\* The same for the instance whose theorems are cited below.
LEMMA ScheduleRunsProved == Spec => Proved!Spec
<1>1. Exec!Spec => Proved!Spec
  BY SameExecutor, PTL DEF Exec!Spec, Proved!Spec
<1> QED BY <1>1, ScheduleRunsExecutor, PTL

\* What the theorems of the executor say of the executor in the schedule.
ExecInv ==
    /\ Exec!TypeOK
    /\ Exec!ReportedSuccessIsDurable
    /\ Exec!EffectsWithinRetryLimit

LEMMA ExecutorIsSafe == Spec => []ExecInv
<1>1. Spec => Proved!Spec
  BY ScheduleRunsProved
<1>2. Proved!Spec => []Proved!TypeOK
  BY ExecutorAssumptions, Proved!TypeCorrect, PTL
<1>3. Proved!Spec => [](/\ Proved!NoLostUpdate
                        /\ Proved!SuccessHasEffect
                        /\ Proved!EffectsWithinRetryLimit
                        /\ Proved!ReportedSuccessIsDurable)
  BY ExecutorAssumptions, Proved!JobSafe, PTL
<1>4. /\ Proved!TypeOK => Exec!TypeOK
      /\ Proved!ReportedSuccessIsDurable => Exec!ReportedSuccessIsDurable
      /\ Proved!EffectsWithinRetryLimit => Exec!EffectsWithinRetryLimit
  BY SameExecutor
<1> QED BY <1>1, <1>2, <1>3, <1>4, PTL DEF ExecInv

\* Every reachable state is well typed: a poll holds jobs of the calendar only,
\* and no session closes beyond its end.
THEOREM ScheduleTypeCorrect == Spec => []TypeOK
<1>1. Init => PollTyped
  BY CalendarAssumption DEF Init, PollTyped
<1>2. ExecInv /\ PollTyped => TypeOK
  BY DEF ExecInv, PollTyped, TypeOK
<1> QED BY <1>1, <1>2, PollTypedInductive, ExecutorIsSafe, PTL DEF Spec

-----------------------------------------------------------------------------
(* Lemmas about one step.                                                  *)

\* Before is a strict order that follows the sessions.
LEMMA BeforeIsStrict ==
    ASSUME NEW i \in Jobs, NEW j \in Jobs, Before(i, j)
    PROVE  i # j /\ ~Before(j, i) /\ i.session <= j.session
<1>1. i.session \in Int /\ j.session \in Int
  BY DEF Jobs, Sessions
<1>2. Rank[i.cadence] \in Int /\ Rank[j.cadence] \in Int
  BY DEF Jobs, Cadences, Rank
<1> QED BY <1>1, <1>2 DEF Before

\* What a job that is first in a poll follows is not in that poll.
LEMMA NothingBeforeFirst ==
    ASSUME NEW S \in SUBSET Jobs, NEW j, IsFirst(j, S),
           NEW i \in Jobs, Before(i, j)
    PROVE  j \in Jobs /\ i \notin S
  BY BeforeIsStrict DEF IsFirst

\* A step inside execute() is the call's own, writes the row of its key at
\* most, and takes no effect back.
LEMMA ExecuteStep ==
    ASSUME Exec!TypeOK, NEW w \in Workers, Exec!Proceed(w) \/ Exec!Fault(w)
    PROVE  /\ pc[w] # "idle" /\ call' = call
           /\ \A v \in Workers \ {w} : pc'[v] = pc[v]
           /\ \A k \in Jobs : effects'[k] >= effects[k]
           /\ \A k \in Jobs : taskRun'[k] # taskRun[k] => k = call[w].key
<1> DEFINE Goal == /\ pc[w] # "idle" /\ call' = call
                   /\ \A v \in Workers \ {w} : pc'[v] = pc[v]
                   /\ \A k \in Jobs : effects'[k] >= effects[k]
                   /\ \A k \in Jobs : taskRun'[k] # taskRun[k] => k = call[w].key
<1> USE DEF Exec!TypeOK, Exec!Finish, Exec!KeyOf
<1>1. ASSUME Exec!Proceed(w) PROVE Goal
  <2>1. CASE Exec!LockAcquired(w) \/ Exec!LockBusy(w) \/ Exec!RejectConflict(w)
             \/ Exec!ReuseSuccess(w) \/ Exec!StartRun(w)
    BY <2>1 DEF Exec!LockAcquired, Exec!LockBusy, Exec!RejectConflict,
                Exec!ReuseSuccess, Exec!StartRun
  <2>2. CASE Exec!HandlerRaises(w) \/ Exec!RecordBusy(w) \/ Exec!RecordStarts(w)
    BY <2>2 DEF Exec!HandlerRaises, Exec!RecordBusy, Exec!RecordStarts
  <2>3. CASE Exec!ExhaustRetries(w) \/ Exec!RecordCommits(w)
    BY <2>3 DEF Exec!ExhaustRetries, Exec!RecordCommits
  <2>4. CASE Exec!RunCommits(w)
    BY <2>4 DEF Exec!RunCommits, Exec!CommitRun
  <2> QED BY <1>1, <2>1, <2>2, <2>3, <2>4 DEF Exec!Proceed
<1>2. ASSUME Exec!Fault(w) PROVE Goal
  <2>1. CASE Exec!CommitAckLost(w)
    BY <2>1 DEF Exec!CommitAckLost, Exec!CommitRun
  <2>2. CASE Exec!HandlerRaisesApplicationError(w) \/ Exec!DatabaseFails(w)
             \/ Exec!RecordLost(w) \/ Exec!Crash(w)
    BY <2>2 DEF Exec!HandlerRaisesApplicationError, Exec!DatabaseFails,
                Exec!RecordLost, Exec!Crash
  <2> QED BY <1>2, <2>1, <2>2 DEF Exec!Fault
<1> QED BY <1>1, <1>2

-----------------------------------------------------------------------------
(* PredecessorsComplete is not inductive as it stands: that the job a      *)
(* worker is running has nothing unfinished ahead of it follows from what  *)
(* its poll was planned to hold and from why jobs have left it.            *)

\* A call in flight is for the first job of its worker's poll.
InFlightIsFirst ==
    \A w \in Workers : pc[w] # "idle" => IsFirst(call[w].key, poll[w])

\* The jobs of a poll have closed.
PollIsDue == \A w \in Workers : \A j \in poll[w] : j.session <= closed

\* What comes before a job of a poll, in its session or in the window of sessions
\* still replayed, is in the poll as well or has its writes committed.
AheadIsDone ==
    \A w \in Workers : \A j \in poll[w], i \in Jobs :
        /\ Before(i, j) /\ i \notin poll[w]
        /\ i.session > closed - MaxReplay \/ i.session = j.session
        => effects[i] >= 1

ReplayInv == InFlightIsFirst /\ PollIsDue /\ AheadIsDone /\ PredecessorsComplete

\* Which jobs are ahead of which is decided by the order alone, so a poll that
\* is only moved on, over a job whose writes are durable, keeps ReplayInv.
LEMMA AheadStep ==
    ASSUME TypeOK, ReplayInv, NEW w \in Workers,
           NEW left \in SUBSET poll[w],
           poll' = [poll EXCEPT ![w] = left], closed' = closed,
           \A k \in Jobs : effects'[k] >= effects[k] /\ effects'[k] \in Nat,
           \A k \in poll[w] \ left :
               effects'[k] >= 1 \/ left = {}
    PROVE  PollIsDue' /\ AheadIsDone'
<1> USE DEF TypeOK, Exec!TypeOK
<1>1. PollIsDue'
  BY DEF ReplayInv, PollIsDue
<1>2. ASSUME NEW v \in Workers, NEW j \in poll'[v], NEW i \in Jobs,
             Before(i, j), i \notin poll'[v],
             i.session > closed - MaxReplay \/ i.session = j.session
      PROVE  effects'[i] >= 1
  <2>1. j \in poll[v]
    BY <1>2
  <2>2. CASE i \notin poll[v]
    BY <1>2, <2>1, <2>2 DEF ReplayInv, AheadIsDone
  <2>3. CASE i \in poll[v]
    BY <1>2, <2>3
  <2> QED BY <2>2, <2>3
<1>3. AheadIsDone'
  BY <1>2 DEF AheadIsDone
<1> QED BY <1>1, <1>3

\* The row of a job is written by a worker for whom it is the first of its poll.
LEMMA WriterIsFirst ==
    ASSUME TypeOK, ReplayInv, [Next]_vars, NEW j \in Jobs, taskRun'[j] # taskRun[j]
    PROVE  \E w \in Workers : IsFirst(j, poll[w])
<1>1. ASSUME NEW w \in Workers, Dispatch(w) PROVE FALSE
  BY <1>1 DEF Dispatch, Exec!Invoke
<1>2. ASSUME NEW w \in Workers, Step(w) \/ Disturb(w) PROVE IsFirst(j, poll[w])
  <2>1. Exec!Proceed(w) \/ Exec!Fault(w)
    BY <1>2 DEF Step, Disturb
  <2>2. pc[w] # "idle" /\ j = call[w].key
    BY <2>1, ExecuteStep DEF TypeOK
  <2> QED BY <2>2 DEF ReplayInv, InFlightIsFirst
<1>3. ~UNCHANGED jobVars
  BY DEF jobVars
<1>4. PICK w \in Workers : Dispatch(w) \/ Step(w) \/ Disturb(w)
  BY <1>3 DEF Next, vars, CloseSession, StartPoll, Stop
<1> QED BY <1>1, <1>2, <1>4

\* Writes are never taken back.
LEMMA EffectsGrow ==
    ASSUME TypeOK, [Next]_vars, NEW k \in Jobs
    PROVE  effects'[k] >= effects[k]
<1> effects[k] \in Nat
  BY DEF TypeOK, Exec!TypeOK
<1>1. ASSUME NEW w \in Workers, Step(w) \/ Disturb(w)
      PROVE  effects'[k] >= effects[k]
  BY <1>1, ExecuteStep DEF Step, Disturb, TypeOK
<1>2. ASSUME NEW w \in Workers, Dispatch(w) PROVE effects'[k] >= effects[k]
  BY <1>2 DEF Dispatch, Exec!Invoke
<1>3. CASE UNCHANGED jobVars
  BY <1>3 DEF jobVars
<1> QED BY <1>1, <1>2, <1>3 DEF Next, vars, CloseSession, StartPoll, Stop

\* A poll that is over, or goes on to the next job, after a step of execute().
LEMMA AwaitStep ==
    ASSUME TypeOK, ReplayInv, ExecInv', NEW w \in Workers,
           Step(w) \/ Disturb(w)
    PROVE  InFlightIsFirst' /\ PollIsDue' /\ AheadIsDone'
<1> USE DEF TypeOK, Exec!TypeOK
<1>1. Exec!Proceed(w) \/ Exec!Fault(w)
  BY DEF Step, Disturb
<1>2. /\ pc[w] # "idle" /\ call' = call
      /\ \A v \in Workers \ {w} : pc'[v] = pc[v]
      /\ \A k \in Jobs : effects'[k] >= effects[k]
  BY <1>1, ExecuteStep
<1>3. Await(w)
  BY DEF Step, Disturb
<1>4. IsFirst(call[w].key, poll[w])
  BY <1>2 DEF ReplayInv, InFlightIsFirst
<1>5. \A k \in Jobs : effects'[k] \in Nat
  BY DEF ExecInv
<1>6. CASE pc'[w] # "idle"
  <2>1. poll' = [poll EXCEPT ![w] = poll[w]] /\ closed' = closed
    BY <1>3, <1>6 DEF Await
  <2>2. PollIsDue' /\ AheadIsDone'
    BY <1>2, <1>5, <2>1, AheadStep
  <2>3. InFlightIsFirst'
    BY <1>2, <1>4, <2>1 DEF ReplayInv, InFlightIsFirst
  <2> QED BY <2>2, <2>3
<1>7. CASE pc'[w] = "idle"
  <2> DEFINE left == Remaining(w, outcome'[w])
  <2>1. poll' = [poll EXCEPT ![w] = left] /\ closed' = closed
    BY <1>3, <1>7 DEF Await
  <2>2. left \in SUBSET poll[w]
    BY DEF Remaining
  <2>3. ASSUME NEW k \in poll[w] \ left, left # {} PROVE effects'[k] >= 1
    <3>1. k = call[w].key /\ outcome'[w] \in Exec!Success
      BY <2>3 DEF Remaining
    <3> QED BY <1>2, <3>1 DEF ExecInv, Exec!ReportedSuccessIsDurable, Exec!KeyOf
  <2> HIDE DEF left
  <2>4. PollIsDue' /\ AheadIsDone'
    BY <1>2, <1>5, <2>1, <2>2, <2>3, AheadStep
  <2>5. InFlightIsFirst'
    BY <1>2, <1>7, <2>1 DEF ReplayInv, InFlightIsFirst
  <2> QED BY <2>4, <2>5
<1> QED BY <1>6, <1>7

\* Every step of the schedule keeps ReplayInv.
LEMMA ReplayInductive ==
    ASSUME TypeOK, ReplayInv, ExecInv', [Next]_vars
    PROVE  ReplayInv'
<1> USE DEF TypeOK, Exec!TypeOK
<1>0. closed \in Int /\ MaxReplay \in Int /\ \A j \in Jobs : j.session \in Int
  BY CalendarAssumption, MaxReplayAssumption DEF Jobs, Sessions
<1>1. PredecessorsComplete'
  <2> SUFFICES ASSUME NEW i \in Jobs, NEW j \in Jobs,
                      i.session = j.session, Before(i, j), Attempted(j)'
               PROVE  effects'[i] >= 1
    BY DEF PredecessorsComplete
  <2>0. effects'[i] >= effects[i] /\ effects[i] \in Nat /\ effects'[i] \in Nat
    BY EffectsGrow DEF ExecInv
  <2>1. CASE Attempted(j)
    BY <2>0, <2>1 DEF ReplayInv, PredecessorsComplete
  <2>2. CASE ~Attempted(j)
    <3>1. taskRun'[j] # taskRun[j]
      BY <2>2 DEF Attempted
    <3>2. PICK w \in Workers : IsFirst(j, poll[w])
      BY <3>1, WriterIsFirst
    <3>3. j \in poll[w] /\ i \notin poll[w]
      BY <3>2, NothingBeforeFirst DEF IsFirst
    <3>4. effects[i] >= 1
      BY <3>3 DEF ReplayInv, AheadIsDone
    <3> QED BY <2>0, <3>4
  <2> QED BY <2>1, <2>2
<1>2. InFlightIsFirst' /\ PollIsDue' /\ AheadIsDone'
  <2>1. CASE CloseSession
    BY <1>0, <2>1 DEF CloseSession, jobVars, ReplayInv, InFlightIsFirst, PollIsDue,
                      AheadIsDone
  <2>2. ASSUME NEW w \in Workers, StartPoll(w)
        PROVE  InFlightIsFirst' /\ PollIsDue' /\ AheadIsDone'
    <3>1. \A j \in DueJobs, i \in Jobs :
            /\ Before(i, j)
            /\ i.session > closed - MaxReplay \/ i.session = j.session
            => i \in DueJobs
      BY <1>0, BeforeIsStrict DEF DueJobs
    <3>2. \A j \in DueJobs : j.session <= closed
      BY DEF DueJobs
    <3>3. poll' = [poll EXCEPT ![w] = DueJobs] /\ closed' = closed
          /\ effects' = effects /\ pc' = pc /\ call' = call /\ pc[w] = "idle"
      BY <2>2 DEF StartPoll, jobVars
    <3>4. InFlightIsFirst' /\ PollIsDue'
      BY <3>2, <3>3 DEF ReplayInv, InFlightIsFirst, PollIsDue
    <3>5. ASSUME NEW v \in Workers, NEW j \in poll'[v], NEW i \in Jobs,
                 Before(i, j), i \notin poll'[v],
                 i.session > closed' - MaxReplay \/ i.session = j.session
          PROVE  effects'[i] >= 1
      <4>1. v # w
        BY <3>1, <3>3, <3>5
      <4> QED BY <3>3, <3>5, <4>1 DEF ReplayInv, AheadIsDone
    <3> QED BY <3>4, <3>5 DEF AheadIsDone
  <2>3. ASSUME NEW w \in Workers, Dispatch(w)
        PROVE  InFlightIsFirst' /\ PollIsDue' /\ AheadIsDone'
    <3>1. PICK j \in poll[w] : IsFirst(j, poll[w]) /\ Exec!Invoke(w, j, InputHash)
      BY <2>3 DEF Dispatch
    <3>2. InFlightIsFirst'
      BY <2>3, <3>1 DEF Dispatch, Exec!Invoke, ReplayInv, InFlightIsFirst
    <3> QED BY <2>3, <3>1, <3>2
            DEF Dispatch, Exec!Invoke, ReplayInv, PollIsDue, AheadIsDone
  <2>4. ASSUME NEW w \in Workers, Step(w) \/ Disturb(w)
        PROVE  InFlightIsFirst' /\ PollIsDue' /\ AheadIsDone'
    BY <2>4, AwaitStep
  <2>5. ASSUME NEW w \in Workers, Stop(w)
        PROVE  InFlightIsFirst' /\ PollIsDue' /\ AheadIsDone'
    <3>1. /\ poll' = [poll EXCEPT ![w] = {}] /\ closed' = closed
          /\ effects' = effects /\ pc' = pc /\ call' = call /\ pc[w] = "idle"
      BY <2>5 DEF Stop, jobVars
    <3>2. \A k \in Jobs : effects'[k] >= effects[k] /\ effects'[k] \in Nat
      BY <3>1
    <3> QED BY <3>1, <3>2, AheadStep DEF ReplayInv, InFlightIsFirst
  <2>6. CASE UNCHANGED vars
    BY <2>6 DEF vars, jobVars, ReplayInv, InFlightIsFirst, PollIsDue, AheadIsDone
  <2> QED BY <2>1, <2>2, <2>3, <2>4, <2>5, <2>6 DEF Next
<1> QED BY <1>1, <1>2 DEF ReplayInv

\* Before the first poll there is nothing to be ahead of.
LEMMA ReplayInit == Init => ReplayInv
  BY DEF Init, Exec!Init, Exec!AbsentRow, ReplayInv, InFlightIsFirst, PollIsDue,
         AheadIsDone, PredecessorsComplete, Attempted

LEMMA ReplaySafe == Spec => []ReplayInv
<1>1. TypeOK /\ ReplayInv /\ ExecInv' /\ [Next]_vars => ReplayInv'
  BY ReplayInductive
<1> QED BY <1>1, ReplayInit, ScheduleTypeCorrect, ExecutorIsSafe, PTL DEF Spec

\* Across polls, restarts and workers no job of a session is attempted before
\* the writes of the jobs it follows are durable.
THEOREM PredecessorsFirst == Spec => []PredecessorsComplete
  BY ReplaySafe, PTL DEF ReplayInv

\* The row of a due job is not touched before the writes of every due job ahead
\* of it are durable, also those of older sessions.
THEOREM OldestFirst == Spec => ReplaysOldestFirst
<1>1. TypeOK /\ ReplayInv /\ [Next]_vars =>
        [\A i, j \in DueJobs :
            Before(i, j) /\ taskRun'[j] # taskRun[j] => effects[i] >= 1]_vars
  <2> SUFFICES ASSUME TypeOK, ReplayInv, [Next]_vars,
                      NEW i \in DueJobs, NEW j \in DueJobs,
                      Before(i, j), taskRun'[j] # taskRun[j]
               PROVE  effects[i] >= 1
    OBVIOUS
  <2>1. i \in Jobs /\ j \in Jobs /\ i.session > closed - MaxReplay
    BY DEF DueJobs
  <2>2. PICK w \in Workers : IsFirst(j, poll[w])
    BY <2>1, WriterIsFirst
  <2>3. poll[w] \in SUBSET Jobs
    BY DEF TypeOK
  <2>4. j \in poll[w] /\ i \notin poll[w]
    BY <2>1, <2>2, <2>3, NothingBeforeFirst DEF IsFirst
  <2> QED BY <2>1, <2>4 DEF ReplayInv, AheadIsDone
<1> QED BY <1>1, ReplaySafe, ScheduleTypeCorrect, PTL DEF Spec, ReplaysOldestFirst

-----------------------------------------------------------------------------
(* One report per period.                                                  *)

\* Of the sessions of one week, month or quarter the calendar makes only the
\* last one due: two jobs of one cadence and period are the same job.
LEMMA OneJobPerPeriod ==
    ASSUME NEW i \in Jobs, NEW j \in Jobs, i.cadence = j.cadence,
           Period(i.cadence, i.session) = Period(j.cadence, j.session)
    PROVE  i = j
<1>1. i.session \in Sessions /\ j.session \in Sessions
      /\ IsFinal(i.cadence, i.session) /\ IsFinal(j.cadence, j.session)
  BY DEF Jobs
<1>2. ~(i.session < j.session) /\ ~(j.session < i.session)
  BY <1>1 DEF IsFinal
<1>3. i.session = j.session
  BY <1>1, <1>2 DEF Sessions
<1> QED BY <1>3 DEF Jobs

\* Whatever the calendar and the retry limit, a period has one job, and its
\* report is written at most once for every two attempts of the limit: at most
\* twice with the worker's three, which two workers can reach.
THEOREM ReportsPerPeriod ==
    Spec => [](\A i, j \in Jobs :
                  /\ i.cadence = j.cadence
                  /\ Period(i.cadence, i.session) = Period(j.cadence, j.session)
                  => i = j /\ 2 * effects[i] <= MaxAttempts + 1)
<1>1. ExecInv => \A i, j \in Jobs :
                    /\ i.cadence = j.cadence
                    /\ Period(i.cadence, i.session) = Period(j.cadence, j.session)
                    => i = j /\ 2 * effects[i] <= MaxAttempts + 1
  BY OneJobPerPeriod DEF ExecInv, Exec!EffectsWithinRetryLimit
<1> QED BY <1>1, ExecutorIsSafe, PTL

=============================================================================
