----------------------------- MODULE LLMBudget -----------------------------
(***************************************************************************)
(* The budget gate before every model call: LLMBudgetService               *)
(* (application/llm_budget.py) on SqlAlchemyLLMBudgetStore                 *)
(* (infrastructure/llm_budget.py), as OpenAICompatibleLLMGateway.complete  *)
(* uses it.  A call reads the policy, reserves its worst case in a day     *)
(* ledger and a task ledger, goes out to the provider, and reconciles the  *)
(* reservation with the usage the provider reports.                        *)
(*                                                                         *)
(* A transaction loads a ledger row when it locks it and writes back values*)
(* computed from what it loaded.  An amount has two dimensions, tokens and *)
(* cost, checked independently.                                            *)
(***************************************************************************)
EXTENDS Integers, FiniteSets, Functions

CONSTANTS
    Calls,      \* network calls, each with the reservation it may make
    Tasks,      \* request ids: a repair attempt shares the first one's
    Days,       \* UTC days, the window of the day ledger
    Policies,   \* budget policies the owner may save
    WorstCases, \* amounts a call may have to reserve
    Usages,     \* amounts a provider may report
    NoPolicy,   \* no policy row (a model value)
    LatePolicy  \* whether the owner may save a policy while calls run

Dims == {"tokens", "cost"}
Amount == [Dims -> Nat]
NoAmount == [m \in Dims |-> 0]
Plus(a, b) == [m \in Dims |-> a[m] + b[m]]
Minus(a, b) == [m \in Dims |-> a[m] - b[m]]
Within(a, b) == \A m \in Dims : a[m] <= b[m]

Policy == [task : Amount, daily : Amount]
NoCall == "free"

ASSUME AmountsAssumption == WorstCases \subseteq Amount /\ Usages \subseteq Amount
ASSUME PoliciesAssumption == Policies \subseteq Policy /\ NoPolicy \notin Policies
ASSUME CallsAssumption == IsFiniteSet(Calls) /\ NoCall \notin Calls
ASSUME LatePolicyAssumption == LatePolicy \in BOOLEAN

VARIABLES
    policy,         \* the policy row
    daily,          \* the day ledgers
    task,           \* the task ledgers
    taskRow,        \* the task ledgers that have a row
    advisory,       \* holder of each day's advisory lock
    dailyLock,      \* holder of each day ledger's row lock
    taskLock,       \* holder of each task ledger's row lock
    reservation,    \* the reservation row of each call
    used,           \* the usage the provider reported for each call
    pc,             \* where each call is
    asks,           \* the task, day, worst case and policy a call works with
    loaded,         \* the ledger rows a call's transaction has loaded
    saved           \* history: every policy there has been

ledgers == <<daily, task, taskRow, reservation>>
locks == <<advisory, dailyLock, taskLock>>
vars == <<policy, ledgers, locks, pc, asks, used, loaded, saved>>

Ledger == [reserved : [Dims -> Int], consumed : [Dims -> Int]]
EmptyLedger == [reserved |-> NoAmount, consumed |-> NoAmount]
Total(ledger) == Plus(ledger.reserved, ledger.consumed)

Reserving == {"advisory", "daily", "task_select", "task_insert", "decide"}
Settling == {"settle_daily", "settle_task", "settle"}
Ended == {"refused", "abandoned", "settled"}
Places == Reserving \cup Settling \cup Ended \cup {"idle", "reserved", "sent"}

\* Places at which a transaction has loaded a row and holds its lock.
HoldsDaily == {"task_select", "task_insert", "decide", "settle_task", "settle"}
HoldsTask == {"decide", "settle"}

TypeOK ==
    /\ policy \in Policies \cup {NoPolicy}
    /\ daily \in [Days -> Ledger]
    /\ task \in [Tasks -> Ledger]
    /\ taskRow \in [Tasks -> BOOLEAN]
    /\ advisory \in [Days -> Calls \cup {NoCall}]
    /\ dailyLock \in [Days -> Calls \cup {NoCall}]
    /\ taskLock \in [Tasks -> Calls \cup {NoCall}]
    /\ reservation \in [Calls -> {"none", "RESERVED", "RECONCILED"}]
    /\ used \in [Calls -> Amount]
    /\ pc \in [Calls -> Places]
    /\ asks \in [Calls -> [task : Tasks, day : Days, amount : Amount,
                           policy : Policies \cup {NoPolicy}]]
    /\ loaded \in [Calls -> [daily : Ledger, task : Ledger]]
    /\ saved \subseteq Policies

Init ==
    /\ policy \in Policies \cup {NoPolicy}
    /\ saved = {policy} \ {NoPolicy}
    /\ daily = [d \in Days |-> EmptyLedger]
    /\ task = [t \in Tasks |-> EmptyLedger]
    /\ taskRow = [t \in Tasks |-> FALSE]
    /\ advisory = [d \in Days |-> NoCall]
    /\ dailyLock = [d \in Days |-> NoCall]
    /\ taskLock = [t \in Tasks |-> NoCall]
    /\ reservation = [c \in Calls |-> "none"]
    /\ used = [c \in Calls |-> NoAmount]
    /\ pc = [c \in Calls |-> "idle"]
    \* The task and day a call will be for are fixed from the start.
    /\ asks \in [Calls -> [task : Tasks, day : Days, amount : {NoAmount},
                           policy : {NoPolicy}]]
    /\ loaded = [c \in Calls |-> [daily |-> EmptyLedger, task |-> EmptyLedger]]

DayOf(c) == asks[c].day
TaskOf(c) == asks[c].task
AmountOf(c) == asks[c].amount

Goto(c, place) == pc' = [pc EXCEPT ![c] = place]

\* Mutated form of SetStatus: a status the table does not know.
SetStatusReleased(c, status) == reservation' = [reservation EXCEPT ![c] = "RELEASED"]

SetStatus(c, status) == reservation' = [reservation EXCEPT ![c] = status]

\* Mutated form of ReleaseLocks: a session-scoped advisory lock.
ReleaseLocksKeepingDay(c) ==
    /\ dailyLock' = [d \in Days |-> IF dailyLock[d] = c THEN NoCall ELSE dailyLock[d]]
    /\ taskLock' = [t \in Tasks |-> IF taskLock[t] = c THEN NoCall ELSE taskLock[t]]
    /\ UNCHANGED advisory

\* Commit and rollback release every lock of the transaction.
ReleaseLocks(c) ==
    /\ advisory' = [d \in Days |-> IF advisory[d] = c THEN NoCall ELSE advisory[d]]
    /\ dailyLock' = [d \in Days |-> IF dailyLock[d] = c THEN NoCall ELSE dailyLock[d]]
    /\ taskLock' = [t \in Tasks |-> IF taskLock[t] = c THEN NoCall ELSE taskLock[t]]

-----------------------------------------------------------------------------
SavePolicy(p) ==
    /\ LatePolicy
    /\ policy' = p
    /\ saved' = saved \cup {p}
    /\ UNCHANGED <<ledgers, locks, pc, asks, used, loaded>>

\* The policy is read in a transaction of its own, before the reservation's.
ReadPolicy(c, a) ==
    /\ pc[c] = "idle"
    /\ policy # NoPolicy
    /\ asks' = [asks EXCEPT ![c] = [@ EXCEPT !.amount = a, !.policy = policy]]
    /\ Goto(c, "advisory")
    /\ UNCHANGED <<policy, ledgers, locks, used, loaded, saved>>

\* No policy, no pricing, or another currency: the call is refused unsent.
RefuseUnpriced(c) ==
    /\ pc[c] = "idle"
    /\ Goto(c, "refused")
    /\ UNCHANGED <<policy, ledgers, locks, asks, used, loaded, saved>>

-----------------------------------------------------------------------------
(* SqlAlchemyLLMBudgetStore.reserve: one transaction.                      *)

LockDay(c) ==
    /\ pc[c] = "advisory"
    /\ advisory[DayOf(c)] = NoCall
    /\ advisory' = [advisory EXCEPT ![DayOf(c)] = c]
    /\ Goto(c, "daily")
    /\ UNCHANGED <<policy, ledgers, dailyLock, taskLock, asks, used, loaded, saved>>

\* Lock and load the day ledger, or create it: the advisory lock makes the
\* creation exclusive.  Waits while another transaction has the row.
LoadDaily(c, from, to) ==
    /\ pc[c] = from
    /\ dailyLock[DayOf(c)] = NoCall
    /\ dailyLock' = [dailyLock EXCEPT ![DayOf(c)] = c]
    /\ loaded' = [loaded EXCEPT ![c].daily = daily[DayOf(c)]]
    /\ Goto(c, to)
    /\ UNCHANGED <<policy, ledgers, advisory, taskLock, asks, used, saved>>

LoadTask(c, from, to) ==
    /\ pc[c] = from
    /\ taskRow[TaskOf(c)]
    /\ taskLock[TaskOf(c)] = NoCall
    /\ taskLock' = [taskLock EXCEPT ![TaskOf(c)] = c]
    /\ loaded' = [loaded EXCEPT ![c].task = task[TaskOf(c)]]
    /\ Goto(c, to)
    /\ UNCHANGED <<policy, ledgers, advisory, dailyLock, asks, used, saved>>

LockDaily(c) == LoadDaily(c, "daily", "task_select")
SelectTask(c) == LoadTask(c, "task_select", "decide")

\* There is no row to lock, so the transaction goes on to insert one.
MissTask(c) ==
    /\ pc[c] = "task_select"
    /\ ~taskRow[TaskOf(c)]
    /\ Goto(c, "task_insert")
    /\ UNCHANGED <<policy, ledgers, locks, asks, used, loaded, saved>>

\* The insert waits for another transaction's uncommitted row of the same task.
InsertTask(c) ==
    /\ pc[c] = "task_insert"
    /\ taskLock[TaskOf(c)] = NoCall
    /\ ~taskRow[TaskOf(c)]
    /\ taskLock' = [taskLock EXCEPT ![TaskOf(c)] = c]
    /\ loaded' = [loaded EXCEPT ![c].task = EmptyLedger]
    /\ Goto(c, "decide")
    /\ UNCHANGED <<policy, ledgers, advisory, dailyLock, asks, used, saved>>

\* A transaction of another day inserted the row meanwhile: the primary key
\* refuses the second one and the reservation fails.
InsertTaskConflicts(c) ==
    /\ pc[c] = "task_insert"
    /\ taskRow[TaskOf(c)]
    /\ taskLock[TaskOf(c)] = NoCall
    /\ ReleaseLocks(c)
    /\ Goto(c, "refused")
    /\ UNCHANGED <<policy, ledgers, asks, used, loaded, saved>>

\* Mutated form of Fits: what other calls have reserved is not counted.
FitsConsumedOnly(c) ==
    /\ Within(Plus(loaded[c].daily.consumed, AmountOf(c)), asks[c].policy.daily)
    /\ Within(Plus(loaded[c].task.consumed, AmountOf(c)), asks[c].policy.task)

Fits(c) ==
    /\ Within(Plus(Total(loaded[c].daily), AmountOf(c)), asks[c].policy.daily)
    /\ Within(Plus(Total(loaded[c].task), AmountOf(c)), asks[c].policy.task)

AddReserved(ledger, amount) == [ledger EXCEPT !.reserved = Plus(@, amount)]

Reserve(c) ==
    /\ pc[c] = "decide"
    /\ Fits(c)
    /\ daily' = [daily EXCEPT ![DayOf(c)] = AddReserved(loaded[c].daily, AmountOf(c))]
    /\ task' = [task EXCEPT ![TaskOf(c)] = AddReserved(loaded[c].task, AmountOf(c))]
    /\ taskRow' = [taskRow EXCEPT ![TaskOf(c)] = TRUE]
    /\ SetStatus(c, "RESERVED")
    /\ ReleaseLocks(c)
    /\ Goto(c, "reserved")
    /\ UNCHANGED <<policy, asks, used, loaded, saved>>

\* Returning None leaves the transaction by its normal exit: new ledger rows
\* are committed, no amount is.
RefuseOverBudget(c) ==
    /\ pc[c] = "decide"
    /\ ~Fits(c)
    /\ taskRow' = [taskRow EXCEPT ![TaskOf(c)] = TRUE]
    /\ ReleaseLocks(c)
    /\ Goto(c, "refused")
    /\ UNCHANGED <<policy, daily, task, reservation, asks, used, loaded, saved>>

-----------------------------------------------------------------------------
(* The provider call, and SqlAlchemyLLMBudgetStore.reconcile.              *)

Send(c) ==
    /\ pc[c] = "reserved"
    /\ Goto(c, "sent")
    /\ UNCHANGED <<policy, ledgers, locks, asks, used, loaded, saved>>

\* Usage above the reservation, or none that can be verified, ends the call
\* without reconciling.  So do a timeout and a failing provider (Abandon).
Answer(c, u) ==
    /\ pc[c] = "sent"
    /\ Within(u, AmountOf(c))
    /\ used' = [used EXCEPT ![c] = u]
    /\ Goto(c, "settle_daily")
    /\ UNCHANGED <<policy, ledgers, locks, asks, loaded, saved>>

SettleDaily(c) == LoadDaily(c, "settle_daily", "settle_task")
SettleTask(c) == LoadTask(c, "settle_task", "settle")

\* Mutated form of Convert: the reservation is not taken back.
ConvertKeepingReserved(ledger, amount, spent) ==
    [ledger EXCEPT !.consumed = Plus(@, spent)]

Convert(ledger, amount, spent) ==
    [reserved |-> Minus(ledger.reserved, amount),
     consumed |-> Plus(ledger.consumed, spent)]

Reconcile(c) ==
    /\ pc[c] = "settle"
    /\ reservation[c] = "RESERVED"
    /\ daily' = [daily EXCEPT ![DayOf(c)] =
                    Convert(loaded[c].daily, AmountOf(c), used[c])]
    /\ task' = [task EXCEPT ![TaskOf(c)] =
                    Convert(loaded[c].task, AmountOf(c), used[c])]
    /\ SetStatus(c, "RECONCILED")
    /\ ReleaseLocks(c)
    /\ Goto(c, "settled")
    /\ UNCHANGED <<policy, taskRow, asks, used, loaded, saved>>

\* A failure, a timeout that cancels the call, or a crash: an open transaction
\* is rolled back, a committed reservation stays RESERVED for ever.
Abandon(c) ==
    /\ pc[c] \notin Ended \cup {"idle"}
    /\ ReleaseLocks(c)
    /\ Goto(c, "abandoned")
    /\ UNCHANGED <<policy, ledgers, asks, used, loaded, saved>>

-----------------------------------------------------------------------------
Proceed(c) ==
    \/ LockDay(c) \/ LockDaily(c)
    \/ SelectTask(c) \/ MissTask(c) \/ InsertTask(c) \/ InsertTaskConflicts(c)
    \/ Reserve(c) \/ RefuseOverBudget(c)
    \/ Send(c) \/ SettleDaily(c) \/ SettleTask(c) \/ Reconcile(c)

AllEnded == (\A c \in Calls : pc[c] \in Ended) /\ UNCHANGED vars

Next ==
    \/ \E p \in Policies : SavePolicy(p)
    \/ \E c \in Calls :
        \/ \E a \in WorstCases : ReadPolicy(c, a)
        \/ RefuseUnpriced(c)
        \/ Proceed(c)
        \/ \E u \in Usages : Answer(c, u)
        \/ Abandon(c)
    \/ AllEnded

Spec == Init /\ [][Next]_vars

\* A transaction goes on when the lock it waits for is free, and the HTTP client
\* gives up on a provider that does not answer.  No answer is ever owed.
Fairness ==
    \A c \in Calls :
        /\ WF_vars(Proceed(c))
        /\ WF_vars(pc[c] = "sent" /\ Abandon(c))

LiveSpec == Spec /\ Fairness

-----------------------------------------------------------------------------
(* Properties.                                                             *)

SumOf(S, amounts) == FoldFunctionOnSet(Plus, NoAmount, amounts, S)

\* What the reservation and usage rows of a set of calls add up to.
Booked(S) ==
    [reserved |-> SumOf({c \in S : reservation[c] = "RESERVED"},
                        [c \in Calls |-> AmountOf(c)]),
     consumed |-> SumOf({c \in S : reservation[c] = "RECONCILED"}, used)]

\* Both ledgers are the sum of the rows behind them, whatever interleaves and
\* whoever crashes: no capacity is lost, none is counted twice, and an
\* abandoned reservation still counts.
LedgersBalance ==
    /\ \A d \in Days : daily[d] = Booked({c \in Calls : DayOf(c) = d})
    /\ \A t \in Tasks : task[t] = Booked({c \in Calls : TaskOf(c) = t})

\* A transaction that has loaded a ledger holds its row lock, and what it loaded
\* is still the committed row: what it writes back loses no other update.
LoadedIsCurrent ==
    \A c \in Calls :
        /\ pc[c] \in HoldsDaily =>
              dailyLock[DayOf(c)] = c /\ loaded[c].daily = daily[DayOf(c)]
        /\ pc[c] \in HoldsTask =>
              taskLock[TaskOf(c)] = c /\ loaded[c].task = task[TaskOf(c)]

\* The hard cap: what a day or a task has reserved and consumed never exceeds a
\* limit the owner has set.  With a single policy it never exceeds that policy.
CapHeld ==
    /\ \A d \in Days :
        \/ Within(Total(daily[d]), NoAmount)
        \/ \E p \in saved : Within(Total(daily[d]), p.daily)
    /\ \A t \in Tasks :
        \/ Within(Total(task[t]), NoAmount)
        \/ \E p \in saved : Within(Total(task[t]), p.task)

\* Reserving and reconciling lock in one order: every call that began ends, and
\* none waits for ever for a lock.
EveryCallEnds == \A c \in Calls : pc[c] # "idle" ~> pc[c] \in Ended

=============================================================================
