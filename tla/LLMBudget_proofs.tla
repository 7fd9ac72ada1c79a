-------------------------- MODULE LLMBudget_proofs --------------------------
(***************************************************************************)
(* The hard cap of the LLM budget and the balance of its ledgers, for every*)
(* finite set of calls and all tasks, days, policies and amounts.          *)
(***************************************************************************)
EXTENDS LLMBudget, WellFoundedInduction, FiniteSetTheorems, TLAPS

USE AmountsAssumption, PoliciesAssumption, CallsAssumption, LatePolicyAssumption

-----------------------------------------------------------------------------
(* Amounts and ledgers.                                                    *)

\* Reserving and reconciling turn a ledger into a ledger.
LEMMA LedgerOperations ==
    ASSUME NEW l \in Ledger, NEW a \in Amount, NEW u \in Amount
    PROVE  AddReserved(l, a) \in Ledger /\ Convert(l, a, u) \in Ledger
  BY DEF Ledger, Amount, AddReserved, Convert, Plus, Minus

\* What a reservation adds to the total is what was checked against the limit.
LEMMA ReserveTotal ==
    ASSUME NEW l \in Ledger, NEW a \in Amount, NEW limit \in Amount,
           Within(Plus(Total(l), a), limit)
    PROVE  Within(Total(AddReserved(l, a)), limit)
  BY DEF Ledger, Amount, AddReserved, Total, Plus, Within

\* Reconciling never raises a total when the usage is within the reservation.
LEMMA ConvertTotal ==
    ASSUME NEW l \in Ledger, NEW a \in Amount, NEW u \in Amount, Within(u, a),
           NEW limit \in Amount, Within(Total(l), limit)
    PROVE  Within(Total(Convert(l, a, u)), limit)
  BY DEF Ledger, Amount, Convert, Total, Plus, Minus, Within

LEMMA NoAmountTyped == NoAmount \in Amount /\ EmptyLedger \in Ledger
  BY DEF NoAmount, Amount, EmptyLedger, Ledger

Ask == [task : Tasks, day : Days, amount : Amount, policy : Policies \cup {NoPolicy}]

\* Reading the policy leaves what a call asks for well typed.
LEMMA AskTyped ==
    ASSUME NEW r \in Ask, NEW a \in Amount, NEW p \in Policies \cup {NoPolicy}
    PROVE  [r EXCEPT !.amount = a, !.policy = p] \in Ask
  BY DEF Ask

-----------------------------------------------------------------------------
\* Every reachable state is well typed.  Ledgers are integers here; that they are
\* never negative is LedgersNeverNegative.
THEOREM BudgetTypeCorrect == Spec => []TypeOK
<1>1. Init => TypeOK
  BY NoAmountTyped DEF Init, TypeOK, Places
<1>2. TypeOK /\ [Next]_vars => TypeOK'
  <2> SUFFICES ASSUME TypeOK, [Next]_vars PROVE TypeOK'
    OBVIOUS
  <2> USE DEF TypeOK, Goto, ledgers, locks, DayOf, TaskOf, AmountOf
  <2>1. ASSUME NEW p \in Policies, SavePolicy(p) PROVE TypeOK'
    BY <2>1 DEF SavePolicy
  <2>2. ASSUME NEW c \in Calls, NEW a \in WorstCases, ReadPolicy(c, a) PROVE TypeOK'
    <3>1. asks[c] \in Ask /\ a \in Amount
      BY DEF Ask
    <3>2. [asks[c] EXCEPT !.amount = a, !.policy = policy] \in Ask
      BY <3>1, AskTyped
    <3>3. asks' \in [Calls -> Ask]
      BY <2>2, <3>2 DEF ReadPolicy, Ask
    <3>4. pc' \in [Calls -> Places]
      BY <2>2 DEF ReadPolicy, Places, Reserving
    <3> QED BY <2>2, <3>3, <3>4 DEF ReadPolicy, Ask
  <2>3. ASSUME NEW c \in Calls, RefuseUnpriced(c) \/ Send(c) \/ MissTask(c)
        PROVE  TypeOK'
    <3>1. pc' \in [Calls -> Places]
      BY <2>3 DEF RefuseUnpriced, Send, MissTask, Places, Ended, Reserving
    <3> QED BY <2>3, <3>1 DEF RefuseUnpriced, Send, MissTask
  <2>4. ASSUME NEW c \in Calls, NEW from, NEW to \in Places, LoadDaily(c, from, to)
        PROVE  TypeOK'
    <3>1. loaded[c] \in [daily : Ledger, task : Ledger] /\ daily[DayOf(c)] \in Ledger
      OBVIOUS
    <3>2. [loaded[c] EXCEPT !.daily = daily[DayOf(c)]] \in [daily : Ledger, task : Ledger]
      BY <3>1
    <3> QED BY <2>4, <3>2 DEF LoadDaily
  <2>5. ASSUME NEW c \in Calls, NEW from, NEW to \in Places, LoadTask(c, from, to)
        PROVE  TypeOK'
    <3>1. loaded[c] \in [daily : Ledger, task : Ledger] /\ task[TaskOf(c)] \in Ledger
      OBVIOUS
    <3>2. [loaded[c] EXCEPT !.task = task[TaskOf(c)]] \in [daily : Ledger, task : Ledger]
      BY <3>1
    <3> QED BY <2>5, <3>2 DEF LoadTask
  <2>6. ASSUME NEW c \in Calls, LockDay(c) PROVE TypeOK'
    BY <2>6 DEF LockDay, Places, Reserving
  <2>7. ASSUME NEW c \in Calls, InsertTask(c) PROVE TypeOK'
    <3>1. EmptyLedger \in Ledger /\ loaded[c] \in [daily : Ledger, task : Ledger]
      BY NoAmountTyped
    <3>2. [loaded[c] EXCEPT !.task = EmptyLedger] \in [daily : Ledger, task : Ledger]
      BY <3>1
    <3> QED BY <2>7, <3>2 DEF InsertTask, Places, Reserving
  <2>8. ASSUME NEW c \in Calls,
               InsertTaskConflicts(c) \/ Abandon(c) \/ RefuseOverBudget(c)
        PROVE  TypeOK'
    <3>1. /\ advisory' \in [Days -> Calls \cup {NoCall}]
          /\ dailyLock' \in [Days -> Calls \cup {NoCall}]
          /\ taskLock' \in [Tasks -> Calls \cup {NoCall}]
      <4>1. ReleaseLocks(c)
        BY <2>8 DEF InsertTaskConflicts, Abandon, RefuseOverBudget
      <4> QED BY <4>1 DEF ReleaseLocks
    <3>2. pc' \in [Calls -> Places]
      BY <2>8 DEF InsertTaskConflicts, Abandon, RefuseOverBudget, Places, Ended
    <3>3. CASE InsertTaskConflicts(c) \/ Abandon(c)
      BY <3>1, <3>2, <3>3 DEF InsertTaskConflicts, Abandon
    <3>4. CASE RefuseOverBudget(c)
      BY <3>1, <3>2, <3>4 DEF RefuseOverBudget
    <3> QED BY <2>8, <3>3, <3>4
  <2>9. ASSUME NEW c \in Calls, Reserve(c) PROVE TypeOK'
    <3>1. AddReserved(loaded[c].daily, AmountOf(c)) \in Ledger
          /\ AddReserved(loaded[c].task, AmountOf(c)) \in Ledger
      BY LedgerOperations
    <3> QED BY <2>9, <3>1 DEF Reserve, SetStatus, ReleaseLocks, Places
  <2>10. ASSUME NEW c \in Calls, NEW u \in Usages, Answer(c, u) PROVE TypeOK'
    BY <2>10 DEF Answer, Places, Settling
  <2>11. ASSUME NEW c \in Calls, Reconcile(c) PROVE TypeOK'
    <3>1. Convert(loaded[c].daily, AmountOf(c), used[c]) \in Ledger
          /\ Convert(loaded[c].task, AmountOf(c), used[c]) \in Ledger
      BY LedgerOperations
    <3> QED BY <2>11, <3>1 DEF Reconcile, SetStatus, ReleaseLocks, Places, Ended
  <2>12. CASE UNCHANGED vars
    BY <2>12 DEF vars
  <2>13. {"task_select", "decide", "settle_task", "settle"} \subseteq Places
    BY DEF Places, Reserving, Settling
  <2>14. ASSUME NEW c \in Calls, Proceed(c) PROVE TypeOK'
    BY <2>14, <2>3, <2>4, <2>5, <2>6, <2>7, <2>8, <2>9, <2>11, <2>13
    DEF Proceed, LockDaily, SelectTask, SettleDaily, SettleTask
  <2> QED BY <2>1, <2>2, <2>3, <2>8, <2>10, <2>12, <2>14 DEF Next, AllEnded
<1> QED BY <1>1, <1>2, PTL DEF Spec

-----------------------------------------------------------------------------
\* A task ledger without a row is the empty one an insert starts from, and a
\* transaction that settles has found a row.
RowsExist ==
    /\ \A t \in Tasks : taskRow[t] \/ task[t] = EmptyLedger
    /\ \A c \in Calls : pc[c] = "settle" => taskRow[TaskOf(c)]
LoadedInv == RowsExist /\ LoadedIsCurrent

\* No step of one call makes what another call has loaded stale: a ledger is
\* written by the holder of its row lock only.
LEMMA LoadedInductive == TypeOK /\ LoadedInv /\ [Next]_vars => LoadedInv'
<1> SUFFICES ASSUME TypeOK, LoadedInv, [Next]_vars PROVE LoadedInv'
  OBVIOUS
<1> USE DEF LoadedInv, RowsExist, LoadedIsCurrent, Goto, ledgers, locks, DayOf,
            TaskOf, AmountOf
<1>a. /\ pc \in [Calls -> Places]
      /\ daily \in [Days -> Ledger] /\ task \in [Tasks -> Ledger]
      /\ taskRow \in [Tasks -> BOOLEAN]
      /\ advisory \in [Days -> Calls \cup {NoCall}]
      /\ dailyLock \in [Days -> Calls \cup {NoCall}]
      /\ taskLock \in [Tasks -> Calls \cup {NoCall}]
      /\ asks \in [Calls -> Ask]
      /\ loaded \in [Calls -> [daily : Ledger, task : Ledger]]
      /\ \A c \in Calls : asks[c].day \in Days /\ asks[c].task \in Tasks
  BY DEF TypeOK, Ask
<1>1. ASSUME NEW p \in Policies, SavePolicy(p) PROVE LoadedInv'
  BY <1>1 DEF SavePolicy
<1>2. ASSUME NEW c \in Calls, NEW a \in WorstCases, ReadPolicy(c, a)
      PROVE  LoadedInv'
  <2>1. \A e \in Calls : asks'[e].day = asks[e].day /\ asks'[e].task = asks[e].task
    BY <1>2, <1>a DEF ReadPolicy, Ask
  <2>2. \A e \in Calls : pc'[e] \in HoldsDaily \cup HoldsTask \cup {"settle"} =>
                            pc'[e] = pc[e]
    BY <1>2, <1>a DEF ReadPolicy, HoldsDaily, HoldsTask
  <2> QED BY <1>2, <2>1, <2>2 DEF ReadPolicy
<1>3. ASSUME NEW c \in Calls,
             RefuseUnpriced(c) \/ Send(c) \/ MissTask(c) \/ LockDay(c)
               \/ \E u \in Usages : Answer(c, u)
      PROVE  LoadedInv'
  <2>1. \A e \in Calls :
          /\ pc'[e] \in HoldsDaily => pc[e] \in HoldsDaily
          /\ pc'[e] \in HoldsTask => pc[e] \in HoldsTask
          /\ pc'[e] = "settle" => pc[e] = "settle"
    BY <1>3, <1>a DEF RefuseUnpriced, Send, MissTask, LockDay, Answer, HoldsDaily,
                      HoldsTask
  <2>2. /\ UNCHANGED <<daily, task, taskRow, dailyLock, taskLock>>
        /\ UNCHANGED <<asks, loaded>>
    <3>1. CASE \E u \in Usages : Answer(c, u)
      BY <3>1 DEF Answer
    <3> QED BY <1>3, <3>1 DEF RefuseUnpriced, Send, MissTask, LockDay
  <2> QED BY <2>1, <2>2
<1>4. ASSUME NEW c \in Calls, LockDaily(c) \/ SettleDaily(c) PROVE LoadedInv'
  BY <1>4, <1>a DEF LockDaily, SettleDaily, LoadDaily, HoldsDaily, HoldsTask, NoCall
<1>5. ASSUME NEW c \in Calls, SelectTask(c) \/ SettleTask(c) PROVE LoadedInv'
  <2>1. CASE SelectTask(c)
    BY <2>1, <1>a DEF SelectTask, LoadTask, HoldsDaily, HoldsTask, NoCall
  <2>2. CASE SettleTask(c)
    BY <2>2, <1>a DEF SettleTask, LoadTask, HoldsDaily, HoldsTask, NoCall
  <2> QED BY <1>5, <2>1, <2>2
<1>6. ASSUME NEW c \in Calls, InsertTask(c) PROVE LoadedInv'
  BY <1>6, <1>a DEF InsertTask, HoldsDaily, HoldsTask, NoCall
<1>7. ASSUME NEW c \in Calls,
             InsertTaskConflicts(c) \/ Abandon(c) \/ RefuseOverBudget(c)
      PROVE  LoadedInv'
  <2>1. /\ UNCHANGED <<daily, task, asks, loaded>>
        /\ \A t \in Tasks : taskRow[t] => taskRow'[t]
        /\ ReleaseLocks(c)
        /\ pc'[c] \notin HoldsDaily \cup HoldsTask \cup {"settle"}
        /\ \A e \in Calls \ {c} : pc'[e] = pc[e]
    BY <1>7, <1>a DEF InsertTaskConflicts, Abandon, RefuseOverBudget, HoldsDaily,
                      HoldsTask
  <2>2. /\ \A e \in Calls \ {c}, d \in Days : dailyLock[d] = e => dailyLock'[d] = e
        /\ \A e \in Calls \ {c}, t \in Tasks : taskLock[t] = e => taskLock'[t] = e
    BY <2>1, <1>a DEF ReleaseLocks
  <2> QED BY <2>1, <2>2, <1>a
<1>8. ASSUME NEW c \in Calls, Reserve(c) PROVE LoadedInv'
  BY <1>8, <1>a DEF Reserve, ReleaseLocks, HoldsDaily, HoldsTask, NoCall
<1>9. ASSUME NEW c \in Calls, Reconcile(c) PROVE LoadedInv'
  <2>1. /\ pc[c] \in HoldsDaily \cap HoldsTask
        /\ pc'[c] \notin HoldsDaily \cup HoldsTask \cup {"settle"}
        /\ \A e \in Calls \ {c} : pc'[e] = pc[e]
        /\ \A d \in Days \ {DayOf(c)} : daily'[d] = daily[d]
        /\ \A t \in Tasks \ {TaskOf(c)} : task'[t] = task[t]
        /\ UNCHANGED <<asks, loaded, taskRow>>
    BY <1>9, <1>a DEF Reconcile, HoldsDaily, HoldsTask
  <2>2. /\ \A e \in Calls \ {c}, d \in Days : dailyLock[d] = e => dailyLock'[d] = e
        /\ \A e \in Calls \ {c}, t \in Tasks : taskLock[t] = e => taskLock'[t] = e
    BY <1>9, <1>a DEF Reconcile, ReleaseLocks
  <2>3. taskRow[TaskOf(c)]
    BY <1>9 DEF Reconcile
  <2>4. RowsExist'
    BY <2>1, <2>3, <1>a
  <2>5. ASSUME NEW e \in Calls, pc'[e] \in HoldsDaily
        PROVE  dailyLock'[DayOf(e)'] = e /\ loaded'[e].daily = daily'[DayOf(e)']
    <3>1. e # c /\ pc[e] \in HoldsDaily /\ DayOf(e)' = DayOf(e)
      BY <2>1, <2>5
    <3>2. dailyLock[DayOf(e)] = e /\ dailyLock[DayOf(c)] = c
      BY <2>1, <3>1
    <3> QED BY <2>1, <2>2, <3>1, <3>2, <1>a
  <2>6. ASSUME NEW e \in Calls, pc'[e] \in HoldsTask
        PROVE  taskLock'[TaskOf(e)'] = e /\ loaded'[e].task = task'[TaskOf(e)']
    <3>1. e # c /\ pc[e] \in HoldsTask /\ TaskOf(e)' = TaskOf(e)
      BY <2>1, <2>6
    <3>2. taskLock[TaskOf(e)] = e /\ taskLock[TaskOf(c)] = c
      BY <2>1, <3>1
    <3> QED BY <2>1, <2>2, <3>1, <3>2, <1>a
  <2> QED BY <2>4, <2>5, <2>6
<1>10. CASE UNCHANGED vars
  BY <1>10 DEF vars
<1> QED BY <1>1, <1>2, <1>3, <1>4, <1>5, <1>6, <1>7, <1>8, <1>9, <1>10
        DEF Next, Proceed, AllEnded

\* What a transaction has loaded and locked is the committed row until it
\* commits: no interleaving of reservations and reconciliations loses an update.
THEOREM LoadedCurrent == Spec => []LoadedIsCurrent
<1>1. Init => LoadedInv
  BY DEF Init, LoadedInv, RowsExist, LoadedIsCurrent, HoldsDaily, HoldsTask
<1>2. LoadedInv => LoadedIsCurrent
  BY DEF LoadedInv
<1> QED BY <1>1, <1>2, LoadedInductive, BudgetTypeCorrect, PTL DEF Spec

-----------------------------------------------------------------------------
\* A call decides by a policy the owner has saved, and settles no more than it
\* has reserved: why no step raises a ledger above every saved limit.
DecidesBySavedPolicy ==
    /\ policy \in saved \cup {NoPolicy}
    /\ \A c \in Calls : pc[c] \in Reserving => asks[c].policy \in saved
SettlesWithinReservation ==
    \A c \in Calls : pc[c] \in Settling => Within(used[c], AmountOf(c))
CapInv == DecidesBySavedPolicy /\ SettlesWithinReservation /\ CapHeld

\* Every step keeps what a call knows: its policy was saved, its usage fits.
LEMMA CallsKnown ==
    TypeOK /\ CapInv /\ [Next]_vars => (DecidesBySavedPolicy /\ SettlesWithinReservation)'
<1> SUFFICES ASSUME TypeOK, CapInv, [Next]_vars
             PROVE  (DecidesBySavedPolicy /\ SettlesWithinReservation)'
  OBVIOUS
<1> USE DEF CapInv, DecidesBySavedPolicy, SettlesWithinReservation, Goto, ledgers,
            locks, AmountOf
<1>a. /\ pc \in [Calls -> Places] /\ used \in [Calls -> Amount]
      /\ asks \in [Calls -> Ask]
  BY DEF TypeOK, Ask
<1>1. ASSUME NEW p \in Policies, SavePolicy(p)
      PROVE  (DecidesBySavedPolicy /\ SettlesWithinReservation)'
  BY <1>1 DEF SavePolicy
<1>2. ASSUME NEW c \in Calls, NEW a \in WorstCases, ReadPolicy(c, a)
      PROVE  (DecidesBySavedPolicy /\ SettlesWithinReservation)'
  <2>1. asks'[c].policy = policy /\ policy \in saved
    BY <1>2, <1>a DEF ReadPolicy, Ask
  <2>2. pc'[c] \notin Settling /\ \A e \in Calls \ {c} : pc'[e] = pc[e] /\ asks'[e] = asks[e]
    BY <1>2, <1>a DEF ReadPolicy, Settling
  <2> QED BY <1>2, <2>1, <2>2 DEF ReadPolicy
<1>3. ASSUME NEW c \in Calls, NEW u \in Usages, Answer(c, u)
      PROVE  (DecidesBySavedPolicy /\ SettlesWithinReservation)'
  BY <1>3, <1>a DEF Answer, Reserving
<1>4. ASSUME NEW c \in Calls,
             RefuseUnpriced(c) \/ Proceed(c) \/ Abandon(c)
      PROVE  (DecidesBySavedPolicy /\ SettlesWithinReservation)'
  <2>1. UNCHANGED <<policy, saved, asks, used>>
    BY <1>4 DEF RefuseUnpriced, Proceed, Abandon, LockDay, LockDaily, LoadDaily,
                SelectTask, MissTask, InsertTask, InsertTaskConflicts, Reserve,
                RefuseOverBudget, Send, SettleDaily, SettleTask, LoadTask, Reconcile
  <2>2. \A e \in Calls :
          /\ pc'[e] \in Reserving => pc[e] \in Reserving
          /\ pc'[e] \in Settling => pc[e] \in Settling
    BY <1>4, <1>a DEF RefuseUnpriced, Proceed, Abandon, LockDay, LockDaily, LoadDaily,
                SelectTask, MissTask, InsertTask, InsertTaskConflicts, Reserve,
                RefuseOverBudget, Send, SettleDaily, SettleTask, LoadTask, Reconcile,
                Reserving, Settling
  <2> QED BY <2>1, <2>2
<1>5. CASE UNCHANGED vars
  BY <1>5 DEF vars
<1> QED BY <1>1, <1>2, <1>3, <1>4, <1>5 DEF Next, AllEnded

\* Reserving and reconciling keep both ledgers of a call under a saved limit.
LEMMA CapInductive ==
    TypeOK /\ LoadedIsCurrent /\ CapInv /\ [Next]_vars => CapHeld'
<1> SUFFICES ASSUME TypeOK, LoadedIsCurrent, CapInv, [Next]_vars PROVE CapHeld'
  OBVIOUS
<1>a. /\ daily \in [Days -> Ledger] /\ task \in [Tasks -> Ledger]
      /\ \A c \in Calls : /\ DayOf(c) \in Days /\ TaskOf(c) \in Tasks
                          /\ AmountOf(c) \in Amount /\ used[c] \in Amount
                          /\ loaded[c].daily \in Ledger /\ loaded[c].task \in Ledger
      /\ \A p \in saved : p.daily \in Amount /\ p.task \in Amount
  BY DEF TypeOK, DayOf, TaskOf, AmountOf, Policy
<1>1. ASSUME NEW c \in Calls, Reserve(c) PROVE CapHeld'
  <2>1. PICK p \in saved : p = asks[c].policy
    BY <1>1 DEF CapInv, DecidesBySavedPolicy, Reserve, Reserving
  <2>2. Within(Total(AddReserved(loaded[c].daily, AmountOf(c))), p.daily)
    BY <1>1, <1>a, <2>1, ReserveTotal DEF Reserve, Fits
  <2>3. Within(Total(AddReserved(loaded[c].task, AmountOf(c))), p.task)
    BY <1>1, <1>a, <2>1, ReserveTotal DEF Reserve, Fits
  <2>4. /\ Within(Total(daily'[DayOf(c)]), p.daily)
        /\ Within(Total(task'[TaskOf(c)]), p.task)
        /\ \A d \in Days \ {DayOf(c)} : daily'[d] = daily[d]
        /\ \A t \in Tasks \ {TaskOf(c)} : task'[t] = task[t]
        /\ p \in saved'
    BY <1>1, <1>a, <2>2, <2>3 DEF Reserve
  <2>5. saved' = saved
    BY <1>1 DEF Reserve
  <2> QED BY <2>4, <2>5 DEF CapInv, CapHeld
<1>2. ASSUME NEW c \in Calls, Reconcile(c) PROVE CapHeld'
  <2>1. /\ Within(used[c], AmountOf(c))
        /\ loaded[c].daily = daily[DayOf(c)] /\ loaded[c].task = task[TaskOf(c)]
    BY <1>2 DEF CapInv, SettlesWithinReservation, Reconcile, Settling, LoadedIsCurrent,
                HoldsDaily, HoldsTask
  <2>2. ASSUME NEW limit \in Amount
        PROVE  /\ Within(Total(daily[DayOf(c)]), limit) =>
                      Within(Total(daily'[DayOf(c)]), limit)
               /\ Within(Total(task[TaskOf(c)]), limit) =>
                      Within(Total(task'[TaskOf(c)]), limit)
    <3>1. /\ daily'[DayOf(c)] = Convert(daily[DayOf(c)], AmountOf(c), used[c])
          /\ task'[TaskOf(c)] = Convert(task[TaskOf(c)], AmountOf(c), used[c])
      BY <1>2, <1>a, <2>1 DEF Reconcile
    <3> QED BY <3>1, <2>1, <1>a, ConvertTotal
  <2>3. /\ \A d \in Days \ {DayOf(c)} : daily'[d] = daily[d]
        /\ \A t \in Tasks \ {TaskOf(c)} : task'[t] = task[t]
        /\ saved' = saved
    BY <1>2, <1>a DEF Reconcile
  <2> QED BY <2>2, <2>3, <1>a, NoAmountTyped DEF CapInv, CapHeld
<1>3. CASE UNCHANGED <<daily, task>> /\ saved \subseteq saved'
  BY <1>3 DEF CapInv, CapHeld
<1>4. ASSUME NEW c \in Calls,
             \/ RefuseUnpriced(c) \/ Abandon(c)
             \/ \E a \in WorstCases : ReadPolicy(c, a)
             \/ \E u \in Usages : Answer(c, u)
             \/ Proceed(c) /\ ~Reserve(c) /\ ~Reconcile(c)
      PROVE  UNCHANGED <<daily, task, saved>>
  BY <1>4 DEF RefuseUnpriced, Abandon, ReadPolicy, Answer, Proceed, LockDay, LockDaily,
              LoadDaily, SelectTask, MissTask, InsertTask, InsertTaskConflicts,
              RefuseOverBudget, Send, SettleDaily, SettleTask, LoadTask, ledgers
<1>5. ASSUME NEW p \in Policies, SavePolicy(p)
      PROVE  UNCHANGED <<daily, task>> /\ saved \subseteq saved'
  BY <1>5 DEF SavePolicy, ledgers
<1>6. CASE UNCHANGED vars
  BY <1>6, <1>3 DEF vars, ledgers
<1> QED BY <1>1, <1>2, <1>3, <1>4, <1>5, <1>6 DEF Next, AllEnded, Proceed

\* The hard cap: whatever interleaves, whoever crashes, and however often the
\* policy is changed, a ledger stays under a limit the owner has saved.
THEOREM CapHolds == Spec => []CapHeld
<1>1. Init => CapInv
  BY DEF Init, CapInv, DecidesBySavedPolicy, SettlesWithinReservation, CapHeld,
         Reserving, Settling, Total, EmptyLedger, Plus, NoAmount, Within
<1>2. TypeOK /\ LoadedIsCurrent /\ CapInv /\ [Next]_vars => CapInv'
  BY CallsKnown, CapInductive DEF CapInv
<1>3. CapInv => CapHeld
  BY DEF CapInv
<1> QED BY <1>1, <1>2, <1>3, BudgetTypeCorrect, LoadedCurrent, PTL DEF Spec

-----------------------------------------------------------------------------
(* What a sum of amounts is.  The fold takes the elements in an order CHOOSE *)
(* fixes; these lemmas show that it does not matter.  Each is an induction   *)
(* over the finite set, in the form "a least bad set cannot exist".          *)

First(T) == CHOOSE x \in T : TRUE

\* g gives every subset of S the sum of f over it.
Sums(S, f, g) ==
    g = [T \in SUBSET S |-> IF T = {} THEN NoAmount
                            ELSE LET x == CHOOSE x \in T : TRUE
                                 IN  Plus(f[x], g[T \ {x}])]

\* A sum is what the fold's recursive function gives the whole set.
LEMMA SumUnfolds ==
    ASSUME NEW S, NEW f
    PROVE  SumOf(S, f) = (CHOOSE g : Sums(S, f, g))[S]
  BY DEF SumOf, FoldFunctionOnSet, MapThenFoldSet, Sums

\* Of the subsets of a finite set that are bad, one is minimal.
LEMMA LeastBadSet ==
    ASSUME NEW S, IsFiniteSet(S), NEW Bad \in SUBSET (SUBSET S), Bad # {}
    PROVE  \E T \in Bad : \A U \in Bad : ~(U \subseteq T /\ U # T)
<1>1. IsWellFoundedOn(StrictSubsetOrdering(S), FiniteSubsetsOf(S))
  BY FS_StrictSubsetOrderingWellFounded
<1>2. Bad \subseteq FiniteSubsetsOf(S)
  BY FS_Subset DEF FiniteSubsetsOf
<1>3. PICK T \in Bad : \A U \in Bad : <<U, T>> \notin StrictSubsetOrdering(S)
  BY <1>1, <1>2, WFMin
<1> QED BY <1>3 DEF StrictSubsetOrdering

\* One step of the fold.
LEMMA SumsEquation ==
    ASSUME NEW S, NEW f, NEW g, Sums(S, f, g), NEW T \in SUBSET S
    PROVE  /\ T = {} => g[T] = NoAmount
           /\ T # {} => First(T) \in T /\ g[T] = Plus(f[First(T)], g[T \ {First(T)}])
  BY DEF Sums, First

\* There is one sum: it depends on the amounts of the set's elements only.
LEMMA SumsUnique ==
    ASSUME NEW S, IsFiniteSet(S), NEW f, NEW h,
           NEW U, NEW V, NEW g, NEW k, \A x \in S : f[x] = h[x],
           Sums(U, f, g), Sums(V, h, k), S \subseteq U, S \subseteq V
    PROVE  \A T \in SUBSET S : g[T] = k[T]
<1> DEFINE Bad == {T \in SUBSET S : g[T] # k[T]}
<1> SUFFICES ASSUME Bad # {} PROVE FALSE
  OBVIOUS
<1>1. PICK T \in Bad : \A W \in Bad : ~(W \subseteq T /\ W # T)
  <2> HIDE DEF Bad
  <2>1. Bad \in SUBSET (SUBSET S)
    BY DEF Bad
  <2> QED BY <2>1, LeastBadSet
<1>2. T \in SUBSET U /\ T \in SUBSET V
  OBVIOUS
<1>3. T # {}
  BY <1>2, SumsEquation
<1>4. First(T) \in T /\ g[T] = Plus(f[First(T)], g[T \ {First(T)}])
                     /\ k[T] = Plus(h[First(T)], k[T \ {First(T)}])
  BY <1>2, <1>3, SumsEquation
<1>5. g[T \ {First(T)}] = k[T \ {First(T)}]
  BY <1>1, <1>4
<1> QED BY <1>4, <1>5

\* There is a sum for every finite set.
LEMMA SumsExist ==
    ASSUME NEW S, IsFiniteSet(S), NEW f
    PROVE  \E g : Sums(S, f, g)
<1> DEFINE Bad == {T \in SUBSET S : ~\E g : Sums(T, f, g)}
<1> SUFFICES ASSUME Bad # {} PROVE FALSE
  OBVIOUS
<1>1. PICK T \in Bad : \A W \in Bad : ~(W \subseteq T /\ W # T)
  <2> HIDE DEF Bad
  <2>1. Bad \in SUBSET (SUBSET S)
    BY DEF Bad
  <2> QED BY <2>1, LeastBadSet
<1> DEFINE Part(W) == CHOOSE g : Sums(W, f, g)
           At(W) == Part(W)[W]
           Value(W) == IF W = {} THEN NoAmount
                       ELSE Plus(f[First(W)], At(W \ {First(W)}))
           g == [W \in SUBSET T |-> Value(W)]
<1>2. \A W \in SUBSET T : W # T => Sums(W, f, Part(W))
  BY <1>1
<1>3. ASSUME NEW W \in SUBSET T, W # T PROVE g[W] = At(W)
  <2>1. Sums(W, f, Part(W)) /\ W \in SUBSET W
    BY <1>2, <1>3
  <2>2. CASE W = {}
    <3>1. At(W) = NoAmount
      <4> HIDE DEF Part
      <4> QED BY <2>1, <2>2, SumsEquation
    <3> QED BY <2>2, <3>1
  <2>3. CASE W # {}
    <3>1. /\ First(W) \in W 
          /\ Part(W)[W] = Plus(f[First(W)], Part(W)[W \ {First(W)}])
      <4> HIDE DEF Part
      <4> QED BY <2>1, <2>3, SumsEquation
    <3> DEFINE V == W \ {First(W)}
    <3>2. Sums(V, f, Part(V)) /\ V \subseteq W /\ IsFiniteSet(V)
      BY <1>2, <1>3, <3>1, FS_Subset
    <3>3. Part(W)[V] = Part(V)[V]
      <4> HIDE DEF Part, V
      <4>1. \A X \in SUBSET V : Part(W)[X] = Part(V)[X]
        BY <2>1, <3>2, SumsUnique
      <4> QED BY <4>1
    <3> HIDE DEF Part
    <3> QED BY <2>3, <3>1, <3>3
  <2> QED BY <2>2, <2>3
<1>4. \A W \in SUBSET T : W # {} => First(W) \in W
  BY DEF First
<1>5. ASSUME NEW W \in SUBSET T, W # {} PROVE g[W] = Plus(f[First(W)], g[W \ {First(W)}])
  <2>1. W \ {First(W)} \in SUBSET T /\ W \ {First(W)} # T
    BY <1>4, <1>5
  <2>2. g[W \ {First(W)}] = At(W \ {First(W)})
    <3> HIDE DEF g, At
    <3> QED BY <1>3, <2>1
  <2>3. g[W] = Plus(f[First(W)], At(W \ {First(W)}))
    <3> HIDE DEF At
    <3> QED BY <1>5
  <2> HIDE DEF g, At
  <2> QED BY <2>2, <2>3
<1>6. Sums(T, f, g)
  <2>1. g[{}] = NoAmount
    OBVIOUS
  <2>2. g = [W \in SUBSET T |-> g[W]]
    OBVIOUS
  <2> HIDE DEF g
  <2>3. \A W \in SUBSET T : g[W] = IF W = {} THEN NoAmount ELSE Plus(f[First(W)], g[W \ {First(W)}])
    BY <1>5, <2>1
  <2> QED BY <2>2, <2>3 DEF Sums, First
<1> QED BY <1>6


\* Amounts can be added.
LEMMA PlusLaws == NoAmount \in Amount /\ \A a, b \in Amount : Plus(a, b) \in Amount
  BY DEF NoAmount, Amount, Plus

\* The order in which amounts are added does not matter.
LEMMA PlusSwaps ==
    ASSUME NEW a \in Amount, NEW b \in Amount, NEW e \in Amount
    PROVE  Plus(a, Plus(b, e)) = Plus(b, Plus(a, e))
  BY DEF Amount, Plus

\* Sums of amounts are amounts.
LEMMA SumsTyped ==
    ASSUME NEW S, IsFiniteSet(S), NEW f, NEW g, Sums(S, f, g),
           \A x \in S : f[x] \in Amount
    PROVE  \A T \in SUBSET S : g[T] \in Amount
<1> DEFINE Bad == {T \in SUBSET S : g[T] \notin Amount}
<1> SUFFICES ASSUME Bad # {} PROVE FALSE
  OBVIOUS
<1>1. PICK T \in Bad : \A W \in Bad : ~(W \subseteq T /\ W # T)
  <2> HIDE DEF Bad
  <2>1. Bad \in SUBSET (SUBSET S)
    BY DEF Bad
  <2> QED BY <2>1, LeastBadSet
<1>2. T \in SUBSET S /\ g[T] \notin Amount
  OBVIOUS
<1> HIDE DEF Bad
<1>3. T # {}
  BY <1>2, SumsEquation, PlusLaws
<1>4. First(T) \in T /\ g[T] = Plus(f[First(T)], g[T \ {First(T)}])
  BY <1>2, <1>3, SumsEquation
<1>5. g[T \ {First(T)}] \in Amount /\ f[First(T)] \in Amount
  BY <1>1, <1>2, <1>4 DEF Bad
<1>6. Plus(f[First(T)], g[T \ {First(T)}]) \in Amount
  BY <1>5, PlusLaws
<1> QED BY <1>2, <1>4, <1>6

\* Any element may be taken first.
LEMMA SumsAnyOrder ==
    ASSUME NEW S, IsFiniteSet(S), NEW f, NEW g, Sums(S, f, g),
           \A x \in S : f[x] \in Amount
    PROVE  \A T \in SUBSET S : \A x \in T : g[T] = Plus(f[x], g[T \ {x}])
<1> DEFINE Bad == {T \in SUBSET S : \E x \in T : g[T] # Plus(f[x], g[T \ {x}])}
<1> SUFFICES ASSUME Bad # {} PROVE FALSE
  OBVIOUS
<1>1. PICK T \in Bad : \A W \in Bad : ~(W \subseteq T /\ W # T)
  <2> HIDE DEF Bad
  <2>1. Bad \in SUBSET (SUBSET S)
    BY DEF Bad
  <2> QED BY <2>1, LeastBadSet
<1>2. PICK x \in T : g[T] # Plus(f[x], g[T \ {x}])
  OBVIOUS
<1>3. T \in SUBSET S
  OBVIOUS
<1>4. PICK y \in T : g[T] = Plus(f[y], g[T \ {y}])
  <2> HIDE DEF Bad
  <2>1. T # {}
    BY <1>2
  <2>2. First(T) \in T /\ g[T] = Plus(f[First(T)], g[T \ {First(T)}])
    BY <1>3, <2>1, SumsEquation
  <2> QED BY <2>2
<1>5. x # y
  BY <1>2, <1>4
<1> DEFINE Rest == T \ {x, y}
<1>6. T \ {x} \notin Bad /\ T \ {y} \notin Bad
  BY <1>1
<1>7. (T \ {x}) \ {y} = Rest /\ (T \ {y}) \ {x} = Rest
  OBVIOUS
<1>8. /\ g[T \ {y}] = Plus(f[x], g[(T \ {y}) \ {x}])
      /\ g[T \ {x}] = Plus(f[y], g[(T \ {x}) \ {y}])
  BY <1>3, <1>5, <1>6
<1>9. g[Rest] \in Amount /\ f[x] \in Amount /\ f[y] \in Amount
  BY <1>3, SumsTyped
<1>10. Plus(f[x], g[T \ {x}]) = Plus(f[x], Plus(f[y], g[Rest]))
       /\ g[T] = Plus(f[y], Plus(f[x], g[Rest]))
  BY <1>4, <1>7, <1>8
<1>11. g[T] # Plus(f[x], g[T \ {x}])
  BY <1>2
<1> HIDE DEF Bad, Rest
<1>12. Plus(f[x], Plus(f[y], g[Rest])) = Plus(f[y], Plus(f[x], g[Rest]))
  BY <1>9, PlusSwaps
<1> QED BY <1>10, <1>11, <1>12

\* The sum over a part is what the whole's function gives that part.
LEMMA SumOfIs ==
    ASSUME NEW S, IsFiniteSet(S), NEW f, NEW g, Sums(S, f, g), NEW T \in SUBSET S
    PROVE  SumOf(T, f) = g[T]
<1>1. IsFiniteSet(T) /\ \E k : Sums(T, f, k)
  BY FS_Subset, SumsExist
<1>2. Sums(T, f, CHOOSE k : Sums(T, f, k))
  BY <1>1
<1>3. SumOf(T, f) = (CHOOSE k : Sums(T, f, k))[T]
  BY SumUnfolds
<1> DEFINE k == CHOOSE k : Sums(T, f, k)
<1>4. \A W \in SUBSET T : g[W] = k[W]
  <2> HIDE DEF k
  <2>1. Sums(T, f, k)
    BY <1>2 DEF k
  <2> QED BY <1>1, <2>1, SumsUnique
<1> QED BY <1>3, <1>4

\* Nothing adds up to nothing.
LEMMA SumOfEmpty == ASSUME NEW f PROVE SumOf({}, f) = NoAmount
<1>1. PICK g : Sums({}, f, g)
  BY FS_EmptySet, SumsExist
<1> QED BY <1>1, FS_EmptySet, SumOfIs, SumsEquation

\* A sum of amounts is an amount.
LEMMA SumOfTyped ==
    ASSUME NEW S, IsFiniteSet(S), NEW f, \A y \in S : f[y] \in Amount
    PROVE  SumOf(S, f) \in Amount
<1>1. PICK g : Sums(S, f, g)
  BY SumsExist
<1>2. SumOf(S, f) = g[S]
  BY <1>1, SumOfIs
<1> QED BY <1>1, <1>2, SumsTyped

\* A sum is one element's amount and the sum of the others.
LEMMA SumOfAdds ==
    ASSUME NEW S, IsFiniteSet(S), NEW f, \A y \in S : f[y] \in Amount, NEW x \in S
    PROVE  /\ SumOf(S \ {x}, f) \in Amount
           /\ SumOf(S, f) = Plus(f[x], SumOf(S \ {x}, f))
<1>1. PICK g : Sums(S, f, g)
  BY SumsExist
<1>2. SumOf(S, f) = g[S] /\ SumOf(S \ {x}, f) = g[S \ {x}]
  BY <1>1, SumOfIs
<1> QED BY <1>1, <1>2, SumsTyped, SumsAnyOrder

\* Equal amounts have equal sums.
LEMMA SumOfAgrees ==
    ASSUME NEW S, IsFiniteSet(S), NEW f, NEW h, \A x \in S : f[x] = h[x]
    PROVE  SumOf(S, f) = SumOf(S, h)
<1>1. PICK g : Sums(S, f, g)
  BY SumsExist
<1>2. PICK k : Sums(S, h, k)
  BY SumsExist
<1> QED BY <1>1, <1>2, SumOfIs, SumsUnique

-----------------------------------------------------------------------------
(* What the reservation rows of a set of calls add up to, and how one row's  *)
(* change of status moves it.                                                *)

Rows(S, status, asked, spent) ==
    [reserved |-> SumOf({c \in S : status[c] = "RESERVED"}, asked),
     consumed |-> SumOf({c \in S : status[c] = "RECONCILED"}, spent)]
Asked == [c \in Calls |-> AmountOf(c)]

\* Booked is the sum of the current rows.
LEMMA BookedIsRows ==
    ASSUME NEW S
    PROVE  Booked(S) = Rows(S, reservation, Asked, used)
  BY DEF Booked, Rows, Asked

\* A change of anything but a row's status or its amount moves no sum.
LEMMA RowsAgree ==
    ASSUME NEW S, IsFiniteSet(S), NEW s, NEW t, NEW a, NEW b, NEW u, NEW v,
           \A c \in S : /\ s[c] = t[c]
                        /\ s[c] = "RESERVED" => a[c] = b[c]
                        /\ s[c] = "RECONCILED" => u[c] = v[c]
    PROVE  Rows(S, s, a, u) = Rows(S, t, b, v)
<1> DEFINE Held == {c \in S : s[c] = "RESERVED"}
           Done == {c \in S : s[c] = "RECONCILED"}
<1>1. Held = {c \in S : t[c] = "RESERVED"} /\ Done = {c \in S : t[c] = "RECONCILED"}
  OBVIOUS
<1>2. IsFiniteSet(Held) /\ IsFiniteSet(Done)
  BY FS_Subset
<1>3. (\A c \in Held : a[c] = b[c]) /\ (\A c \in Done : u[c] = v[c])
  OBVIOUS
<1>4. Rows(S, s, a, u) = [reserved |-> SumOf(Held, a), consumed |-> SumOf(Done, u)]
      /\ Rows(S, t, b, v) = [reserved |-> SumOf(Held, b), consumed |-> SumOf(Done, v)]
  BY <1>1 DEF Rows
<1> HIDE DEF Held, Done
<1>5. SumOf(Held, a) = SumOf(Held, b) /\ SumOf(Done, u) = SumOf(Done, v)
  BY <1>2, <1>3, SumOfAgrees
<1> QED BY <1>4, <1>5

\* A new reservation row moves the sum as Reserve moves a ledger.
LEMMA RowReserved ==
    ASSUME NEW S, IsFiniteSet(S), NEW s, NEW t, NEW a, NEW u, NEW x \in S,
           \A c \in S : a[c] \in Amount, s[x] = "none", t[x] = "RESERVED",
           \A c \in S \ {x} : s[c] = t[c]
    PROVE  Rows(S, t, a, u) = AddReserved(Rows(S, s, a, u), a[x])
<1> DEFINE Held == {c \in S : t[c] = "RESERVED"}
           Done == {c \in S : t[c] = "RECONCILED"}
<1>1. {c \in S : s[c] = "RESERVED"} = Held \ {x} /\ {c \in S : s[c] = "RECONCILED"} = Done
  OBVIOUS
<1>2. IsFiniteSet(Held) /\ x \in Held /\ \A c \in Held : a[c] \in Amount
  BY FS_Subset
<1>3. /\ Rows(S, t, a, u) = [reserved |-> SumOf(Held, a), consumed |-> SumOf(Done, u)]
      /\ Rows(S, s, a, u) = [reserved |-> SumOf(Held \ {x}, a), consumed |-> SumOf(Done, u)]
  BY <1>1 DEF Rows
<1> HIDE DEF Held, Done
<1>4. SumOf(Held, a) = Plus(a[x], SumOf(Held \ {x}, a)) /\ SumOf(Held \ {x}, a) \in Amount
  BY <1>2, SumOfAdds
<1>5. ASSUME NEW r \in Amount, NEW p \in Amount PROVE Plus(p, r) = Plus(r, p)
  BY DEF Plus, Amount
<1>6. SumOf(Held, a) = Plus(SumOf(Held \ {x}, a), a[x])
  BY <1>2, <1>4, <1>5
<1> QED BY <1>3, <1>6 DEF AddReserved

\* A reconciled row moves the sum as Reconcile moves a ledger.
LEMMA RowReconciled ==
    ASSUME NEW S, IsFiniteSet(S), NEW s, NEW t, NEW a, NEW u, NEW x \in S,
           \A c \in S : a[c] \in Amount /\ u[c] \in Amount,
           s[x] = "RESERVED", t[x] = "RECONCILED",
           \A c \in S \ {x} : s[c] = t[c]
    PROVE  Rows(S, t, a, u) = Convert(Rows(S, s, a, u), a[x], u[x])
<1> DEFINE Held == {c \in S : s[c] = "RESERVED"}
           Done == {c \in S : t[c] = "RECONCILED"}
<1>1. {c \in S : t[c] = "RESERVED"} = Held \ {x}
      /\ {c \in S : s[c] = "RECONCILED"} = Done \ {x}
  OBVIOUS
<1>2. /\ IsFiniteSet(Held) /\ x \in Held /\ \A c \in Held : a[c] \in Amount
      /\ IsFiniteSet(Done) /\ x \in Done /\ \A c \in Done : u[c] \in Amount
  BY FS_Subset
<1>3. /\ Rows(S, t, a, u) = [reserved |-> SumOf(Held \ {x}, a), consumed |-> SumOf(Done, u)]
      /\ Rows(S, s, a, u) = [reserved |-> SumOf(Held, a), consumed |-> SumOf(Done \ {x}, u)]
  BY <1>1 DEF Rows
<1> HIDE DEF Held, Done
<1>4. /\ SumOf(Held, a) = Plus(a[x], SumOf(Held \ {x}, a)) /\ SumOf(Held \ {x}, a) \in Amount
      /\ SumOf(Done, u) = Plus(u[x], SumOf(Done \ {x}, u)) /\ SumOf(Done \ {x}, u) \in Amount
  BY <1>2, SumOfAdds
<1>5. ASSUME NEW r \in Amount, NEW p \in Amount
      PROVE  Minus(Plus(p, r), p) = r /\ Plus(p, r) = Plus(r, p)
  BY DEF Plus, Minus, Amount
<1>6. /\ Minus(SumOf(Held, a), a[x]) = SumOf(Held \ {x}, a)
      /\ SumOf(Done, u) = Plus(SumOf(Done \ {x}, u), u[x])
  BY <1>2, <1>4, <1>5
<1> QED BY <1>3, <1>6 DEF Convert


-----------------------------------------------------------------------------
\* The reservation row of a call follows its place: a call reserves once and
\* reconciles once, and neither its amount nor its usage changes after that.
StatusKnown ==
    \A c \in Calls :
        /\ pc[c] \in Reserving \cup {"idle"} => reservation[c] = "none"
        /\ pc[c] \in Settling \cup {"reserved", "sent"} => reservation[c] = "RESERVED"

\* Every step keeps the rows in line with the places.
LEMMA StatusInductive == TypeOK /\ StatusKnown /\ [Next]_vars => StatusKnown'
<1> SUFFICES ASSUME TypeOK, StatusKnown, [Next]_vars PROVE StatusKnown'
  OBVIOUS
<1> USE DEF StatusKnown, Goto, ledgers
<1>a. pc \in [Calls -> Places]
      /\ reservation \in [Calls -> {"none", "RESERVED", "RECONCILED"}]
  BY DEF TypeOK
<1>1. ASSUME NEW p \in Policies, SavePolicy(p) PROVE StatusKnown'
  BY <1>1 DEF SavePolicy
<1>2. ASSUME NEW c \in Calls, NEW a \in WorstCases, ReadPolicy(c, a) PROVE StatusKnown'
  BY <1>2, <1>a DEF ReadPolicy, Settling, Reserving
<1>3. ASSUME NEW c \in Calls, NEW u \in Usages, Answer(c, u) PROVE StatusKnown'
  BY <1>3, <1>a DEF Answer, Settling, Reserving
<1>4. ASSUME NEW c \in Calls, Reserve(c) \/ Reconcile(c) PROVE StatusKnown'
  BY <1>4, <1>a DEF Reserve, Reconcile, SetStatus, Settling, Reserving
<1>5. ASSUME NEW c \in Calls,
             \/ RefuseUnpriced(c) \/ Abandon(c)
             \/ Proceed(c) /\ ~Reserve(c) /\ ~Reconcile(c)
      PROVE  StatusKnown'
  <2>1. reservation' = reservation
    BY <1>5 DEF RefuseUnpriced, Abandon, Proceed, LockDay, LockDaily, LoadDaily,
                SelectTask, MissTask, InsertTask, InsertTaskConflicts,
                RefuseOverBudget, Send, SettleDaily, SettleTask, LoadTask
  <2>2. /\ \A e \in Calls \ {c} : pc'[e] = pc[e]
        /\ pc'[c] \in Reserving \cup {"idle"} => pc[c] \in Reserving \cup {"idle"}
        /\ pc'[c] \in Settling \cup {"reserved", "sent"} =>
               pc[c] \in Settling \cup {"reserved", "sent"}
    BY <1>5, <1>a DEF RefuseUnpriced, Abandon, Proceed, LockDay, LockDaily, LoadDaily,
                SelectTask, MissTask, InsertTask, InsertTaskConflicts,
                RefuseOverBudget, Send, SettleDaily, SettleTask, LoadTask,
                Reserving, Settling
  <2> QED BY <2>1, <2>2
<1>6. CASE UNCHANGED vars
  BY <1>6 DEF vars
<1> QED BY <1>1, <1>2, <1>3, <1>4, <1>5, <1>6 DEF Next, AllEnded, Proceed

\* What the two ledgers of a call hold when the rows behind them are added up.
BalanceOf(S, ledger) == ledger = Rows(S, reservation, Asked, used)
CallsOfDay(d) == {c \in Calls : DayOf(c) = d}
CallsOfTask(t) == {c \in Calls : TaskOf(c) = t}

\* The balance, as a statement on each ledger.
LEMMA BalanceIsRows ==
    LedgersBalance <=>
        /\ \A d \in Days : BalanceOf(CallsOfDay(d), daily[d])
        /\ \A t \in Tasks : BalanceOf(CallsOfTask(t), task[t])
  BY BookedIsRows DEF LedgersBalance, BalanceOf, CallsOfDay, CallsOfTask

\* Every step that writes a ledger writes the row that explains it, in one
\* transaction on values no other transaction has changed since.
LEMMA BalanceInductive ==
    TypeOK /\ LoadedIsCurrent /\ StatusKnown /\ LedgersBalance /\ [Next]_vars
        => LedgersBalance'
<1> SUFFICES ASSUME TypeOK, LoadedIsCurrent, StatusKnown, LedgersBalance, [Next]_vars
             PROVE  LedgersBalance'
  OBVIOUS
<1>a. /\ daily \in [Days -> Ledger] /\ task \in [Tasks -> Ledger]
      /\ pc \in [Calls -> Places] /\ asks \in [Calls -> Ask]
      /\ reservation \in [Calls -> {"none", "RESERVED", "RECONCILED"}]
      /\ used \in [Calls -> Amount]
      /\ \A c \in Calls : /\ DayOf(c) \in Days /\ TaskOf(c) \in Tasks
                          /\ Asked[c] = AmountOf(c)
                          /\ Asked[c] \in Amount /\ used[c] \in Amount
                          /\ Asked'[c] = AmountOf(c)'
      /\ IsFiniteSet(Calls)
  BY DEF TypeOK, Ask, DayOf, TaskOf, AmountOf, Asked
<1>b. /\ \A d \in Days : BalanceOf(CallsOfDay(d), daily[d])
      /\ \A t \in Tasks : BalanceOf(CallsOfTask(t), task[t])
  BY BalanceIsRows
<1>c. ASSUME \A d \in Days : BalanceOf(CallsOfDay(d), daily[d])',
             \A t \in Tasks : BalanceOf(CallsOfTask(t), task[t])'
      PROVE  LedgersBalance'
  BY <1>c DEF LedgersBalance, Booked, BalanceOf, Rows, Asked, CallsOfDay, CallsOfTask
<1>d. (\A d \in Days : IsFiniteSet(CallsOfDay(d)))
      /\ (\A t \in Tasks : IsFiniteSet(CallsOfTask(t)))
  BY <1>a, FS_Subset DEF CallsOfDay, CallsOfTask
<1>e. ASSUME UNCHANGED <<daily, task>>,
             \A c \in Calls :
                /\ DayOf(c)' = DayOf(c) /\ TaskOf(c)' = TaskOf(c)
                /\ reservation'[c] = reservation[c]
                /\ reservation[c] = "RESERVED" => AmountOf(c)' = AmountOf(c)
                /\ reservation[c] = "RECONCILED" => used'[c] = used[c]
      PROVE  LedgersBalance'
  <2>1. /\ \A d \in Days : CallsOfDay(d)' = CallsOfDay(d)
        /\ \A t \in Tasks : CallsOfTask(t)' = CallsOfTask(t)
    BY <1>e DEF CallsOfDay, CallsOfTask
  <2>2. ASSUME NEW S \in SUBSET Calls
        PROVE  Rows(S, reservation, Asked, used) = Rows(S, reservation', Asked', used')
    <3>1. IsFiniteSet(S)
      BY <1>a, FS_Subset
    <3>2. \A c \in S : /\ reservation[c] = reservation'[c]
                       /\ reservation[c] = "RESERVED" => Asked[c] = Asked'[c]
                       /\ reservation[c] = "RECONCILED" => used[c] = used'[c]
      BY <1>a, <1>e
    <3> QED BY <3>1, <3>2, RowsAgree
  <2>3. ASSUME NEW d \in Days PROVE BalanceOf(CallsOfDay(d), daily[d])'
    <3>1. CallsOfDay(d) \in SUBSET Calls
      BY DEF CallsOfDay
    <3> QED BY <1>b, <1>e, <2>1, <2>2, <3>1 DEF BalanceOf
  <2>4. ASSUME NEW t \in Tasks PROVE BalanceOf(CallsOfTask(t), task[t])'
    <3>1. CallsOfTask(t) \in SUBSET Calls
      BY DEF CallsOfTask
    <3> QED BY <1>b, <1>e, <2>1, <2>2, <3>1 DEF BalanceOf
  <2> QED BY <1>c, <2>3, <2>4
<1>f. ASSUME NEW c \in Calls, UNCHANGED <<asks, used>>,
             \A e \in Calls \ {c} : reservation'[e] = reservation[e],
             NEW S \in SUBSET Calls, c \notin S
      PROVE  Rows(S, reservation', Asked', used') = Rows(S, reservation, Asked, used)
  <2>1. IsFiniteSet(S)
    BY <1>a, FS_Subset
  <2>2. Asked' = Asked
    BY <1>f DEF Asked, AmountOf
  <2>3. \A e \in S : reservation'[e] = reservation[e]
    BY <1>f
  <2> QED BY <1>f, <2>1, <2>2, <2>3, RowsAgree
<1>1. ASSUME NEW c \in Calls, Reserve(c) PROVE LedgersBalance'
  <2>1. /\ UNCHANGED <<asks, used>>
        /\ \A e \in Calls \ {c} : reservation'[e] = reservation[e]
        /\ reservation[c] = "none" /\ reservation'[c] = "RESERVED"
        /\ daily'[DayOf(c)] = AddReserved(daily[DayOf(c)], Asked[c])
        /\ task'[TaskOf(c)] = AddReserved(task[TaskOf(c)], Asked[c])
        /\ \A d \in Days \ {DayOf(c)} : daily'[d] = daily[d]
        /\ \A t \in Tasks \ {TaskOf(c)} : task'[t] = task[t]
    <3>1. loaded[c].daily = daily[DayOf(c)] /\ loaded[c].task = task[TaskOf(c)]
      BY <1>1 DEF Reserve, LoadedIsCurrent, HoldsDaily, HoldsTask
    <3>2. reservation[c] = "none"
      BY <1>1 DEF Reserve, StatusKnown, Reserving
    <3> QED BY <1>1, <1>a, <3>1, <3>2 DEF Reserve, SetStatus
  <2>2. ASSUME NEW S \in SUBSET Calls, c \in S
        PROVE  Rows(S, reservation', Asked', used') =
                   AddReserved(Rows(S, reservation, Asked, used), Asked[c])
    <3>1. IsFiniteSet(S) /\ Asked' = Asked /\ \A e \in S : Asked[e] \in Amount
      BY <1>a, <2>1, FS_Subset DEF Asked, AmountOf
    <3>2. \A e \in S \ {c} : reservation[e] = reservation'[e]
      BY <2>1
    <3>3. Rows(S, reservation', Asked, used) =
              AddReserved(Rows(S, reservation, Asked, used), Asked[c])
      BY <2>1, <2>2, <3>1, <3>2, RowReserved
    <3> QED BY <2>1, <3>1, <3>3
  <2>3. ASSUME NEW d \in Days PROVE BalanceOf(CallsOfDay(d), daily[d])'
    <3>1. CallsOfDay(d) \in SUBSET Calls /\ CallsOfDay(d)' = CallsOfDay(d)
          /\ (c \in CallsOfDay(d) <=> d = DayOf(c))
      BY <2>1 DEF CallsOfDay, DayOf
    <3>2. Rows(CallsOfDay(d), reservation, Asked, used) = daily[d]
      BY <1>b DEF BalanceOf
    <3>3. Rows(CallsOfDay(d), reservation', Asked', used') = daily'[d]
      BY <2>1, <2>2, <3>1, <3>2, <1>f
    <3> QED BY <3>1, <3>3 DEF BalanceOf
  <2>4. ASSUME NEW t \in Tasks PROVE BalanceOf(CallsOfTask(t), task[t])'
    <3>1. CallsOfTask(t) \in SUBSET Calls /\ CallsOfTask(t)' = CallsOfTask(t)
          /\ (c \in CallsOfTask(t) <=> t = TaskOf(c))
      BY <2>1 DEF CallsOfTask, TaskOf
    <3>2. Rows(CallsOfTask(t), reservation, Asked, used) = task[t]
      BY <1>b DEF BalanceOf
    <3>3. Rows(CallsOfTask(t), reservation', Asked', used') = task'[t]
      BY <2>1, <2>2, <3>1, <3>2, <1>f
    <3> QED BY <3>1, <3>3 DEF BalanceOf
  <2> QED BY <1>c, <2>3, <2>4
<1>2. ASSUME NEW c \in Calls, Reconcile(c) PROVE LedgersBalance'
  <2>1. /\ UNCHANGED <<asks, used>>
        /\ \A e \in Calls \ {c} : reservation'[e] = reservation[e]
        /\ reservation[c] = "RESERVED" /\ reservation'[c] = "RECONCILED"
        /\ daily'[DayOf(c)] = Convert(daily[DayOf(c)], Asked[c], used[c])
        /\ task'[TaskOf(c)] = Convert(task[TaskOf(c)], Asked[c], used[c])
        /\ \A d \in Days \ {DayOf(c)} : daily'[d] = daily[d]
        /\ \A t \in Tasks \ {TaskOf(c)} : task'[t] = task[t]
    <3>1. loaded[c].daily = daily[DayOf(c)] /\ loaded[c].task = task[TaskOf(c)]
      BY <1>2 DEF Reconcile, LoadedIsCurrent, HoldsDaily, HoldsTask
    <3> QED BY <1>2, <1>a, <3>1 DEF Reconcile, SetStatus
  <2>2. ASSUME NEW S \in SUBSET Calls, c \in S
        PROVE  Rows(S, reservation', Asked', used') =
                   Convert(Rows(S, reservation, Asked, used), Asked[c], used[c])
    <3>1. IsFiniteSet(S) /\ Asked' = Asked
      BY <1>a, <2>1, FS_Subset DEF Asked, AmountOf
    <3>4. \A e \in S : Asked[e] \in Amount /\ used[e] \in Amount
      BY <1>a
    <3>2. \A e \in S \ {c} : reservation[e] = reservation'[e]
      BY <2>1
    <3>5. c \in S /\ reservation[c] = "RESERVED" /\ reservation'[c] = "RECONCILED"
      BY <2>1, <2>2
    <3>3. Rows(S, reservation', Asked, used) =
              Convert(Rows(S, reservation, Asked, used), Asked[c], used[c])
      BY <3>1, <3>2, <3>4, <3>5, RowReconciled
    <3> QED BY <2>1, <3>1, <3>3
  <2>3. ASSUME NEW d \in Days PROVE BalanceOf(CallsOfDay(d), daily[d])'
    <3>1. CallsOfDay(d) \in SUBSET Calls /\ CallsOfDay(d)' = CallsOfDay(d)
          /\ (c \in CallsOfDay(d) <=> d = DayOf(c))
      BY <2>1 DEF CallsOfDay, DayOf
    <3>2. Rows(CallsOfDay(d), reservation, Asked, used) = daily[d]
      BY <1>b DEF BalanceOf
    <3>3. Rows(CallsOfDay(d), reservation', Asked', used') = daily'[d]
      BY <2>1, <2>2, <3>1, <3>2, <1>f
    <3> QED BY <3>1, <3>3 DEF BalanceOf
  <2>4. ASSUME NEW t \in Tasks PROVE BalanceOf(CallsOfTask(t), task[t])'
    <3>1. CallsOfTask(t) \in SUBSET Calls /\ CallsOfTask(t)' = CallsOfTask(t)
          /\ (c \in CallsOfTask(t) <=> t = TaskOf(c))
      BY <2>1 DEF CallsOfTask, TaskOf
    <3>2. Rows(CallsOfTask(t), reservation, Asked, used) = task[t]
      BY <1>b DEF BalanceOf
    <3>3. Rows(CallsOfTask(t), reservation', Asked', used') = task'[t]
      BY <2>1, <2>2, <3>1, <3>2, <1>f
    <3> QED BY <3>1, <3>3 DEF BalanceOf
  <2> QED BY <1>c, <2>3, <2>4
<1>3. ASSUME NEW p \in Policies, SavePolicy(p) PROVE LedgersBalance'
  BY <1>3, <1>e DEF SavePolicy, ledgers, DayOf, TaskOf, AmountOf
<1>4. ASSUME NEW c \in Calls, NEW a \in WorstCases, ReadPolicy(c, a)
      PROVE  LedgersBalance'
  <2>1. \A e \in Calls : asks'[e].day = asks[e].day /\ asks'[e].task = asks[e].task
    BY <1>4, <1>a DEF ReadPolicy, Ask
  <2>2. reservation[c] = "none" /\ \A e \in Calls \ {c} : asks'[e] = asks[e]
    BY <1>4, <1>a DEF ReadPolicy, StatusKnown
  <2>3. UNCHANGED <<daily, task, reservation, used>>
    BY <1>4 DEF ReadPolicy, ledgers
  <2> QED BY <1>e, <2>1, <2>2, <2>3 DEF DayOf, TaskOf, AmountOf
<1>5. ASSUME NEW c \in Calls, NEW u \in Usages, Answer(c, u) PROVE LedgersBalance'
  <2>1. reservation[c] = "RESERVED" /\ \A e \in Calls \ {c} : used'[e] = used[e]
    BY <1>5, <1>a DEF Answer, StatusKnown
  <2>2. UNCHANGED <<daily, task, reservation, asks>>
    BY <1>5 DEF Answer, ledgers
  <2> QED BY <1>e, <2>1, <2>2 DEF DayOf, TaskOf, AmountOf
<1>6. ASSUME NEW c \in Calls,
             \/ RefuseUnpriced(c) \/ Abandon(c)
             \/ Proceed(c) /\ ~Reserve(c) /\ ~Reconcile(c)
      PROVE  LedgersBalance'
  <2>1. UNCHANGED <<daily, task, reservation, asks, used>>
    BY <1>6 DEF RefuseUnpriced, Abandon, Proceed, LockDay, LockDaily, LoadDaily,
                SelectTask, MissTask, InsertTask, InsertTaskConflicts,
                RefuseOverBudget, Send, SettleDaily, SettleTask, LoadTask, ledgers
  <2> QED BY <1>e, <2>1 DEF DayOf, TaskOf, AmountOf
<1>7. CASE UNCHANGED vars
  BY <1>7, <1>e DEF vars, ledgers, DayOf, TaskOf, AmountOf
<1> QED BY <1>1, <1>2, <1>3, <1>4, <1>5, <1>6, <1>7 DEF Next, AllEnded, Proceed

\* Both ledgers are the sums of the rows behind them in every reachable state, for
\* any number of calls: no capacity is lost, none is counted twice.
THEOREM LedgersAlwaysBalance == Spec => []LedgersBalance
<1>1. Init => StatusKnown
  BY DEF Init, StatusKnown, Settling
<1>2. Init => LedgersBalance
  <2> SUFFICES ASSUME Init PROVE LedgersBalance
    OBVIOUS
  <2>1. ASSUME NEW S \in SUBSET Calls PROVE Rows(S, reservation, Asked, used) = EmptyLedger
    <3>1. {c \in S : reservation[c] = "RESERVED"} = {}
          /\ {c \in S : reservation[c] = "RECONCILED"} = {}
      BY DEF Init
    <3> QED BY <3>1, SumOfEmpty DEF Rows, EmptyLedger
  <2>2. (\A d \in Days : CallsOfDay(d) \in SUBSET Calls /\ daily[d] = EmptyLedger)
        /\ (\A t \in Tasks : CallsOfTask(t) \in SUBSET Calls /\ task[t] = EmptyLedger)
    BY DEF Init, CallsOfDay, CallsOfTask
  <2> QED BY <2>1, <2>2, BalanceIsRows DEF BalanceOf
<1> QED BY <1>1, <1>2, StatusInductive, BalanceInductive, BudgetTypeCorrect,
           LoadedCurrent, PTL DEF Spec

\* No ledger ever goes below zero: what a reconciliation takes back was there.
THEOREM LedgersNeverNegative ==
    Spec => [](/\ \A d \in Days : daily[d] \in [reserved : Amount, consumed : Amount]
               /\ \A t \in Tasks : task[t] \in [reserved : Amount, consumed : Amount])
<1>1. TypeOK /\ LedgersBalance =>
        /\ \A d \in Days : daily[d] \in [reserved : Amount, consumed : Amount]
        /\ \A t \in Tasks : task[t] \in [reserved : Amount, consumed : Amount]
  <2> SUFFICES ASSUME TypeOK, LedgersBalance
               PROVE  /\ \A d \in Days :
                            daily[d] \in [reserved : Amount, consumed : Amount]
                      /\ \A t \in Tasks :
                            task[t] \in [reserved : Amount, consumed : Amount]
    OBVIOUS
  <2>1. ASSUME NEW S \in SUBSET Calls
        PROVE  Rows(S, reservation, Asked, used) \in [reserved : Amount, consumed : Amount]
    <3> DEFINE Held == {c \in S : reservation[c] = "RESERVED"}
               Done == {c \in S : reservation[c] = "RECONCILED"}
    <3>1. /\ IsFiniteSet(Held) /\ IsFiniteSet(Done)
          /\ \A c \in Held : Asked[c] \in Amount
          /\ \A c \in Done : used[c] \in Amount
      <4>1. IsFiniteSet(S)
        BY FS_Subset
      <4> QED BY <4>1, FS_Subset DEF TypeOK, Asked, AmountOf
    <3>2. Rows(S, reservation, Asked, used) =
              [reserved |-> SumOf(Held, Asked), consumed |-> SumOf(Done, used)]
      BY DEF Rows
    <3> HIDE DEF Held, Done
    <3>3. SumOf(Held, Asked) \in Amount /\ SumOf(Done, used) \in Amount
      BY <3>1, SumOfTyped
    <3> QED BY <3>2, <3>3
  <2>2. (\A d \in Days : CallsOfDay(d) \in SUBSET Calls)
        /\ (\A t \in Tasks : CallsOfTask(t) \in SUBSET Calls)
    BY DEF CallsOfDay, CallsOfTask
  <2> QED BY <2>1, <2>2, BalanceIsRows DEF BalanceOf
<1> QED BY <1>1, BudgetTypeCorrect, LedgersAlwaysBalance, PTL

=============================================================================
