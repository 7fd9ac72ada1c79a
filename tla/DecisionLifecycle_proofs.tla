---------------------- MODULE DecisionLifecycle_proofs ----------------------
(***************************************************************************)
(* What DecisionLifecycle keeps for every set of records, receipts and     *)
(* actions and every horizon of business time, and what the rules and      *)
(* machines of DecisionGovernance keep for every portfolio, set of weights *)
(* and set of lot sizes.                                                   *)
(***************************************************************************)
EXTENDS DecisionGovernance, WellFoundedInduction, FiniteSetTheorems, TLAPS

-----------------------------------------------------------------------------
\* Every reachable state is well typed.
THEOREM DecisionTypeCorrect == Spec => []TypeOK
<1>1. Init => TypeOK
  BY MaxTimeAssumption DEF Init, TypeOK, Times, Gates, States, Transitions
<1>2. TypeOK /\ [Next]_vars => TypeOK'
  <2> SUFFICES ASSUME TypeOK, [Next]_vars PROVE TypeOK'
    OBVIOUS
  <2> USE DEF TypeOK
  <2>1. ASSUME NEW target, Transition(target) PROVE state' \in States
    BY <2>1 DEF Transition, States, Transitions
  <2>2. ASSUME NEW target, Advance(target) PROVE TypeOK'
    BY <2>1, <2>2 DEF Advance, Transition
  <2>3. ASSUME NEW e \in BOOLEAN, SubmitForApproval(e) PROVE TypeOK'
    BY <2>1, <2>3 DEF SubmitForApproval, Transition
  <2>4. ASSUME NEW id \in Ids, NEW a \in HumanActions, NEW at \in Times,
               NEW expires \in Times \cup {NoExpiry}, AppendApproval(id, a, at, expires)
        PROVE  TypeOK'
    <3>1. [id |-> id, action |-> a, at |-> at, expires |-> expires] \in ApprovalRecord
      BY DEF ApprovalRecord
    <3> QED BY <2>4, <3>1 DEF AppendApproval
  <2>5. ASSUME NEW id \in Receipts, NEW a \in approvals, NEW copiedAt \in Times,
               NEW at \in Times, AppendExecution(id, a, copiedAt, at)
        PROVE  TypeOK'
    <3>1. [id |-> id, approval |-> a.id, at |-> at] \in Receipt
      BY DEF ApprovalRecord, Receipt
    <3> QED BY <2>5, <3>1 DEF AppendExecution
  <2>6. ASSUME NEW g \in Gates, Assess(g) PROVE TypeOK'
    BY <2>6 DEF Assess
  <2>7. CASE Tick
    BY <2>7, MaxTimeAssumption DEF Tick, Times
  <2>8. CASE UNCHANGED vars
    BY <2>8 DEF vars
  <2> QED BY <2>2, <2>3, <2>4, <2>5, <2>6, <2>7, <2>8
          DEF Next, Validate, VetoByRisk, Approve, Reject, Expire, BeginExecution,
              Cancel, RecordProgress, Review
<1> QED BY <1>1, <1>2, PTL DEF Spec

-----------------------------------------------------------------------------
\* No sequence of assessments, approvals and transitions takes a Decision that
\* does not reduce risk past a veto.
THEOREM VetoHolds == Spec => []VetoIsNotOverridden
<1>1. Init => VetoIsNotOverridden
  BY DEF Init, VetoIsNotOverridden
<1>2. TypeOK /\ VetoIsNotOverridden /\ [Next]_vars => VetoIsNotOverridden'
  <2> SUFFICES ASSUME TypeOK, VetoIsNotOverridden, [Next]_vars
               PROVE  VetoIsNotOverridden'
    OBVIOUS
  <2> USE DEF VetoIsNotOverridden
  <2>1. CASE \E e \in BOOLEAN : SubmitForApproval(e)
    BY <2>1 DEF SubmitForApproval, Transition, RiskAllows, TypeOK, Gates
  <2>2. ASSUME NEW target, Advance(target), target # "PENDING_APPROVAL"
        PROVE  VetoIsNotOverridden'
    BY <2>2 DEF Advance, Transition, Transitions
  <2>3. CASE UNCHANGED <<state, passedGate, action>>
    BY <2>3
  <2> QED BY <2>1, <2>2, <2>3
          DEF Next, Validate, VetoByRisk, Approve, Reject, Expire, BeginExecution,
              Cancel, RecordProgress, Review, AppendApproval, AppendExecution, Assess,
              Tick, vars
<1> QED BY <1>1, <1>2, DecisionTypeCorrect, PTL DEF Spec

-----------------------------------------------------------------------------
\* Every receipt names an approval that stays in the journal, and is dated
\* before its expiry.
THEOREM ReceiptsHold == Spec => []ReceiptsNameAnApproval
<1>1. Init => ReceiptsNameAnApproval
  BY DEF Init, ReceiptsNameAnApproval
<1>2. ReceiptsNameAnApproval /\ [Next]_vars => ReceiptsNameAnApproval'
  <2> SUFFICES ASSUME ReceiptsNameAnApproval, [Next]_vars
               PROVE  ReceiptsNameAnApproval'
    OBVIOUS
  <2> USE DEF ReceiptsNameAnApproval
  <2>1. ASSUME NEW id \in Receipts, NEW a \in approvals, NEW copiedAt \in Times,
               NEW at \in Times, AppendExecution(id, a, copiedAt, at)
        PROVE  ReceiptsNameAnApproval'
    <3>1. a.action = "APPROVE" /\ at < a.expires
      BY <2>1 DEF AppendExecution, IsValidAt
    <3> QED BY <2>1, <3>1 DEF AppendExecution
  <2>2. CASE receipts' = receipts /\ approvals \subseteq approvals'
    BY <2>2
  <2>3. ASSUME NEW target, Transition(target)
        PROVE  receipts' = receipts /\ approvals \subseteq approvals'
    BY <2>3 DEF Transition
  <2> QED BY <2>1, <2>2, <2>3
          DEF Next, Validate, VetoByRisk, Approve, Reject, Expire, BeginExecution,
              Cancel, RecordProgress, Review, Advance, SubmitForApproval,
              AppendApproval, Assess, Tick, vars
<1> QED BY <1>1, <1>2, PTL DEF Spec

-----------------------------------------------------------------------------
\* The last record at an instant has not been ended by another one.
LEMMA LastIsNotEnded ==
    ASSUME NEW a \in ActiveAt(now)
    PROVE  a \in approvals /\ IsValidAt(a, now) /\ \A r \in approvals : ~Ends(r, a, now)
  BY DEF ActiveAt, LatestAt, VisibleAt, Precedes, Ends

\* Approval and the start of execution happen under an unexpired approval that
\* no later record has ended, in whatever order the records were appended.
THEOREM ProceedsUnderApproval == Spec => ProceedsUnderLiveApproval
<1>1. ASSUME [Next]_vars, state' # state, state' \in {"APPROVED", "EXECUTION_PENDING"}
      PROVE  ActiveAt(now) # {}
  BY <1>1 DEF Next, Validate, VetoByRisk, Approve, Reject, Expire, BeginExecution,
              Cancel, RecordProgress, Review, Advance, Transition, SubmitForApproval,
              AppendApproval, AppendExecution, Assess, Tick, vars
<1>2. [Next]_vars =>
        [state' # state /\ state' \in {"APPROVED", "EXECUTION_PENDING"} =>
            \E a \in approvals :
                /\ IsValidAt(a, now)
                /\ \A r \in approvals : ~Ends(r, a, now)]_vars
  <2> SUFFICES ASSUME [Next]_vars, state' # state,
                      state' \in {"APPROVED", "EXECUTION_PENDING"}
               PROVE  \E a \in approvals :
                        IsValidAt(a, now) /\ \A r \in approvals : ~Ends(r, a, now)
    OBVIOUS
  <2>1. PICK a : a \in ActiveAt(now)
    BY <1>1
  <2> QED BY <2>1, LastIsNotEnded
<1> QED BY <1>2, PTL DEF Spec, ProceedsUnderLiveApproval

-----------------------------------------------------------------------------
(* What the recursion of Reachable computes: the least set of states that   *)
(* holds the start and that no move leaves.                                *)

\* A set of states that the moves do not leave.
ClosedUnder(states, moves, C) ==
    \A r \in C, s \in states : <<r, s>> \in moves => s \in C

\* The states in every set that holds the given ones and that no move leaves.
Closure(states, moves, given) ==
    {s \in states : \A C \in SUBSET states :
        given \subseteq C /\ ClosedUnder(states, moves, C) => s \in C}

More(states, moves, reached) ==
    reached \cup {s \in states : \E r \in reached : <<r, s>> \in moves}

Closes(states, moves, g) ==
    g = [reached \in SUBSET states |->
            LET more == reached \cup {s \in states : \E r \in reached : <<r, s>> \in moves}
            IN IF more = reached THEN reached ELSE g[more]]

\* What the recursion computes is its function's value at the start.
LEMMA ReachableUnfolds ==
    ASSUME NEW states, NEW moves, NEW start
    PROVE  Reachable(states, moves, start) = (CHOOSE g : Closes(states, moves, g))[{start}]
  BY DEF Reachable, Closes

\* The closure is closed, and it is the least closed set.
LEMMA ClosureIs ==
    ASSUME NEW states, NEW moves, NEW given \in SUBSET states
    PROVE  /\ given \subseteq Closure(states, moves, given)
           /\ Closure(states, moves, given) \in SUBSET states
           /\ ClosedUnder(states, moves, Closure(states, moves, given))
           /\ \A C \in SUBSET states :
                given \subseteq C /\ ClosedUnder(states, moves, C) =>
                    Closure(states, moves, given) \subseteq C
  BY DEF Closure, ClosedUnder

\* One round of the recursion leaves the closure as it is.
LEMMA MoreIs ==
    ASSUME NEW states, NEW moves, NEW given \in SUBSET states
    PROVE  /\ More(states, moves, given) \in SUBSET states
           /\ given \subseteq More(states, moves, given)
           /\ More(states, moves, given) = given => Closure(states, moves, given) = given
           /\ Closure(states, moves, More(states, moves, given)) =
                  Closure(states, moves, given)
<1> DEFINE more == More(states, moves, given)
           C == Closure(states, moves, given)
           D == Closure(states, moves, more)
<1>1. more \in SUBSET states /\ given \subseteq more
  BY DEF More
<1>2. more = given => ClosedUnder(states, moves, given)
  BY DEF More, ClosedUnder
<1>3. more = given => C = given
  BY <1>2, ClosureIs
<1>4. more \subseteq C
  <2>1. given \subseteq C /\ ClosedUnder(states, moves, C) /\ C \in SUBSET states
    BY ClosureIs
  <2> QED BY <2>1 DEF More, ClosedUnder
<1>5. D \subseteq C
  <2>1. ClosedUnder(states, moves, C) /\ C \in SUBSET states
    BY ClosureIs
  <2> HIDE DEF more, C
  <2> QED BY <1>1, <1>4, <2>1, ClosureIs DEF D
<1>6. C \subseteq D
  <2>1. more \subseteq D /\ ClosedUnder(states, moves, D) /\ D \in SUBSET states
    <3> HIDE DEF more
    <3> QED BY <1>1, ClosureIs
  <2> QED BY <1>1, <2>1, ClosureIs
<1> QED BY <1>1, <1>3, <1>5, <1>6

\* Of the subsets of a finite set that are bad, one is minimal.
LEMMA LeastBadSet ==
    ASSUME NEW S, IsFiniteSet(S), NEW Bad \in SUBSET (SUBSET S), Bad # {}
    PROVE  \E T \in Bad : \A U \in Bad : ~(U \subseteq T /\ U # T)
<1>1. IsWellFoundedOn(StrictSubsetOrdering(S), FiniteSubsetsOf(S))
  BY FS_StrictSubsetOrderingWellFounded
<1>2. Bad \subseteq FiniteSubsetsOf(S)
  BY FS_Subset DEF FiniteSubsetsOf
<1>3. PICK T \in Bad : \A U \in Bad : <<U, T>> \notin StrictSubsetOrdering(S)
  BY <1>1, <1>2, WFMin
<1> QED BY <1>3 DEF StrictSubsetOrdering

\* One round of the recursion.
LEMMA ClosesEquation ==
    ASSUME NEW states, NEW moves, NEW g, Closes(states, moves, g),
           NEW given \in SUBSET states
    PROVE  g[given] = IF More(states, moves, given) = given THEN given
                      ELSE g[More(states, moves, given)]
  BY DEF Closes, More

\* The recursion has a solution: the closure.
LEMMA ClosesExist ==
    ASSUME NEW states, NEW moves
    PROVE  Closes(states, moves, [given \in SUBSET states |-> Closure(states, moves, given)])
<1> DEFINE g == [given \in SUBSET states |-> Closure(states, moves, given)]
<1>1. ASSUME NEW given \in SUBSET states
      PROVE  g[given] = IF More(states, moves, given) = given THEN given
                        ELSE g[More(states, moves, given)]
  BY MoreIs
<1>2. g = [given \in SUBSET states |-> g[given]]
  OBVIOUS
<1> HIDE DEF g
<1>3. g = [given \in SUBSET states |->
              IF More(states, moves, given) = given THEN given
              ELSE g[More(states, moves, given)]]
  BY <1>1, <1>2
<1>4. Closes(states, moves, g)
  BY <1>3 DEF Closes, More
<1> QED BY <1>4 DEF g

\* The recursion computes the closure, by induction over the states that have
\* not been reached yet.
LEMMA ReachableIsClosure ==
    ASSUME NEW states, IsFiniteSet(states), NEW moves, NEW start \in states
    PROVE  Reachable(states, moves, start) = Closure(states, moves, {start})
<1> DEFINE g == CHOOSE g : Closes(states, moves, g)
<1>1. Closes(states, moves, g)
  BY ClosesExist
<1> HIDE DEF g
<1>2. \A given \in SUBSET states : g[given] = Closure(states, moves, given)
  <2> DEFINE Wrong(S) == S \in SUBSET states /\ g[S] # Closure(states, moves, S)
             Bad == {T \in SUBSET states : Wrong(states \ T)}
  <2> SUFFICES ASSUME NEW S \in SUBSET states, Wrong(S) PROVE FALSE
    OBVIOUS
  <2>1. Bad # {} /\ Bad \in SUBSET (SUBSET states)
    <3>1. states \ S \in SUBSET states /\ states \ (states \ S) = S
      OBVIOUS
    <3> HIDE DEF Wrong
    <3> QED BY <3>1
  <2>2. PICK T \in Bad : \A U \in Bad : ~(U \subseteq T /\ U # T)
    <3> HIDE DEF Bad
    <3> QED BY <2>1, LeastBadSet
  <2> DEFINE given == states \ T
             more == More(states, moves, given)
  <2>3. given \in SUBSET states /\ Wrong(given)
    BY <2>2
  <2>4. /\ more \in SUBSET states /\ given \subseteq more
        /\ more = given => Closure(states, moves, given) = given
        /\ Closure(states, moves, more) = Closure(states, moves, given)
        /\ g[given] = IF more = given THEN given ELSE g[more]
    <3> HIDE DEF given
    <3> QED BY <1>1, <2>3, MoreIs, ClosesEquation
  <2>5. more # given
    BY <2>3, <2>4
  <2>6. states \ more \subseteq T /\ states \ more # T /\ states \ (states \ more) = more
    <3> HIDE DEF more
    <3> QED BY <2>4, <2>5, <2>2
  <2>7. ~Wrong(more)
    <3> HIDE DEF Wrong, more
    <3> QED BY <2>2, <2>6
  <2> HIDE DEF more, given
  <2> QED BY <2>3, <2>4, <2>5, <2>7
<1> QED BY <1>2, ReachableUnfolds DEF g

\* What is reached is left by no move.
LEMMA ReachedIsClosed ==
    ASSUME NEW states, IsFiniteSet(states), NEW moves, NEW start \in states
    PROVE  /\ start \in Reachable(states, moves, start)
           /\ \A r \in Reachable(states, moves, start), s \in states :
                <<r, s>> \in moves => s \in Reachable(states, moves, start)
<1>1. {start} \in SUBSET states
  OBVIOUS
<1>2. /\ {start} \subseteq Closure(states, moves, {start})
      /\ ClosedUnder(states, moves, Closure(states, moves, {start}))
  BY <1>1, ClosureIs
<1>3. Reachable(states, moves, start) = Closure(states, moves, {start})
  BY ReachableIsClosure
<1> QED BY <1>2, <1>3 DEF ClosedUnder

\* A set that no move leaves holds all that is reached from it.
LEMMA ReachedStaysIn ==
    ASSUME NEW states, IsFiniteSet(states), NEW moves, NEW start \in states,
           NEW C \in SUBSET states, start \in C, ClosedUnder(states, moves, C)
    PROVE  Reachable(states, moves, start) \subseteq C
<1>1. {start} \in SUBSET states /\ {start} \subseteq C
  OBVIOUS
<1>2. Closure(states, moves, {start}) \subseteq C
  BY <1>1, ClosureIs
<1>3. Reachable(states, moves, start) = Closure(states, moves, {start})
  BY ReachableIsClosure
<1> QED BY <1>2, <1>3

-----------------------------------------------------------------------------
(* The three machines, each as a list of edges.                            *)

\* Sets given by their elements are finite; a machine's states are three such sets.
LEMMA FourFinite ==
    ASSUME NEW a, NEW b, NEW c, NEW d
    PROVE  IsFiniteSet({a, b, c, d})
<1>1. IsFiniteSet({a} \cup {b})
  BY FS_Singleton, FS_Union
<1>2. IsFiniteSet({c} \cup {d})
  BY FS_Singleton, FS_Union
<1>3. IsFiniteSet(({a} \cup {b}) \cup ({c} \cup {d}))
  BY <1>1, <1>2, FS_Union
<1>4. {a, b, c, d} = ({a} \cup {b}) \cup ({c} \cup {d})
  OBVIOUS
<1> QED BY <1>3, <1>4

InstrumentStates ==
    {"DISCOVER", "WATCH", "SETUP", "BUYABLE", "HOLD", "ADD", "REDUCE", "EXIT",
     "COOLDOWN", "ARCHIVED"}

InstrumentEdge(from, to) ==
    \/ from = "DISCOVER" /\ to = "WATCH"
    \/ from = "WATCH" /\ to = "SETUP"
    \/ from = "SETUP" /\ to = "BUYABLE"
    \/ from = "BUYABLE" /\ to = "HOLD"
    \/ from = "HOLD" /\ to \in {"ADD", "REDUCE", "EXIT"}
    \/ from \in {"ADD", "REDUCE"} /\ to \in {"HOLD", "EXIT"}
    \/ from = "EXIT" /\ to = "COOLDOWN"
    \/ from = "COOLDOWN" /\ to \in {"WATCH", "ARCHIVED"}

\* The instrument machine as a list of edges.
LEMMA InstrumentEdges ==
    /\ StatesOf(InstrumentTransitions) = InstrumentStates
    /\ \A from, to, facts :
        Starts(InstrumentTransitions, from, to, facts) <=>
            "reason" \in facts /\ InstrumentEdge(from, to)
<1>1. DOMAIN InstrumentTransitions = InstrumentStates \ {"ARCHIVED"}
  BY DEF InstrumentTransitions, InstrumentStates
<1>2. /\ InstrumentTransitions["DISCOVER"] = {"WATCH"}
      /\ InstrumentTransitions["WATCH"] = {"SETUP"}
      /\ InstrumentTransitions["SETUP"] = {"BUYABLE"}
      /\ InstrumentTransitions["BUYABLE"] = {"HOLD"}
      /\ InstrumentTransitions["HOLD"] = {"ADD", "REDUCE", "EXIT"}
      /\ InstrumentTransitions["ADD"] = {"HOLD", "EXIT"}
      /\ InstrumentTransitions["REDUCE"] = {"HOLD", "EXIT"}
      /\ InstrumentTransitions["EXIT"] = {"COOLDOWN"}
      /\ InstrumentTransitions["COOLDOWN"] = {"WATCH", "ARCHIVED"}
  BY DEF InstrumentTransitions
<1>3. Targets(InstrumentTransitions) = InstrumentStates \ {"DISCOVER"}
  BY <1>1, <1>2 DEF Targets, InstrumentStates
<1>4. StatesOf(InstrumentTransitions) = InstrumentStates
  BY <1>1, <1>3 DEF StatesOf, InstrumentStates
<1>5. ASSUME NEW from, NEW to, NEW facts
      PROVE  Starts(InstrumentTransitions, from, to, facts) <=>
            "reason" \in facts /\ InstrumentEdge(from, to)
  <2>1. from \in DOMAIN InstrumentTransitions /\ to \in InstrumentTransitions[from] <=> InstrumentEdge(from, to)
    BY <1>1, <1>2 DEF InstrumentEdge, InstrumentStates
  <2> QED BY <2>1 DEF Starts
<1> QED BY <1>4, <1>5

ThesisStateNames == {"UNKNOWN", "VALID", "STRENGTHENING", "WEAKENING", "BROKEN"}

ThesisEdge(from, to) ==
    \/ from = "UNKNOWN" /\ to = "VALID"
    \/ from = "VALID" /\ to \in {"STRENGTHENING", "WEAKENING"}
    \/ from = "STRENGTHENING" /\ to \in {"VALID", "WEAKENING"}
    \/ from = "WEAKENING" /\ to = "BROKEN"
    \/ from = "BROKEN" /\ to = "VALID"

\* The thesis machine as a list of edges.
LEMMA ThesisEdges ==
    /\ StatesOf(ThesisTransitions) = ThesisStateNames
    /\ \A from, to, facts :
        Starts(ThesisTransitions, from, to, facts) <=>
            "reason" \in facts /\ ThesisEdge(from, to)
<1>1. DOMAIN ThesisTransitions = ThesisStateNames
  BY DEF ThesisTransitions, ThesisStateNames
<1>2. /\ ThesisTransitions["UNKNOWN"] = {"VALID"}
      /\ ThesisTransitions["VALID"] = {"STRENGTHENING", "WEAKENING"}
      /\ ThesisTransitions["STRENGTHENING"] = {"VALID", "WEAKENING"}
      /\ ThesisTransitions["WEAKENING"] = {"BROKEN"}
      /\ ThesisTransitions["BROKEN"] = {"VALID"}
  BY DEF ThesisTransitions
<1>3. Targets(ThesisTransitions) \subseteq ThesisStateNames
  BY <1>1, <1>2 DEF Targets, ThesisStateNames
<1>4. StatesOf(ThesisTransitions) = ThesisStateNames
  BY <1>1, <1>3 DEF StatesOf, ThesisStateNames
<1>5. ASSUME NEW from, NEW to, NEW facts
      PROVE  Starts(ThesisTransitions, from, to, facts) <=>
            "reason" \in facts /\ ThesisEdge(from, to)
  <2>1. from \in DOMAIN ThesisTransitions /\ to \in ThesisTransitions[from] <=> ThesisEdge(from, to)
    BY <1>1, <1>2 DEF ThesisEdge, ThesisStateNames
  <2> QED BY <2>1 DEF Starts
<1> QED BY <1>4, <1>5

StrategyStates ==
    {"DRAFT", "BACKTEST_PENDING", "BACKTESTED", "SHADOW_PENDING", "SHADOW_VALIDATED",
     "HUMAN_REVIEW", "APPROVED", "REJECTED", "SCHEDULED_ACTIVATION", "ACTIVE", "RETIRED"}

StrategyEdge(from, to) ==
    \/ from = "DRAFT" /\ to = "BACKTEST_PENDING"
    \/ from = "BACKTEST_PENDING" /\ to = "BACKTESTED"
    \/ from = "BACKTESTED" /\ to = "SHADOW_PENDING"
    \/ from = "SHADOW_PENDING" /\ to = "SHADOW_VALIDATED"
    \/ from = "SHADOW_VALIDATED" /\ to = "HUMAN_REVIEW"
    \/ from = "HUMAN_REVIEW" /\ to \in {"APPROVED", "REJECTED"}
    \/ from = "APPROVED" /\ to = "SCHEDULED_ACTIVATION"
    \/ from = "SCHEDULED_ACTIVATION" /\ to = "ACTIVE"
    \/ from = "ACTIVE" /\ to = "RETIRED"

\* The strategy machine as a list of edges.
LEMMA StrategyEdges ==
    /\ Proposals = StrategyStates
    /\ \A from, to, facts :
        Starts(StrategyTransitions, from, to, facts) <=>
            "reason" \in facts /\ StrategyEdge(from, to)
<1>1. DOMAIN StrategyTransitions = StrategyStates \ {"REJECTED", "RETIRED"}
  BY DEF StrategyTransitions, StrategyStates
<1>2. /\ StrategyTransitions["DRAFT"] = {"BACKTEST_PENDING"}
      /\ StrategyTransitions["BACKTEST_PENDING"] = {"BACKTESTED"}
      /\ StrategyTransitions["BACKTESTED"] = {"SHADOW_PENDING"}
      /\ StrategyTransitions["SHADOW_PENDING"] = {"SHADOW_VALIDATED"}
      /\ StrategyTransitions["SHADOW_VALIDATED"] = {"HUMAN_REVIEW"}
      /\ StrategyTransitions["HUMAN_REVIEW"] = {"APPROVED", "REJECTED"}
      /\ StrategyTransitions["APPROVED"] = {"SCHEDULED_ACTIVATION"}
      /\ StrategyTransitions["SCHEDULED_ACTIVATION"] = {"ACTIVE"}
      /\ StrategyTransitions["ACTIVE"] = {"RETIRED"}
  BY DEF StrategyTransitions
<1>3. Targets(StrategyTransitions) = StrategyStates \ {"DRAFT"}
  BY <1>1, <1>2 DEF Targets, StrategyStates
<1>4. Proposals = StrategyStates
  BY <1>1, <1>3 DEF Proposals, StatesOf, StrategyStates
<1>5. ASSUME NEW from, NEW to, NEW facts
      PROVE  Starts(StrategyTransitions, from, to, facts) <=>
            "reason" \in facts /\ StrategyEdge(from, to)
  <2>1. from \in DOMAIN StrategyTransitions /\ to \in StrategyTransitions[from] <=> StrategyEdge(from, to)
    BY <1>1, <1>2 DEF StrategyEdge, StrategyStates
  <2> QED BY <2>1 DEF Starts
<1> QED BY <1>4, <1>5

\* The machines have finitely many states.
LEMMA MachinesFinite == IsFiniteSet(Holdings) /\ IsFiniteSet(Proposals)
<1>1. InstrumentStates =
        {"DISCOVER", "WATCH", "SETUP", "BUYABLE"} \cup {"HOLD", "ADD", "REDUCE", "EXIT"}
            \cup {"COOLDOWN", "ARCHIVED", "COOLDOWN", "ARCHIVED"}
  BY DEF InstrumentStates
<1>2. ThesisStateNames =
        {"UNKNOWN", "VALID", "STRENGTHENING", "WEAKENING"}
            \cup {"BROKEN", "BROKEN", "BROKEN", "BROKEN"}
  BY DEF ThesisStateNames
<1>3. StrategyStates =
        {"DRAFT", "BACKTEST_PENDING", "BACKTESTED", "SHADOW_PENDING"}
            \cup {"SHADOW_VALIDATED", "HUMAN_REVIEW", "APPROVED", "REJECTED"}
            \cup {"SCHEDULED_ACTIVATION", "ACTIVE", "RETIRED", "RETIRED"}
  BY DEF StrategyStates
<1>4. IsFiniteSet(InstrumentStates) /\ IsFiniteSet(ThesisStateNames)
      /\ IsFiniteSet(StrategyStates)
  BY <1>1, <1>2, <1>3, FourFinite, FS_Union
<1>5. IsFiniteSet(InstrumentStates \X ThesisStateNames)
  BY <1>4, FS_Product
<1> QED BY <1>4, <1>5, InstrumentEdges, ThesisEdges, StrategyEdges DEF Holdings

-----------------------------------------------------------------------------
(* The gates: which states need which facts.                               *)

\* An instrument and its thesis stay in what neither machine's steps leave.
LEMMA HoldingsStayWithin ==
    ASSUME NEW facts, NEW I \in SUBSET InstrumentStates, NEW T \in SUBSET ThesisStateNames,
           NEW i \in I, NEW t \in T,
           \A x \in I, y \in T : \A to : TransitionInstrument(x, to, facts, y) => to \in I,
           \A y \in T : \A to : TransitionThesis(y, to, facts) => to \in T
    PROVE  \A h \in HoldingsReached(<<i, t>>, facts) : h[1] \in I /\ h[2] \in T
<1>1. Holdings = InstrumentStates \X ThesisStateNames
  BY InstrumentEdges, ThesisEdges DEF Holdings
<1>2. I \X T \in SUBSET Holdings /\ <<i, t>> \in I \X T /\ <<i, t>> \in Holdings
  BY <1>1
<1>3. ASSUME NEW r \in I \X T, NEW s \in Holdings, <<r, s>> \in HoldingMoves(facts)
      PROVE  s \in I \X T
  <2>1. r[1] \in I /\ r[2] \in T /\ s = <<s[1], s[2]>>
    BY <1>1
  <2>2. \/ TransitionInstrument(r[1], s[1], facts, r[2]) /\ s[2] = r[2]
        \/ TransitionThesis(r[2], s[2], facts) /\ s[1] = r[1]
    BY <1>3 DEF HoldingMoves
  <2>3. s[1] \in I /\ s[2] \in T
    BY <2>1, <2>2
  <2> QED BY <2>1, <2>3
<1>4. ClosedUnder(Holdings, HoldingMoves(facts), I \X T)
  BY <1>3 DEF ClosedUnder
<1>5. HoldingsReached(<<i, t>>, facts) \subseteq I \X T
  BY <1>2, <1>4, MachinesFinite, ReachedStaysIn DEF HoldingsReached
<1> QED BY <1>5

\* A proposal stays in what no step of the actors leaves.
LEMMA ProposalsStayWithin ==
    ASSUME NEW facts, NEW actors, NEW P \in SUBSET StrategyStates, "DRAFT" \in P,
           \A x \in P, a \in actors : \A to :
                TransitionStrategyProposal(x, to, facts, a) => to \in P
    PROVE  ProposalsReached(facts, actors) \subseteq P
<1>1. P \in SUBSET Proposals /\ "DRAFT" \in Proposals
  BY StrategyEdges
<1>2. ASSUME NEW r \in P, NEW s \in Proposals, <<r, s>> \in ProposalMoves(facts, actors)
      PROVE  s \in P
  <2>1. PICK a \in actors : TransitionStrategyProposal(r, s, facts, a)
    BY <1>2 DEF ProposalMoves
  <2> QED BY <2>1
<1>3. ClosedUnder(Proposals, ProposalMoves(facts, actors), P)
  BY <1>2 DEF ClosedUnder
<1> QED BY <1>1, <1>3, MachinesFinite, ReachedStaysIn DEF ProposalsReached

\* A thesis stays in its machine.
LEMMA ThesisStays ==
    ASSUME NEW facts, NEW y \in ThesisStateNames, NEW to, TransitionThesis(y, to, facts)
    PROVE  to \in ThesisStateNames
  BY ThesisEdges DEF TransitionThesis, ThesisEdge, ThesisStateNames

\* Without one of the facts of entry an instrument stays before the place that
\* asks for it.
LEMMA EntryNeedsEveryFact ==
    ASSUME NEW f \in EntryFacts, NEW h \in HoldingsReached(<<"DISCOVER", "UNKNOWN">>, AllFacts \ {f})
    PROVE  h[1] # "HOLD"
<1> DEFINE facts == AllFacts \ {f}
<1>a. /\ "UNKNOWN" \in ThesisStateNames /\ ThesisStateNames \in SUBSET ThesisStateNames
      /\ {"UNKNOWN"} \in SUBSET ThesisStateNames
      /\ {"DISCOVER"} \in SUBSET InstrumentStates
      /\ {"DISCOVER", "WATCH"} \in SUBSET InstrumentStates
      /\ {"DISCOVER", "WATCH", "SETUP"} \in SUBSET InstrumentStates
      /\ {"DISCOVER", "WATCH", "SETUP", "BUYABLE"} \in SUBSET InstrumentStates
  BY DEF ThesisStateNames, InstrumentStates
<1>b. \A y \in ThesisStateNames : \A to : TransitionThesis(y, to, facts) => to \in ThesisStateNames
  BY ThesisStays
<1>1. CASE f \in {"screening_passed", "data_sufficient", "risk_passed"}
  <2>1. \A x \in {"DISCOVER"}, y \in ThesisStateNames : \A to :
            TransitionInstrument(x, to, facts, y) => to \in {"DISCOVER"}
    BY <1>1 DEF TransitionInstrument
  <2>2. h[1] \in {"DISCOVER"}
    <3> HIDE DEF facts
    <3> QED BY <1>a, <1>b, <2>1, HoldingsStayWithin DEF facts
  <2> QED BY <2>2
<1>2. CASE f = "observable_entry_condition"
  <2>1. \A x \in {"DISCOVER", "WATCH"}, y \in ThesisStateNames : \A to :
            TransitionInstrument(x, to, facts, y) => to \in {"DISCOVER", "WATCH"}
    BY <1>2, InstrumentEdges DEF TransitionInstrument, InstrumentEdge
  <2>2. h[1] \in {"DISCOVER", "WATCH"}
    <3> HIDE DEF facts
    <3> QED BY <1>a, <1>b, <2>1, HoldingsStayWithin DEF facts
  <2> QED BY <2>2
<1>3. CASE f \in {"timing_confirmed", "portfolio_capacity", "policy_passed"}
  <2>1. \A x \in {"DISCOVER", "WATCH", "SETUP"}, y \in ThesisStateNames : \A to :
            TransitionInstrument(x, to, facts, y) => to \in {"DISCOVER", "WATCH", "SETUP"}
    BY <1>3, InstrumentEdges DEF TransitionInstrument, InstrumentEdge
  <2>2. h[1] \in {"DISCOVER", "WATCH", "SETUP"}
    <3> HIDE DEF facts
    <3> QED BY <1>a, <1>b, <2>1, HoldingsStayWithin DEF facts
  <2> QED BY <2>2
<1>4. CASE f \in {"human_approved", "execution_recorded"}
  <2>1. \A x \in {"DISCOVER", "WATCH", "SETUP", "BUYABLE"}, y \in ThesisStateNames : \A to :
            TransitionInstrument(x, to, facts, y) =>
                to \in {"DISCOVER", "WATCH", "SETUP", "BUYABLE"}
    BY <1>4, InstrumentEdges DEF TransitionInstrument, InstrumentEdge
  <2>2. h[1] \in {"DISCOVER", "WATCH", "SETUP", "BUYABLE"}
    <3> HIDE DEF facts
    <3> QED BY <1>a, <1>b, <2>1, HoldingsStayWithin DEF facts
  <2> QED BY <2>2
<1>5. CASE f \in {"creates_new_version", "evidence_supports_change"}
  <2>1. \A x \in {"DISCOVER", "WATCH"}, y \in {"UNKNOWN"} : \A to :
            TransitionInstrument(x, to, facts, y) => to \in {"DISCOVER", "WATCH"}
    BY InstrumentEdges DEF TransitionInstrument, InstrumentEdge
  <2>2. \A y \in {"UNKNOWN"} : \A to : TransitionThesis(y, to, facts) => to \in {"UNKNOWN"}
    BY <1>5 DEF TransitionThesis
  <2>3. h[1] \in {"DISCOVER", "WATCH"}
    <3> HIDE DEF facts
    <3> QED BY <1>a, <2>1, <2>2, HoldingsStayWithin DEF facts
  <2> QED BY <2>3
<1> QED BY <1>1, <1>2, <1>3, <1>4, <1>5 DEF EntryFacts

\* Without one of the facts of recovery a broken thesis stays broken, and a
\* holding under it is not added to.
LEMMA RecoveryNeedsEveryFact ==
    ASSUME NEW f \in RecoveryFacts, NEW h \in HoldingsReached(<<"HOLD", "BROKEN">>, AllFacts \ {f})
    PROVE  h[1] # "ADD"
<1> DEFINE facts == AllFacts \ {f}
           I == InstrumentStates \ {"ADD"}
<1>1. /\ {"BROKEN"} \in SUBSET ThesisStateNames /\ "BROKEN" \in {"BROKEN"}
      /\ I \in SUBSET InstrumentStates /\ "HOLD" \in I
  BY DEF ThesisStateNames, InstrumentStates
<1>2. \A x \in I, y \in {"BROKEN"} : \A to : TransitionInstrument(x, to, facts, y) => to \in I
  BY InstrumentEdges DEF TransitionInstrument, InstrumentEdge, InstrumentStates
<1>3. \A y \in {"BROKEN"} : \A to : TransitionThesis(y, to, facts) => to \in {"BROKEN"}
  BY DEF TransitionThesis, RecoveryFacts
<1>4. h[1] \in I
  <2> HIDE DEF facts, I
  <2> QED BY <1>1, <1>2, <1>3, HoldingsStayWithin DEF facts
<1> QED BY <1>4

\* Without one of its facts a strategy stays before the place that asks for it.
LEMMA ActivationNeedsEveryFact ==
    ASSUME NEW f \in StrategyFacts
    PROVE  "ACTIVE" \notin ProposalsReached(AllFacts \ {f}, ActorTypes)
<1> DEFINE facts == AllFacts \ {f}
           Tested == {"DRAFT", "BACKTEST_PENDING"}
           Shadowed == Tested \cup {"BACKTESTED", "SHADOW_PENDING"}
           Reviewed == Shadowed \cup {"SHADOW_VALIDATED", "HUMAN_REVIEW"}
           Decided == Reviewed \cup {"APPROVED", "REJECTED"}
           Scheduled == Decided \cup {"SCHEDULED_ACTIVATION"}
<1>0. /\ Tested \in SUBSET StrategyStates /\ Shadowed \in SUBSET StrategyStates
      /\ Reviewed \in SUBSET StrategyStates /\ Decided \in SUBSET StrategyStates
      /\ Scheduled \in SUBSET StrategyStates
  BY DEF StrategyStates
<1>1. \E P \in SUBSET StrategyStates :
          /\ "DRAFT" \in P /\ "ACTIVE" \notin P
          /\ \A x \in P, a \in ActorTypes : \A to :
                TransitionStrategyProposal(x, to, facts, a) => to \in P
  <2>1. CASE f = "backtest_recorded"
    <3>1. \A x \in Tested, a \in ActorTypes : \A to :
                TransitionStrategyProposal(x, to, facts, a) => to \in Tested
      BY <2>1, StrategyEdges DEF TransitionStrategyProposal, StrategyEdge
    <3>2. "DRAFT" \in Tested /\ "ACTIVE" \notin Tested
      OBVIOUS
    <3> HIDE DEF Tested
    <3> QED BY <1>0, <3>1, <3>2
  <2>2. CASE f = "shadow_result_recorded"
    <3>1. \A x \in Shadowed, a \in ActorTypes : \A to :
                TransitionStrategyProposal(x, to, facts, a) => to \in Shadowed
      BY <2>2, StrategyEdges DEF TransitionStrategyProposal, StrategyEdge
    <3>2. "DRAFT" \in Shadowed /\ "ACTIVE" \notin Shadowed
      OBVIOUS
    <3> HIDE DEF Shadowed
    <3> QED BY <1>0, <3>1, <3>2
  <2>3. CASE f = "human_decision_recorded"
    <3>1. \A x \in Reviewed, a \in ActorTypes : \A to :
                TransitionStrategyProposal(x, to, facts, a) => to \in Reviewed
      BY <2>3, StrategyEdges DEF TransitionStrategyProposal, StrategyEdge
    <3>2. "DRAFT" \in Reviewed /\ "ACTIVE" \notin Reviewed
      OBVIOUS
    <3> HIDE DEF Reviewed
    <3> QED BY <1>0, <3>1, <3>2
  <2>4. CASE f = "activation_scheduled"
    <3>1. \A x \in Decided, a \in ActorTypes : \A to :
                TransitionStrategyProposal(x, to, facts, a) => to \in Decided
      BY <2>4, StrategyEdges DEF TransitionStrategyProposal, StrategyEdge
    <3>2. "DRAFT" \in Decided /\ "ACTIVE" \notin Decided
      OBVIOUS
    <3> HIDE DEF Decided
    <3> QED BY <1>0, <3>1, <3>2
  <2>5. CASE f = "activation_due"
    <3>1. \A x \in Scheduled, a \in ActorTypes : \A to :
                TransitionStrategyProposal(x, to, facts, a) => to \in Scheduled
      BY <2>5, StrategyEdges DEF TransitionStrategyProposal, StrategyEdge
    <3>2. "DRAFT" \in Scheduled /\ "ACTIVE" \notin Scheduled
      OBVIOUS
    <3> HIDE DEF Scheduled
    <3> QED BY <1>0, <3>1, <3>2
  <2> QED BY <2>1, <2>2, <2>3, <2>4, <2>5 DEF StrategyFacts
<1> HIDE DEF facts
<1> QED BY <1>1, ProposalsStayWithin DEF facts

\* The other actors do not get past the human review.
LEMMA ActivationNeedsAHuman ==
    ProposalsReached(AllFacts, {"SYSTEM", "LEARNING_ENGINE"}) \cap
        {"APPROVED", "REJECTED", "SCHEDULED_ACTIVATION", "ACTIVE", "RETIRED"} = {}
<1> DEFINE P == {"DRAFT", "BACKTEST_PENDING", "BACKTESTED", "SHADOW_PENDING",
                 "SHADOW_VALIDATED", "HUMAN_REVIEW"}
<1>1. P \in SUBSET StrategyStates /\ "DRAFT" \in P
  BY DEF StrategyStates
<1>2. \A x \in P, a \in {"SYSTEM", "LEARNING_ENGINE"} : \A to :
            TransitionStrategyProposal(x, to, AllFacts, a) => to \in P
  BY StrategyEdges DEF TransitionStrategyProposal, StrategyEdge
<1>3. ProposalsReached(AllFacts, {"SYSTEM", "LEARNING_ENGINE"}) \subseteq P
  <2> HIDE DEF P
  <2> QED BY <1>1, <1>2, ProposalsStayWithin
<1> QED BY <1>3

\* No holding, no addition to a broken thesis and no active strategy without every
\* fact it needs: the three machines admit no way around.
THEOREM GatesHold == Spec => []GatesAreIndispensable
<1>1. GatesAreIndispensable
  BY EntryNeedsEveryFact, RecoveryNeedsEveryFact, ActivationNeedsEveryFact,
     ActivationNeedsAHuman DEF GatesAreIndispensable
<1> QED BY <1>1, PTL

\* Two steps on exit facts take any holding to its cooldown.
LEMMA ExitsAreOpen ==
    ASSUME NEW i \in {"HOLD", "ADD", "REDUCE"}, NEW t \in ThesisStates
    PROVE  <<"COOLDOWN", t>> \in HoldingsReached(<<i, t>>, ExitFacts)
<1>1. t \in ThesisStateNames
  BY ThesisEdges DEF ThesisStates
<1>2. /\ <<i, t>> \in Holdings /\ <<"EXIT", t>> \in Holdings /\ <<"COOLDOWN", t>> \in Holdings
  BY <1>1, InstrumentEdges, ThesisEdges DEF Holdings, InstrumentStates
<1>3. TransitionInstrument(i, "EXIT", ExitFacts, t)
  BY InstrumentEdges DEF TransitionInstrument, InstrumentEdge, ExitFacts
<1>4. TransitionInstrument("EXIT", "COOLDOWN", ExitFacts, t)
  BY InstrumentEdges DEF TransitionInstrument, InstrumentEdge, ExitFacts
<1>5. /\ <<<<i, t>>, <<"EXIT", t>>>> \in HoldingMoves(ExitFacts)
      /\ <<<<"EXIT", t>>, <<"COOLDOWN", t>>>> \in HoldingMoves(ExitFacts)
  BY <1>2, <1>3, <1>4 DEF HoldingMoves
<1>6. /\ <<i, t>> \in HoldingsReached(<<i, t>>, ExitFacts)
      /\ \A r \in HoldingsReached(<<i, t>>, ExitFacts), s \in Holdings :
            <<r, s>> \in HoldingMoves(ExitFacts) => s \in HoldingsReached(<<i, t>>, ExitFacts)
  BY <1>2, MachinesFinite, ReachedIsClosed DEF HoldingsReached
<1> QED BY <1>2, <1>5, <1>6

-----------------------------------------------------------------------------
(* The CIO gates.                                                          *)

\* A proposal to buy that one gate does not pass becomes a Decision whose buckets
\* can carry no increase.
THEOREM BlockedBuyNothing == Spec => []BlockedProposalsBuyNothing
<1>1. ASSUME NEW i \in Recommendations, i.proposed \in Increases,
             NEW g \in DOMAIN GateResults(i), GateResults(i)[g] # "PASS",
             NEW core \in BucketActions, NEW tactical \in BucketActions,
             BucketActionsFit(Recommend(i), core, tactical)
      PROVE  {core, tactical} \cap Increases = {}
  <2>1. Recommend(i) \in {"AVOID", "WATCH"}
    BY <1>1 DEF Recommend
  <2>2. {core, tactical} = {"NONE"}
    BY <1>1, <2>1 DEF BucketActionsFit
  <2> QED BY <2>2 DEF Increases
<1>2. BlockedProposalsBuyNothing
  BY <1>1 DEF BlockedProposalsBuyNothing
<1> QED BY <1>2, PTL
-----------------------------------------------------------------------------
(* Sizing.                                                                 *)

\* A set of natural numbers has a least element.
LEMMA LeastNat ==
    ASSUME NEW S \in SUBSET Nat, S # {}
    PROVE  \E n \in S : \A m \in S : n <= m
<1> DEFINE R == {ss \in Nat \X Nat : ss[1] < ss[2]}
<1>1. IsWellFoundedOn(R, Nat)
  BY NatLessThanWellFounded DEF OpToRel
<1> HIDE DEF R
<1>2. PICK n \in S : \A m \in S : ~(<<m, n>> \in R)
  BY <1>1, WFMin
<1>3. ASSUME NEW m \in S, m < n PROVE FALSE
  <2>1. <<m, n>> \in R
    BY <1>3 DEF R
  <2> QED BY <1>2, <2>1
<1>4. \A m \in S : n <= m
  BY <1>3
<1> QED BY <1>4

\* What Min returns for any set of natural numbers.
LEMMA MinOfNats ==
    ASSUME NEW S \in SUBSET Nat, S # {}
    PROVE  Min(S) \in S /\ \A m \in S : Min(S) <= m
<1>1. \E n \in S : \A m \in S : n <= m
  BY LeastNat
<1> QED BY <1>1 DEF Min

\* What Min returns for two integers.
LEMMA MinOfTwo ==
    ASSUME NEW a \in Int, NEW b \in Int
    PROVE  Min({a, b}) = IF a <= b THEN a ELSE b
<1> DEFINE low == IF a <= b THEN a ELSE b
<1>1. low \in {a, b} /\ \A y \in {a, b} : low <= y
  OBVIOUS
<1>2. \A x \in {a, b} : (\A y \in {a, b} : x <= y) => x = low
  OBVIOUS
<1> QED BY <1>1, <1>2 DEF Min

\* What Max returns for two integers.
LEMMA MaxOfTwo ==
    ASSUME NEW a \in Int, NEW b \in Int
    PROVE  Max({a, b}) = IF a >= b THEN a ELSE b
<1> DEFINE high == IF a >= b THEN a ELSE b
<1>1. high \in {a, b} /\ \A y \in {a, b} : high >= y
  OBVIOUS
<1>2. \A x \in {a, b} : (\A y \in {a, b} : x >= y) => x = high
  OBVIOUS
<1> QED BY <1>1, <1>2 DEF Max

\* Rounding down to whole lots.
LEMMA LotsDown ==
    ASSUME NEW a \in Nat, NEW lot \in Nat \ {0}
    PROVE  /\ (a \div lot) * lot \in Nat /\ (a \div lot) * lot <= a
           /\ ((a \div lot) * lot) % lot = 0
<1>1. a \div lot \in Nat /\ (a \div lot) * lot <= a
  OBVIOUS
<1>2. \A k \in Nat : k * lot \in Nat /\ (k * lot) % lot = 0
  OBVIOUS
<1> QED BY <1>1, <1>2

\* Rounding up to whole lots.
LEMMA LotsUp ==
    ASSUME NEW a \in Nat, NEW b \in Nat \ {0}
    PROVE  CeilDiv(a, b) \in Nat /\ CeilDiv(a, b) * b >= a /\ CeilDiv(a, b) * b < a + b
  BY DEF CeilDiv

Book == [instrument : Nat, sector : Nat, gross : Nat, pendingInstrument : Nat,
         pendingSector : Nat, pendingGross : Nat, riskBudget : Nat, liquidity : Nat]

\* What a limit leaves.
LEMMA HeadroomIs ==
    ASSUME NEW limit \in Int, NEW current \in Nat, NEW pending \in Nat
    PROVE  /\ Headroom(limit, current, pending) \in Nat
           /\ Headroom(limit, current, pending) > 0 =>
                 Headroom(limit, current, pending) = limit - current - pending
           /\ limit - current - pending <= 0 => Headroom(limit, current, pending) = 0
  BY MaxOfTwo DEF Headroom

\* Limits are natural numbers.
LEMMA PolicyTyped ==
    ASSUME NEW p \in Policies
    PROVE  /\ p.single \in Nat /\ p.sector \in Nat /\ p.gross \in Nat /\ p.cash \in Nat
           /\ Whole - p.cash \in Int
<1>1. /\ p.single \in Amounts /\ p.sector \in Amounts /\ p.gross \in Amounts
      /\ p.cash \in Amounts
  BY DEF Policies
<1>2. \A a \in Amounts : a \in Nat
  BY AmountsAssumption
<1>3. \A a \in Nat : Whole - a \in Int
  BY WholeAssumption
<1> QED BY <1>1, <1>2, <1>3

\* No capacity is above what one of the limits leaves.
LEMMA CapacityIs ==
    ASSUME NEW p \in Policies, NEW book \in Book
    PROVE  /\ Capacity(p, book) \in Nat
           /\ Capacity(p, book) <= Headroom(p.single, book.instrument, book.pendingInstrument)
           /\ Capacity(p, book) <= Headroom(p.sector, book.sector, book.pendingSector)
           /\ Capacity(p, book) <= Headroom(p.gross, book.gross, book.pendingGross)
           /\ Capacity(p, book) <= Headroom(Whole - p.cash, book.gross, book.pendingGross)
<1>1. p.single \in Nat /\ p.sector \in Nat /\ p.gross \in Nat /\ Whole - p.cash \in Int
  BY PolicyTyped
<1>b. /\ book.instrument \in Nat /\ book.sector \in Nat /\ book.gross \in Nat
      /\ book.pendingInstrument \in Nat /\ book.pendingSector \in Nat
      /\ book.pendingGross \in Nat /\ book.riskBudget \in Nat /\ book.liquidity \in Nat
  BY DEF Book
<1>2. /\ Headroom(p.single, book.instrument, book.pendingInstrument) \in Nat
      /\ Headroom(p.sector, book.sector, book.pendingSector) \in Nat
      /\ Headroom(p.gross, book.gross, book.pendingGross) \in Nat
      /\ Headroom(Whole - p.cash, book.gross, book.pendingGross) \in Nat
      /\ book.riskBudget \in Nat /\ book.liquidity \in Nat
  <2>1. \A limit \in Int, held, pending \in Nat : Headroom(limit, held, pending) \in Nat
    BY HeadroomIs
  <2>2. p.single \in Int /\ p.sector \in Int /\ p.gross \in Int
    BY <1>1
  <2> QED BY <1>1, <1>b, <2>1, <2>2
<1> DEFINE S == {Headroom(p.single, book.instrument, book.pendingInstrument),
                 Headroom(p.sector, book.sector, book.pendingSector),
                 Headroom(p.gross, book.gross, book.pendingGross),
                 Headroom(Whole - p.cash, book.gross, book.pendingGross),
                 book.riskBudget, book.liquidity}
<1>3. S \in SUBSET Nat /\ S # {}
  BY <1>2
<1>4. Min(S) \in S /\ \A m \in S : Min(S) <= m
  <2> HIDE DEF S
  <2> QED BY <1>3, MinOfNats
<1>5. Capacity(p, book) = Min(S)
  BY DEF Capacity
<1> QED BY <1>3, <1>4, <1>5

\* What the requests of the model hold.
LEMMA RequestTyped ==
    ASSUME NEW q \in Requests
    PROVE  /\ q.act = action /\ q.risk = gate /\ q.current \in Nat /\ q.lot \in Nat \ {0}
           /\ q.quantity = q.current
           /\ q.volatility \in {2, 8} /\ q.policy \in Policies /\ q.book \in Book
<1>1. PICK e \in BOOLEAN, t \in {"WEAKENING", "BROKEN"}, l \in Lots, v \in {2, 8},
           p \in Policies, b \in Books, k \in Amounts :
        q = [act |-> action, risk |-> gate, expired |-> e, thesis |-> t,
             current |-> b.instrument, quantity |-> k, lot |-> l, volatility |-> v,
             policy |-> p, book |-> b]
  BY DEF Requests
<1>r. q.quantity = q.current
  BY DEF Requests, Reconciles
<1>2. PICK h \in Nested, n \in Nested, r \in {1, Whole} :
        b = [instrument |-> h[1], sector |-> h[2], gross |-> h[3],
             pendingInstrument |-> n[1], pendingSector |-> n[2], pendingGross |-> n[3],
             riskBudget |-> r, liquidity |-> Whole]
  BY DEF Books
<1>3. /\ h[1] \in Nat /\ h[2] \in Nat /\ h[3] \in Nat
      /\ n[1] \in Nat /\ n[2] \in Nat /\ n[3] \in Nat /\ r \in Nat /\ Whole \in Nat
  <2>1. \A x \in Nested : x[1] \in Amounts /\ x[2] \in Amounts /\ x[3] \in Amounts
    BY DEF Nested
  <2>2. \A a \in Amounts : a \in Nat
    BY AmountsAssumption
  <2>3. h \in Nested /\ n \in Nested
    OBVIOUS
  <2> QED BY <2>1, <2>2, <2>3, WholeAssumption
<1>4. b \in Book /\ b.instrument \in Nat
  BY <1>2, <1>3 DEF Book
<1> QED BY <1>1, <1>4, <1>r, LotsAssumption

\* The target before rounding is a number.
LEMMA RawTargetTyped ==
    ASSUME NEW f \in Formulas, NEW q, q.volatility \in {2, 8}
    PROVE  RawTarget(f, q) \in Int
<1>1. /\ f.intent = Whole /\ f.target = 2 /\ f.floor = 1
      /\ f.scaleMin[1] = 1 /\ f.scaleMin[2] = 2 /\ f.scaleMax[1] = 1 /\ f.scaleMax[2] = 1
  BY DEF Formulas
<1>2. Max({q.volatility, f.floor}) \in {2, 8}
  BY <1>1, MaxOfTwo
<1>3. /\ (Whole * 1) \div 2 \in Int /\ (Whole * 1) \div 1 \in Int
      /\ \A v \in {2, 8} : (Whole * 2) \div v \in Int
  BY WholeAssumption
<1> QED BY <1>1, <1>2, <1>3 DEF RawTarget

\* An increase is made of whole lots and fits the capacity.
LEMMA IncreaseFits ==
    ASSUME NEW f \in Formulas, NEW q, q.volatility \in {2, 8}, q.current \in Nat,
           q.lot \in Nat \ {0}, q.policy \in Policies, q.book \in Book
    PROVE  /\ Increase(f, q) \in Nat /\ Increase(f, q) % q.lot = 0
           /\ Increase(f, q) <= Capacity(q.policy, q.book)
<1> DEFINE requested == Max({0, RawTarget(f, q) - q.current})
           allowed == Min({requested, Capacity(q.policy, q.book)})
<1>1. requested \in Nat
  BY RawTargetTyped, MaxOfTwo
<1>2. Capacity(q.policy, q.book) \in Nat
  BY CapacityIs
<1>3. allowed \in Nat /\ allowed <= Capacity(q.policy, q.book)
  <2> HIDE DEF requested
  <2> QED BY <1>1, <1>2, MinOfTwo
<1>4. Increase(f, q) = (allowed \div q.lot) * q.lot
  BY DEF Increase
<1> HIDE DEF allowed
<1>5. /\ (allowed \div q.lot) * q.lot \in Nat /\ (allowed \div q.lot) * q.lot <= allowed
      /\ ((allowed \div q.lot) * q.lot) % q.lot = 0
  BY <1>3, LotsDown
<1> QED BY <1>2, <1>3, <1>4, <1>5

\* A product grows with each of its factors.
LEMMA Products ==
    ASSUME NEW a \in Nat, NEW b \in Int, NEW c \in Int, b <= c
    PROVE  a * b <= a * c
  OBVIOUS

\* A decrease sells amount / den, if that is held, and less than a lot more.
LEMMA DecreaseFits ==
    ASSUME NEW amount \in Nat, NEW den \in Nat \ {0}, NEW q, q.quantity \in Nat,
           q.lot \in Nat \ {0}, amount <= den * q.quantity
    PROVE  /\ Decrease(amount, den, q) \in 0..q.quantity
           /\ Decrease(amount, den, q) * den >= amount
           /\ (Decrease(amount, den, q) - q.lot) * den < amount
<1> DEFINE b == den * q.lot
           n == CeilDiv(amount, b)
           m == n * q.lot
           D == Decrease(amount, den, q)
<1>1. b \in Nat \ {0}
  OBVIOUS
<1>2. n \in Nat /\ n * b >= amount /\ n * b < amount + b
  <2> HIDE DEF b
  <2> QED BY <1>1, LotsUp
<1> HIDE DEF n
<1>3. m \in Nat /\ den * m = n * b
  <2>1. \A x, y, z \in Nat : x * z \in Nat /\ y * (x * z) = x * (y * z)
    OBVIOUS
  <2> QED BY <1>2, <2>1
<1>4. den * (m - q.lot) = n * b - b
  <2>1. \A x, y, z \in Int : x * (y - z) = x * y - x * z
    OBVIOUS
  <2> HIDE DEF m
  <2> QED BY <1>3, <2>1 DEF b
<1> HIDE DEF b
<1>5. D = IF q.quantity <= m THEN q.quantity ELSE m
  <2>1. D = Min({q.quantity, m})
    BY DEF Decrease, n, b
  <2> HIDE DEF D, m
  <2> QED BY <1>3, <2>1, MinOfTwo
<1> HIDE DEF m, D
<1>6. D \in 0..q.quantity /\ D <= m
  BY <1>3, <1>5
<1>7. den * D >= amount
  BY <1>2, <1>3, <1>5
<1>8. den * (D - q.lot) < amount
  <2>1. D - q.lot \in Int /\ m - q.lot \in Int /\ D - q.lot <= m - q.lot
    BY <1>3, <1>6
  <2>2. den * (D - q.lot) <= den * (m - q.lot)
    BY <2>1, Products
  <2>3. den * (m - q.lot) < amount
    BY <1>1, <1>2, <1>4
  <2>4. den * (D - q.lot) \in Int /\ den * (m - q.lot) \in Int
    BY <2>1
  <2> QED BY <2>2, <2>3, <2>4
<1>9. D * den = den * D /\ (D - q.lot) * den = den * (D - q.lot)
  <2>1. \A x, y \in Int : x * y = y * x
    OBVIOUS
  <2> QED BY <1>6, <2>1
<1> QED BY <1>6, <1>7, <1>8, <1>9 DEF D

\* What stops an increase.
Blocked(q) == q.expired \/ q.risk = "UNKNOWN" \/ ~PermitsAction(q.risk, q.act) \/ q.thesis = "BROKEN"

\* The cases of size_position.
LEMMA SizeIs ==
    ASSUME NEW f, NEW q
    PROVE  /\ q.act \in Increases /\ Blocked(q) => SizePosition(f, q) = 0
           /\ q.act \in Increases /\ ~Blocked(q) => SizePosition(f, q) = Increase(f, q)
           /\ q.act = "REDUCE" =>
                 SizePosition(f, q) = -Decrease(q.current * f.reduce, Whole, q)
           /\ q.act = "EXIT" => SizePosition(f, q) = -Decrease(q.current, 1, q)
           /\ q.act \notin Increases \cup Reductions => SizePosition(f, q) = 0
  BY DEF SizePosition, Increases, Reductions, Blocked

\* A reduction sells the part it names, within a lot, and no more than is held.
LEMMA SaleIsHeld ==
    ASSUME NEW f \in Formulas, NEW q, q.current \in Nat, q.quantity = q.current,
           q.lot \in Nat \ {0}, q.act \in Reductions
    PROVE  /\ -SizePosition(f, q) \in 0..q.quantity
           /\ SizePosition(f, q) \in Int
           /\ SizePosition(f, q) >= -q.quantity /\ SizePosition(f, q) <= 0
           /\ q.act = "EXIT" => -SizePosition(f, q) = q.quantity
           /\ q.act = "REDUCE" =>
                /\ (-SizePosition(f, q)) * Whole >= q.quantity * f.reduce
                /\ (-SizePosition(f, q) - q.lot) * Whole < q.quantity * f.reduce
<1>1. f.reduce \in Nat /\ f.reduce <= Whole
  BY AmountsAssumption DEF Formulas
<1>2. /\ q.quantity * f.reduce \in Nat
      /\ q.quantity * f.reduce <= Whole * q.quantity
  <2>1. q.quantity * f.reduce <= q.quantity * Whole
    BY <1>1, WholeAssumption, Products
  <2>2. /\ \A x, y \in Nat : x * y \in Nat
        /\ \A x, y \in Nat : x * y = y * x
    OBVIOUS
  <2> QED BY <1>1, <2>1, <2>2, WholeAssumption
<1>3. CASE q.act = "REDUCE"
  <2> DEFINE D == Decrease(q.quantity * f.reduce, Whole, q)
  <2>1. /\ D \in 0..q.quantity
        /\ D * Whole >= q.quantity * f.reduce
        /\ (D - q.lot) * Whole < q.quantity * f.reduce
    BY <1>2, DecreaseFits, WholeAssumption
  <2>2. SizePosition(f, q) = -D
    BY <1>3, SizeIs
  <2> HIDE DEF D
  <2>3. -SizePosition(f, q) = D
    BY <2>1, <2>2
  <2> QED BY <1>3, <2>1, <2>2, <2>3
<1>4. CASE q.act = "EXIT"
  <2> DEFINE D == Decrease(q.quantity, 1, q)
  <2>1. D \in 0..q.quantity /\ D * 1 >= q.quantity
    BY DecreaseFits
  <2>2. SizePosition(f, q) = -D
    BY <1>4, SizeIs
  <2> HIDE DEF D
  <2> QED BY <1>4, <2>1, <2>2
<1> QED BY <1>3, <1>4 DEF Reductions

\* A held instrument can be left whatever gates are closed: its machine, the CIO
\* gates and the sizing of a request that reconciles ask no permission of a
\* reduction, which sells the fraction it names within a lot, an exit everything.
THEOREM ReductionOpen == Spec => []ReductionNeedsNoPermission
<1>1. ASSUME NEW i \in Recommendations, i.proposed \in Reductions
      PROVE  Recommend(i) = i.proposed
  BY <1>1 DEF Recommend, Increases, Reductions
<1>2. ASSUME NEW f \in Formulas, NEW q \in Requests
      PROVE  LET sold == -SizePosition(f, q)
             IN /\ action = "EXIT" => sold = q.quantity
                /\ action = "REDUCE" =>
                     /\ sold <= q.quantity
                     /\ sold * Whole >= q.quantity * f.reduce
                     /\ (sold - q.lot) * Whole < q.quantity * f.reduce
  <2> DEFINE sold == -SizePosition(f, q)
  <2>1. /\ q.act = action /\ q.current \in Nat /\ q.quantity = q.current
        /\ q.lot \in Nat \ {0}
    BY RequestTyped
  <2>2. action \in Reductions =>
          /\ sold \in 0..q.quantity
          /\ action = "EXIT" => sold = q.quantity
          /\ action = "REDUCE" =>
               /\ sold * Whole >= q.quantity * f.reduce
               /\ (sold - q.lot) * Whole < q.quantity * f.reduce
    BY <2>1, SaleIsHeld
  <2> HIDE DEF sold
  <2>3. sold \in 0..q.quantity => sold <= q.quantity
    BY <2>1
  <2> QED BY <2>2, <2>3 DEF Reductions, sold
<1>3. ReductionNeedsNoPermission
  BY <1>1, <1>2, ExitsAreOpen DEF ReductionNeedsNoPermission
<1> QED BY <1>3, PTL

\* A pending increase changes what is pending only.
LEMMA ReservedTyped ==
    ASSUME NEW b \in Book, NEW d \in Nat
    PROVE  /\ Reserved(b, d) \in Book
           /\ Reserved(b, d).instrument = b.instrument
           /\ Reserved(b, d).sector = b.sector
           /\ Reserved(b, d).gross = b.gross
           /\ Reserved(b, d).pendingInstrument = b.pendingInstrument + d
           /\ Reserved(b, d).pendingSector = b.pendingSector + d
           /\ Reserved(b, d).pendingGross = b.pendingGross + d
<1> DEFINE x == b.pendingInstrument + d
           y == b.pendingSector + d
           z == b.pendingGross + d
           r == [b EXCEPT !.pendingInstrument = x, !.pendingSector = y, !.pendingGross = z]
<1>1. x \in Nat /\ y \in Nat /\ z \in Nat
  BY DEF Book
<1>2. Reserved(b, d) = r
  BY Zenon DEF Reserved
<1> HIDE DEF x, y, z
<1>3. /\ r \in Book
      /\ r.instrument = b.instrument /\ r.sector = b.sector /\ r.gross = b.gross
      /\ r.pendingInstrument = x /\ r.pendingSector = y /\ r.pendingGross = z
  BY <1>1 DEF Book
<1> HIDE DEF r
<1> QED BY <1>2, <1>3 DEF x, y, z

\* Two increases that fit in turn, the first one pending, fit together.
LEMMA TwoFitTogether ==
    ASSUME NEW limit \in Int, NEW held \in Nat, NEW pending \in Nat,
           NEW d \in Nat \ {0}, NEW e \in Nat,
           d <= Headroom(limit, held, pending),
           e <= Headroom(limit, held, pending + d)
    PROVE  held + (pending + (d + e)) <= limit
<1>1. /\ Headroom(limit, held, pending) \in Nat
      /\ Headroom(limit, held, pending) > 0 =>
            Headroom(limit, held, pending) = limit - held - pending
  BY HeadroomIs
<1>2. pending + d \in Nat
  OBVIOUS
<1>3. /\ Headroom(limit, held, pending + d) \in Nat
      /\ Headroom(limit, held, pending + d) > 0 =>
            Headroom(limit, held, pending + d) = limit - held - (pending + d)
  BY <1>2, HeadroomIs
<1> QED BY <1>1, <1>3

\* An increase was allowed, and it and the next one fit together.
LEMMA SizesFit ==
    ASSUME NEW f \in Formulas, NEW q \in Requests, NEW d, d = SizePosition(f, q),
           d \in Int, d > 0,
           NEW e, e = SizePosition(f, [q EXCEPT !.book = Reserved(q.book, d)]),
           NEW total, total = Reserved(q.book, d + e)
    PROVE  /\ gate = "PASS" /\ ~q.expired /\ q.thesis # "BROKEN"
           /\ d % q.lot = 0
           /\ total.instrument + total.pendingInstrument <= q.policy.single
           /\ total.sector + total.pendingSector <= q.policy.sector
           /\ total.gross + total.pendingGross <= q.policy.gross
           /\ total.gross + total.pendingGross <= Whole - q.policy.cash
<1> DEFINE q2 == [q EXCEPT !.book = Reserved(q.book, d)]
           p == q.policy
           b == q.book
<1>1. /\ q.act = action /\ q.risk = gate /\ q.current \in Nat /\ q.lot \in Nat \ {0}
      /\ q.quantity = q.current
      /\ q.volatility \in {2, 8} /\ p \in Policies /\ b \in Book
  BY RequestTyped
<1>2. q.act \in Increases /\ ~Blocked(q) /\ d = Increase(f, q)
  <2>1. q.act \notin Reductions
    BY <1>1, SaleIsHeld
  <2> QED BY <2>1, SizeIs
<1>3. gate = "PASS" /\ ~q.expired /\ q.thesis # "BROKEN"
  BY <1>1, <1>2 DEF Blocked, PermitsAction, Increases, Reductions
<1>4. d \in Nat \ {0} /\ d % q.lot = 0 /\ d <= Capacity(p, b)
  BY <1>1, <1>2, IncreaseFits
<1>5. /\ q2.act = q.act /\ q2.risk = q.risk /\ q2.expired = q.expired
      /\ q2.thesis = q.thesis /\ q2.current = q.current /\ q2.lot = q.lot
      /\ q2.volatility = q.volatility /\ q2.policy = p /\ q2.book = Reserved(b, d)
  BY DEF Requests
<1> HIDE DEF q2
<1>6. e = Increase(f, q2)
  <2>1. q2.act \in Increases /\ ~Blocked(q2)
    BY <1>2, <1>5 DEF Blocked
  <2> QED BY <2>1, SizeIs DEF q2
<1>7. Reserved(b, d) \in Book
  BY <1>1, <1>4, ReservedTyped
<1>8. e \in Nat /\ e <= Capacity(p, Reserved(b, d))
  BY <1>1, <1>5, <1>6, <1>7, IncreaseFits
<1> HIDE DEF p, b
<1>a. /\ p.single \in Int /\ p.sector \in Int /\ p.gross \in Int /\ Whole - p.cash \in Int
  BY <1>1, PolicyTyped
<1>b. /\ b.instrument \in Nat /\ b.sector \in Nat /\ b.gross \in Nat
      /\ b.pendingInstrument \in Nat /\ b.pendingSector \in Nat /\ b.pendingGross \in Nat
  BY <1>1 DEF Book
<1>9. /\ Capacity(p, b) \in Nat
      /\ Capacity(p, b) <= Headroom(p.single, b.instrument, b.pendingInstrument)
      /\ Capacity(p, b) <= Headroom(p.sector, b.sector, b.pendingSector)
      /\ Capacity(p, b) <= Headroom(p.gross, b.gross, b.pendingGross)
      /\ Capacity(p, b) <= Headroom(Whole - p.cash, b.gross, b.pendingGross)
  BY <1>1, CapacityIs
<1>10. /\ Capacity(p, Reserved(b, d)) \in Nat
       /\ Capacity(p, Reserved(b, d)) <= Headroom(p.single, b.instrument, b.pendingInstrument + d)
       /\ Capacity(p, Reserved(b, d)) <= Headroom(p.sector, b.sector, b.pendingSector + d)
       /\ Capacity(p, Reserved(b, d)) <= Headroom(p.gross, b.gross, b.pendingGross + d)
       /\ Capacity(p, Reserved(b, d)) <= Headroom(Whole - p.cash, b.gross, b.pendingGross + d)
  <2>1. /\ Reserved(b, d).instrument = b.instrument
        /\ Reserved(b, d).sector = b.sector
        /\ Reserved(b, d).gross = b.gross
        /\ Reserved(b, d).pendingInstrument = b.pendingInstrument + d
        /\ Reserved(b, d).pendingSector = b.pendingSector + d
        /\ Reserved(b, d).pendingGross = b.pendingGross + d
    BY <1>1, <1>4, ReservedTyped
  <2> HIDE <1>5
  <2>2. /\ Capacity(p, Reserved(b, d)) \in Nat
        /\ Capacity(p, Reserved(b, d)) <=
              Headroom(p.single, Reserved(b, d).instrument, Reserved(b, d).pendingInstrument)
        /\ Capacity(p, Reserved(b, d)) <=
              Headroom(p.sector, Reserved(b, d).sector, Reserved(b, d).pendingSector)
        /\ Capacity(p, Reserved(b, d)) <=
              Headroom(p.gross, Reserved(b, d).gross, Reserved(b, d).pendingGross)
        /\ Capacity(p, Reserved(b, d)) <=
              Headroom(Whole - p.cash, Reserved(b, d).gross, Reserved(b, d).pendingGross)
    BY <1>1, <1>7, CapacityIs
  <2> QED BY <2>1, <2>2
<1>11. /\ Headroom(p.single, b.instrument, b.pendingInstrument) \in Nat
       /\ Headroom(p.sector, b.sector, b.pendingSector) \in Nat
       /\ Headroom(p.gross, b.gross, b.pendingGross) \in Nat
       /\ Headroom(Whole - p.cash, b.gross, b.pendingGross) \in Nat
  BY <1>a, <1>b, HeadroomIs
<1>12. \A limit \in Int, held, pending \in Nat :
          d <= Headroom(limit, held, pending) /\ e <= Headroom(limit, held, pending + d)
          => held + (pending + (d + e)) <= limit
  BY <1>4, <1>8, TwoFitTogether
<1>13. \A limit \in Int, held, pending \in Nat :
          Capacity(p, b) <= Headroom(limit, held, pending)
            /\ Capacity(p, Reserved(b, d)) <= Headroom(limit, held, pending + d)
          => held + (pending + (d + e)) <= limit
  <2> SUFFICES ASSUME NEW limit \in Int, NEW held \in Nat, NEW pending \in Nat,
                      Capacity(p, b) <= Headroom(limit, held, pending),
                      Capacity(p, Reserved(b, d)) <= Headroom(limit, held, pending + d)
               PROVE  held + (pending + (d + e)) <= limit
    OBVIOUS
  <2>1. Headroom(limit, held, pending) \in Nat /\ Headroom(limit, held, pending + d) \in Nat
    <3>1. pending + d \in Nat
      BY <1>4
    <3> QED BY <3>1, HeadroomIs
  <2>2. d <= Headroom(limit, held, pending) /\ e <= Headroom(limit, held, pending + d)
    BY <1>4, <1>8, <1>9, <1>10, <2>1
  <2> QED BY <1>12, <2>2
<1>14. d + e \in Nat
  BY <1>4, <1>8
<1>15. /\ total.instrument = b.instrument /\ total.sector = b.sector /\ total.gross = b.gross
       /\ total.pendingInstrument = b.pendingInstrument + (d + e)
       /\ total.pendingSector = b.pendingSector + (d + e)
       /\ total.pendingGross = b.pendingGross + (d + e)
  BY <1>1, <1>14, ReservedTyped DEF b
<1>16. /\ total.instrument + total.pendingInstrument <= p.single
       /\ total.sector + total.pendingSector <= p.sector
       /\ total.gross + total.pendingGross <= p.gross
       /\ total.gross + total.pendingGross <= Whole - p.cash
  BY <1>a, <1>b, <1>9, <1>10, <1>13, <1>15
<1> QED BY <1>3, <1>4, <1>16 DEF p

\* For every portfolio, every set of limits, weights and lot sizes, two increases
\* sized in turn stay together within every limit and the cash floor.
THEOREM SizingHolds == Spec => []SizingKeepsTheLimits
<1>1. ASSUME NEW f \in Formulas, NEW q \in Requests
      PROVE  SizePosition(f, q) \in Int /\ SizePosition(f, q) >= -q.quantity
  <2>1. /\ q.current \in Nat /\ q.quantity = q.current /\ q.lot \in Nat \ {0}
        /\ q.volatility \in {2, 8}
        /\ q.policy \in Policies /\ q.book \in Book
    BY RequestTyped
  <2>2. Increase(f, q) \in Nat
    BY <2>1, IncreaseFits
  <2>3. CASE q.act \in Reductions
    BY <2>1, <2>3, SaleIsHeld
  <2>4. CASE q.act \notin Reductions
    BY <2>1, <2>2, <2>4, SizeIs
  <2> QED BY <2>3, <2>4
<1>2. ASSUME NEW f \in Formulas, NEW q \in Requests
      PROVE  LET d == SizePosition(f, q)
                 e == SizePosition(f, [q EXCEPT !.book = Reserved(q.book, d)])
                 total == Reserved(q.book, d + e)
                 Used(held, pending) == total[held] + total[pending]
             IN /\ d >= -q.quantity
                /\ d > 0 =>
                     /\ gate = "PASS" /\ ~q.expired /\ q.thesis # "BROKEN"
                     /\ d % q.lot = 0
                     /\ Used("instrument", "pendingInstrument") <= q.policy.single
                     /\ Used("sector", "pendingSector") <= q.policy.sector
                     /\ Used("gross", "pendingGross") <= Min({q.policy.gross, Whole - q.policy.cash})
  <2> DEFINE d == SizePosition(f, q)
             e == SizePosition(f, [q EXCEPT !.book = Reserved(q.book, d)])
             total == Reserved(q.book, d + e)
  <2>1. d \in Int /\ d >= -q.quantity
    BY <1>1
  <2>2. ASSUME d > 0
        PROVE  /\ gate = "PASS" /\ ~q.expired /\ q.thesis # "BROKEN"
               /\ d % q.lot = 0
               /\ total.instrument + total.pendingInstrument <= q.policy.single
               /\ total.sector + total.pendingSector <= q.policy.sector
               /\ total.gross + total.pendingGross <= q.policy.gross
               /\ total.gross + total.pendingGross <= Whole - q.policy.cash
    <3> HIDE DEF d, e, total
    <3> QED BY <2>1, <2>2, SizesFit DEF d, e, total
  <2>3. Min({q.policy.gross, Whole - q.policy.cash}) \in {q.policy.gross, Whole - q.policy.cash}
    <3>1. q.policy.gross \in Int /\ Whole - q.policy.cash \in Int
      BY RequestTyped, PolicyTyped
    <3> QED BY <3>1, MinOfTwo
  <2> HIDE DEF d, e, total
  <2>4. d > 0 => total.gross + total.pendingGross <= Min({q.policy.gross, Whole - q.policy.cash})
    BY <2>2, <2>3
  <2> QED BY <2>1, <2>2, <2>4 DEF d, e, total
<1>3. SizingKeepsTheLimits
  BY <1>2 DEF SizingKeepsTheLimits
<1> QED BY <1>3, PTL

=============================================================================
