------------------------- MODULE DecisionGovernance -------------------------
(***************************************************************************)
(* A Decision (DecisionLifecycle) with the rules that lead to its action   *)
(* and size (InvestmentRules) and the machines its transitions feed facts  *)
(* to (GovernanceGates).  The rules are pure, so their properties are      *)
(* evaluated once for each action and risk gate: in the fresh drafts.      *)
(***************************************************************************)
EXTENDS DecisionLifecycle, GovernanceGates, InvestmentRules

CONSTANTS
    Amounts,    \* bound: the weights that occur in policies and books
    Lots        \* bound: the lot sizes

\* PositionPolicy and SizingInput refuse other values.
ASSUME AmountsAssumption == Amounts \subseteq Nat
ASSUME LotsAssumption == Lots \subseteq Nat \ {0}

Fresh == state = "DRAFT" /\ now = 0 /\ approvals = {} /\ receipts = {}

ThesisStates == StatesOf(ThesisTransitions)

-----------------------------------------------------------------------------
(* The inputs of the rules.                                                *)

Policies ==
    {p \in [single : Amounts, sector : Amounts, gross : Amounts, cash : Amounts] : PolicyFits(p)}

\* What is held or pending of an instrument is part of its sector, and that of
\* the whole.
Nested == {t \in Amounts \X Amounts \X Amounts : t[1] <= t[2] /\ t[2] <= t[3]}
Books ==
    {[instrument |-> h[1], sector |-> h[2], gross |-> h[3],
      pendingInstrument |-> p[1], pendingSector |-> p[2], pendingGross |-> p[3],
      riskBudget |-> r, liquidity |-> Whole] :
        h \in Nested, p \in {n \in Nested : n[3] <= 1}, r \in {1, Whole}}

Formulas ==
    [intent : {Whole}, target : {2}, floor : {1}, scaleMin : {<<1, 2>>}, scaleMax : {<<1, 1>>},
     reduce : {n \in Amounts : n <= Whole}]

\* Requests for the action of the Decision under its risk gate that are not
\* refused.  A bucket holds part of its instrument, here all of it.
Requests ==
    {q \in {[act |-> action, risk |-> gate, expired |-> e, thesis |-> t,
             current |-> b.instrument, quantity |-> n, lot |-> l, volatility |-> v,
             policy |-> p, book |-> b] :
               e \in BOOLEAN, t \in {"WEAKENING", "BROKEN"}, n \in Amounts, l \in Lots,
               v \in {2, 8}, p \in Policies, b \in Books} :
        Reconciles(q)}

Recommendations ==
    [proposed : AllActions, quality : GateOutcomes, thesis : ThesisStates, timing : GateOutcomes,
     fit : GateOutcomes, risk : {gate}, policyPassed : BOOLEAN, dataSufficient : BOOLEAN]

BucketActions == {"NONE", "HOLD"} \cup Increases \cup Reductions

\* The book once an increase of the same instrument has been approved.
Reserved(book, d) ==
    [book EXCEPT !.pendingInstrument = @ + d, !.pendingSector = @ + d, !.pendingGross = @ + d]

-----------------------------------------------------------------------------
(* Properties.                                                             *)

\* Two increases sized in turn, the first still pending, stay together within
\* every limit of the policy and leave the minimum cash; nothing is increased
\* against the gate, on an expired assessment or a broken thesis; no bucket is
\* sold below nothing.
SizingKeepsTheLimits ==
    Fresh => \A f \in Formulas, q \in Requests :
        LET d == SizePosition(f, q)
            e == SizePosition(f, [q EXCEPT !.book = Reserved(q.book, d)])
            total == Reserved(q.book, d + e)
            Used(held, pending) == total[held] + total[pending]
        IN /\ d >= -q.quantity
           /\ d > 0 =>
                /\ gate = "PASS" /\ ~q.expired /\ q.thesis # "BROKEN"
                /\ d % q.lot = 0
                /\ Used("instrument", "pendingInstrument") <= q.policy.single
                /\ Used("sector", "pendingSector") <= q.policy.sector
                /\ Used("gross", "pendingGross") <= Min({q.policy.gross, Whole - q.policy.cash})

\* A proposal to buy or add of which one gate does not pass becomes a Decision
\* that can carry no increase in either bucket, hidden or not.
BlockedProposalsBuyNothing ==
    Fresh => \A i \in Recommendations :
        LET blocked == \E g \in DOMAIN GateResults(i) : GateResults(i)[g] # "PASS"
        IN i.proposed \in Increases /\ blocked =>
            \A core, tactical \in BucketActions :
                BucketActionsFit(Recommend(i), core, tactical) =>
                    {core, tactical} \cap Increases = {}

\* An instrument that starts undiscovered, with its thesis unknown, is not held
\* unless every fact of entry has come true at some time; one whose thesis broke
\* is not added to before a full review on new evidence; and a strategy is not
\* active without its results and a human, whatever the other actors do.
GatesAreIndispensable ==
    Fresh =>
        /\ \A f \in EntryFacts :
            \A h \in HoldingsReached(<<"DISCOVER", "UNKNOWN">>, AllFacts \ {f}) : h[1] # "HOLD"
        /\ \A f \in RecoveryFacts :
            \A h \in HoldingsReached(<<"HOLD", "BROKEN">>, AllFacts \ {f}) : h[1] # "ADD"
        /\ \A f \in StrategyFacts : "ACTIVE" \notin ProposalsReached(AllFacts \ {f}, ActorTypes)
        /\ ProposalsReached(AllFacts, {"SYSTEM", "LEARNING_ENGINE"}) \cap
             {"APPROVED", "REJECTED", "SCHEDULED_ACTIVATION", "ACTIVE", "RETIRED"} = {}

\* Reducing risk never depends on permission for new exposure: whatever the
\* thesis, the gates, the assessment, the policy and the book say, a held
\* instrument reaches its cooldown on exit facts alone, a reduction is
\* recommended as proposed, and one whose numbers reconcile sells, within one
\* lot, the fraction the formula names (none, if that is zero), an exit
\* everything that is held.
ReductionNeedsNoPermission ==
    Fresh =>
        /\ \A i \in {"HOLD", "ADD", "REDUCE"}, t \in ThesisStates :
            <<"COOLDOWN", t>> \in HoldingsReached(<<i, t>>, ExitFacts)
        /\ \A i \in Recommendations : i.proposed \in Reductions => Recommend(i) = i.proposed
        /\ \A f \in Formulas, q \in Requests :
            LET sold == -SizePosition(f, q)
            IN /\ action = "EXIT" => sold = q.quantity
               /\ action = "REDUCE" =>
                    /\ sold <= q.quantity
                    /\ sold * Whole >= q.quantity * f.reduce
                    /\ (sold - q.lot) * Whole < q.quantity * f.reduce

=============================================================================
