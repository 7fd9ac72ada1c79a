-------------------------- MODULE GovernanceGates --------------------------
(***************************************************************************)
(* The instrument, thesis and strategy machines of                         *)
(* domain/state_machines.py, as relations between two states and the facts *)
(* of the context a caller supplies.  Nothing stores these states: the     *)
(* functions are pure, and what matters is which states a caller can reach *)
(* when some fact never comes true.                                        *)
(***************************************************************************)
\* _start_transition: reason codes, and a listed edge; a state that is not
\* listed has no successor.
Starts(allowed, from, to, facts) ==
    /\ "reason" \in facts
    /\ from \in DOMAIN allowed
    /\ to \in allowed[from]

InstrumentTransitions ==
    [DISCOVER |-> {"WATCH"}, WATCH |-> {"SETUP"}, SETUP |-> {"BUYABLE"},
     BUYABLE |-> {"HOLD"}, HOLD |-> {"ADD", "REDUCE", "EXIT"},
     ADD |-> {"HOLD", "EXIT"}, REDUCE |-> {"HOLD", "EXIT"},
     EXIT |-> {"COOLDOWN"}, COOLDOWN |-> {"WATCH", "ARCHIVED"}]

\* Mutated form of TransitionInstrument: an exit is an exposure change like any
\* other.
TransitionInstrumentRiskAlways(from, to, facts, thesis) ==
    /\ Starts(InstrumentTransitions, from, to, facts)
    /\ to \in {"ADD", "REDUCE", "EXIT"} => "risk_passed" \in facts

TransitionInstrument(from, to, facts, thesis) ==
    /\ Starts(InstrumentTransitions, from, to, facts)
    /\ from = "DISCOVER" => {"screening_passed", "data_sufficient", "risk_passed"} \subseteq facts
    /\ from = "WATCH" =>
        /\ thesis \in {"VALID", "STRENGTHENING"}
        /\ "observable_entry_condition" \in facts
    /\ from = "SETUP" =>
        {"timing_confirmed", "portfolio_capacity", "risk_passed", "policy_passed"} \subseteq facts
    /\ from = "BUYABLE" => {"human_approved", "execution_recorded"} \subseteq facts
    /\ to = "ADD" =>
        /\ thesis \notin {"WEAKENING", "BROKEN"}
        /\ {"risk_passed", "policy_passed", "portfolio_capacity"} \subseteq facts
    /\ to = "REDUCE" => "reduction_justified" \in facts
    /\ from \in {"ADD", "REDUCE"} /\ to = "HOLD" =>
        {"execution_recorded", "position_snapshot_updated"} \subseteq facts
    /\ to = "EXIT" => "exit_justified" \in facts
    /\ from = "EXIT" => {"position_is_zero", "review_date_recorded"} \subseteq facts
    /\ from = "COOLDOWN" /\ to = "WATCH" =>
        {"cooldown_elapsed", "new_evidence_or_thesis"} \subseteq facts
    /\ to = "ARCHIVED" => "archival_approved" \in facts

ThesisTransitions ==
    [UNKNOWN |-> {"VALID"}, VALID |-> {"STRENGTHENING", "WEAKENING"},
     STRENGTHENING |-> {"VALID", "WEAKENING"}, WEAKENING |-> {"BROKEN"}, BROKEN |-> {"VALID"}]

\* Mutated form of TransitionThesis: a broken thesis recovers like any other.
TransitionThesisAnyRecovery(from, to, facts) ==
    /\ Starts(ThesisTransitions, from, to, facts)
    /\ {"creates_new_version", "evidence_supports_change"} \subseteq facts

TransitionThesis(from, to, facts) ==
    /\ Starts(ThesisTransitions, from, to, facts)
    /\ {"creates_new_version", "evidence_supports_change"} \subseteq facts
    /\ from = "BROKEN" => {"major_new_evidence", "full_review_completed"} \subseteq facts

StrategyTransitions ==
    [DRAFT |-> {"BACKTEST_PENDING"}, BACKTEST_PENDING |-> {"BACKTESTED"},
     BACKTESTED |-> {"SHADOW_PENDING"}, SHADOW_PENDING |-> {"SHADOW_VALIDATED"},
     SHADOW_VALIDATED |-> {"HUMAN_REVIEW"}, HUMAN_REVIEW |-> {"APPROVED", "REJECTED"},
     APPROVED |-> {"SCHEDULED_ACTIVATION"}, SCHEDULED_ACTIVATION |-> {"ACTIVE"},
     ACTIVE |-> {"RETIRED"}]

\* Anyone may submit and record results; from HUMAN_REVIEW on only a human acts.
TransitionStrategyProposal(from, to, facts, actor) ==
    /\ Starts(StrategyTransitions, from, to, facts)
    /\ actor = "LEARNING_ENGINE" =>
        to \notin {"APPROVED", "REJECTED", "SCHEDULED_ACTIVATION", "ACTIVE", "RETIRED"}
    /\ to = "BACKTESTED" => "backtest_recorded" \in facts
    /\ to = "SHADOW_VALIDATED" => "shadow_result_recorded" \in facts
    /\ from = "HUMAN_REVIEW" => actor = "HUMAN" /\ "human_decision_recorded" \in facts
    /\ to = "SCHEDULED_ACTIVATION" => actor = "HUMAN" /\ "activation_scheduled" \in facts
    /\ to = "ACTIVE" => actor = "HUMAN" /\ "activation_due" \in facts
    /\ to = "RETIRED" => actor = "HUMAN" /\ "retirement_approved" \in facts

-----------------------------------------------------------------------------
(* What a caller can reach with some facts.                                *)

Targets(machine) == UNION {machine[s] : s \in DOMAIN machine}
StatesOf(machine) == DOMAIN machine \cup Targets(machine)

EntryFacts ==
    {"screening_passed", "data_sufficient", "observable_entry_condition", "timing_confirmed",
     "portfolio_capacity", "risk_passed", "policy_passed", "human_approved",
     "execution_recorded", "creates_new_version", "evidence_supports_change"}
RecoveryFacts == {"major_new_evidence", "full_review_completed"}
ExitFacts == {"reason", "exit_justified", "position_is_zero", "review_date_recorded"}
StrategyFacts ==
    {"backtest_recorded", "shadow_result_recorded", "human_decision_recorded",
     "activation_scheduled", "activation_due"}
AllFacts ==
    EntryFacts \cup RecoveryFacts \cup ExitFacts \cup StrategyFacts \cup
        {"reason", "reduction_justified", "position_snapshot_updated", "cooldown_elapsed",
         "new_evidence_or_thesis", "archival_approved", "retirement_approved"}
ActorTypes == {"HUMAN", "SYSTEM", "LEARNING_ENGINE"}

\* The states the moves, pairs of states, lead to from start.
Reachable(states, moves, start) ==
    LET closure[reached \in SUBSET states] ==
            LET more == reached \cup {s \in states : \E r \in reached : <<r, s>> \in moves}
            IN IF more = reached THEN reached ELSE closure[more]
    IN closure[{start}]

\* An instrument and its thesis move in any order; an instrument's guard reads
\* the thesis state of the moment.
Holdings == StatesOf(InstrumentTransitions) \X StatesOf(ThesisTransitions)
HoldingMoves(facts) ==
    {m \in Holdings \X Holdings :
        LET r == m[1]
            s == m[2]
        IN \/ TransitionInstrument(r[1], s[1], facts, r[2]) /\ s[2] = r[2]
           \/ TransitionThesis(r[2], s[2], facts) /\ s[1] = r[1]}
HoldingsReached(start, facts) == Reachable(Holdings, HoldingMoves(facts), start)

Proposals == StatesOf(StrategyTransitions)
ProposalMoves(facts, actors) ==
    {m \in Proposals \X Proposals :
        \E a \in actors : TransitionStrategyProposal(m[1], m[2], facts, a)}
ProposalsReached(facts, actors) ==
    Reachable(Proposals, ProposalMoves(facts, actors), "DRAFT")

=============================================================================
