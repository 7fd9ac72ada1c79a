------------------------- MODULE DecisionLifecycle -------------------------
(***************************************************************************)
(* One investment Decision from draft to review: transition_decision       *)
(* (domain/state_machines.py) with the approval facts that                 *)
(* approval_transition_context (application/approval_gate.py) derives from *)
(* the append-only human records of the journal                            *)
(* (infrastructure/decision_journal.py), and the execution receipts        *)
(* appended beside them.                                                   *)
(*                                                                         *)
(* Business time is a number.  A record carries the time its author gives  *)
(* it, so records may reach the journal in another order than their times. *)
(***************************************************************************)
EXTENDS Integers

CONSTANTS
    Ids,        \* ids of approval records: a UUID orders records of one instant
    Actions,    \* what the Decision may propose
    Receipts,   \* ids of execution receipts
    MaxTime     \* bound: the last instant of business time

ASSUME IdsAssumption == Ids \subseteq Nat
ASSUME MaxTimeAssumption == MaxTime \in Nat
ASSUME ActionsAssumption ==
    Actions \subseteq {"WATCH", "BUY", "ADD", "HOLD", "REDUCE", "EXIT", "AVOID"}

VARIABLES
    now,        \* business time
    action,     \* the action the Decision proposes
    gate,       \* the risk gate of its latest Risk Assessment
    state,      \* its DecisionState
    approvals,  \* the journal's approval records
    receipts,   \* the journal's execution receipts
    passedGate  \* history: the risk gate when the Decision went to approval

vars == <<now, action, gate, state, approvals, receipts, passedGate>>

Times == 0..MaxTime
NoExpiry == -1
Gates == {"UNKNOWN", "PASS", "VETO"}
HumanActions == {"APPROVE", "REJECT", "REVOKE"}

ApprovalRecord == [id : Ids, action : HumanActions, at : Times, expires : Times \cup {NoExpiry}]
Receipt == [id : Receipts, approval : Ids, at : Times]

Transitions ==
    {<<"DRAFT", "VALIDATED">>,
     <<"VALIDATED", "RISK_VETOED">>, <<"VALIDATED", "PENDING_APPROVAL">>,
     <<"PENDING_APPROVAL", "APPROVED">>, <<"PENDING_APPROVAL", "REJECTED">>,
     <<"PENDING_APPROVAL", "EXPIRED">>,
     <<"APPROVED", "EXECUTION_PENDING">>, <<"APPROVED", "CANCELLED">>,
     <<"EXECUTION_PENDING", "PARTIALLY_EXECUTED">>, <<"EXECUTION_PENDING", "EXECUTED">>,
     <<"EXECUTION_PENDING", "CANCELLED">>,
     <<"PARTIALLY_EXECUTED", "EXECUTED">>, <<"PARTIALLY_EXECUTED", "CANCELLED">>,
     <<"EXECUTED", "REVIEW_DUE">>, <<"REVIEW_DUE", "REVIEWED">>}
States == {t[1] : t \in Transitions} \cup {t[2] : t \in Transitions}

TypeOK ==
    /\ now \in Times
    /\ action \in Actions
    /\ gate \in Gates
    /\ state \in States
    /\ approvals \subseteq ApprovalRecord
    /\ receipts \subseteq Receipt
    /\ passedGate \in Gates

Init ==
    /\ now = 0
    /\ action \in Actions
    /\ gate = "UNKNOWN"
    /\ state = "DRAFT"
    /\ approvals = {}
    /\ receipts = {}
    /\ passedGate = "UNKNOWN"

-----------------------------------------------------------------------------
(* Approval records.                                                       *)

\* The validity of an approval is half-open.
IsValidAt(r, t) == r.action = "APPROVE" /\ r.at <= t /\ t < r.expires

\* The order in which the journal reads records: by time, then by id.
Precedes(r, s) == r.at < s.at \/ (r.at = s.at /\ r.id < s.id)

VisibleAt(t) == {r \in approvals : r.at <= t}

\* latest_record_at: the last record, as a set of none or one.
LatestAt(t) == {r \in VisibleAt(t) : \A s \in VisibleAt(t) : ~Precedes(r, s)}

\* Mutated form of ActiveAt: any approval that has not expired.
ActiveIfAnyValid(t) == {r \in approvals : IsValidAt(r, t)}

\* active_approval_at: the last record, if it is an approval that is valid.
ActiveAt(t) == {r \in LatestAt(t) : IsValidAt(r, t)}

LatestIs(a) == \E r \in LatestAt(now) : r.action = a
LatestHasExpired == \E r \in LatestAt(now) : r.action = "APPROVE" /\ ~IsValidAt(r, now)

\* append_approval of a record its author dates at some instant up to now.
AppendApproval(id, a, at, expires) ==
    /\ \A r \in approvals : r.id # id
    /\ at <= now
    /\ IF a = "APPROVE" THEN expires > at ELSE expires = NoExpiry
    /\ approvals' = approvals \cup {[id |-> id, action |-> a, at |-> at, expires |-> expires]}
    /\ UNCHANGED <<now, action, gate, state, receipts, passedGate>>

-----------------------------------------------------------------------------
(* transition_decision: each guard is of one edge of Transitions.          *)

\* Facts of a draft, of price and input drift, of a recorded execution and of a
\* review come with the call: any value of them is possible.
Transition(target) ==
    /\ <<state, target>> \in Transitions
    /\ state' = target
    /\ UNCHANGED <<now, action, gate, approvals, receipts>>

Advance(target) == Transition(target) /\ UNCHANGED passedGate

Validate == Advance("VALIDATED")

VetoByRisk == gate = "VETO" /\ Advance("RISK_VETOED")

\* Mutated form of RiskAllows: the recorded exception is enough for any action.
RiskAllowsAnyException(exceptionRecorded) ==
    /\ gate # "UNKNOWN"
    /\ gate = "VETO" => exceptionRecorded

\* A veto lets through only a reduction of risk, and only as a recorded exception.
RiskAllows(exceptionRecorded) ==
    /\ gate # "UNKNOWN"
    /\ gate = "VETO" => action \in {"REDUCE", "EXIT"} /\ exceptionRecorded

SubmitForApproval(exceptionRecorded) ==
    /\ RiskAllows(exceptionRecorded)
    /\ Transition("PENDING_APPROVAL")
    /\ passedGate' = gate

Approve == ActiveAt(now) # {} /\ Advance("APPROVED")
Reject == LatestIs("REJECT") /\ Advance("REJECTED")
Expire == LatestHasExpired /\ Advance("EXPIRED")

\* The approval must hold at this moment too.
BeginExecution ==
    /\ ActiveAt(now) # {}
    /\ ~LatestIs("REVOKE")
    /\ Advance("EXECUTION_PENDING")

\* An approved Decision is cancelled by a revocation, one whose execution is
\* pending or partial needs none.
Cancel ==
    /\ state = "APPROVED" => LatestIs("REVOKE")
    /\ Advance("CANCELLED")

\* That an execution is recorded is the caller's word: the journal's receipts
\* are not asked.
RecordProgress(target) == target \in {"PARTIALLY_EXECUTED", "EXECUTED"} /\ Advance(target)

Review(target) == target \in {"REVIEW_DUE", "REVIEWED"} /\ Advance(target)

-----------------------------------------------------------------------------
\* append_execution, of a receipt whose constructor has found the caller's copy
\* of its approval valid.  The journal must hold the record with the same actor,
\* action and expiry; the time of the copy is not compared.  Later records are
\* not looked at, and neither is the Decision's state.
AppendExecution(id, a, copiedAt, at) ==
    /\ \A x \in receipts : x.id # id
    /\ at <= now
    /\ a \in approvals
    /\ IsValidAt([a EXCEPT !.at = copiedAt], at)
    /\ receipts' = receipts \cup {[id |-> id, approval |-> a.id, at |-> at]}
    /\ UNCHANGED <<now, action, gate, state, approvals, passedGate>>

\* Mutated form of Assess: a gate state the enum does not know.
AssessUnknownGate(g) ==
    /\ gate' = "BLOCKED"
    /\ UNCHANGED <<now, action, state, approvals, receipts, passedGate>>

\* A new Risk Assessment.
Assess(g) ==
    /\ g \in {"PASS", "VETO"}
    /\ gate' = g
    /\ UNCHANGED <<now, action, state, approvals, receipts, passedGate>>

Tick ==
    /\ now < MaxTime
    /\ now' = now + 1
    /\ UNCHANGED <<action, gate, state, approvals, receipts, passedGate>>

Next ==
    \/ Validate \/ VetoByRisk
    \/ \E e \in BOOLEAN : SubmitForApproval(e)
    \/ Approve \/ Reject \/ Expire \/ BeginExecution \/ Cancel
    \/ \E target \in States : RecordProgress(target) \/ Review(target)
    \/ \E id \in Ids, a \in HumanActions, at \in Times, expires \in Times \cup {NoExpiry} :
        AppendApproval(id, a, at, expires)
    \/ \E id \in Receipts, a \in approvals, copiedAt, at \in Times :
        AppendExecution(id, a, copiedAt, at)
    \/ \E g \in Gates : Assess(g)
    \/ Tick

Spec == Init /\ [][Next]_vars

-----------------------------------------------------------------------------
(* Properties.                                                             *)

\* At t, r has ended the authority of an earlier record: it is dated later.
Ends(r, a, t) == r.action \in {"REJECT", "REVOKE"} /\ a.at < r.at /\ r.at <= t

\* A Decision is approved, and its execution begun, only while a human approval
\* is unexpired that no later rejection or revocation has ended, in whatever
\* order the records reached the journal.
ProceedsUnderLiveApproval ==
    [][state' # state /\ state' \in {"APPROVED", "EXECUTION_PENDING"} =>
        \E a \in approvals :
            /\ IsValidAt(a, now)
            /\ \A r \in approvals : ~Ends(r, a, now)]_vars

\* A Decision past the risk gate that does not reduce risk has passed it without
\* a veto, however often the assessment changes and whoever approves it.
VetoIsNotOverridden ==
    state \notin {"DRAFT", "VALIDATED", "RISK_VETOED"} =>
        \/ passedGate = "PASS"
        \/ passedGate = "VETO" /\ action \in {"REDUCE", "EXIT"}

\* A receipt names a record of the journal that approves, and that stays there,
\* and is dated before its expiry: at the very expiry it is refused, whatever
\* the caller's copy says.
ReceiptsNameAnApproval ==
    \A x \in receipts : \E a \in approvals :
        a.id = x.approval /\ a.action = "APPROVE" /\ x.at < a.expires

\* A receipt is not dated before the approval it names.  The code does not have
\* this property (README.md, Remarks).
ReceiptsFollowTheirApproval ==
    \A x \in receipts : \E a \in approvals : a.id = x.approval /\ a.at <= x.at

\* An expired or revoked approval cannot execute: the approval a receipt names
\* has not been ended by a record that is already in the journal.  The code does
\* not have this property (README.md, Remarks).
NoExecutionAfterRevocation ==
    [][\A x \in receipts' \ receipts, a \in approvals :
        a.id = x.approval => \A r \in approvals : ~Ends(r, a, x.at)]_vars

=============================================================================
