-------------------------- MODULE InvestmentRules --------------------------
(***************************************************************************)
(* The pure rules a recommendation passes through before it is a Decision: *)
(* the CIO gates (application/decision_engine.py), the capacity of the     *)
(* portfolio (domain/portfolio.py), the size of the position               *)
(* (domain/sizing.py), and which bucket actions a Decision may carry       *)
(* (domain/decision.py).                                                   *)
(*                                                                         *)
(* The unit of weight is the weight of one share, so that a weight times   *)
(* nav over price, a number of shares, is the same number.                 *)
(***************************************************************************)
EXTENDS Integers, FiniteSetsExt

CONSTANT Whole      \* the weight of the whole portfolio, in shares

ASSUME WholeAssumption == Whole \in Nat \ {0}

Increases == {"BUY", "ADD"}
Reductions == {"REDUCE", "EXIT"}
AllActions == {"WATCH", "HOLD", "AVOID"} \cup Increases \cup Reductions
GateOutcomes == {"PASS", "FAIL", "UNKNOWN"}

-----------------------------------------------------------------------------
(* The CIO gates.                                                          *)

ThesisOutcome(thesis) ==
    IF thesis \in {"VALID", "STRENGTHENING"} THEN "PASS"
    ELSE IF thesis \in {"WEAKENING", "BROKEN"} THEN "FAIL" ELSE "UNKNOWN"

RiskOutcome(risk) ==
    IF risk = "PASS" THEN "PASS" ELSE IF risk = "VETO" THEN "FAIL" ELSE "UNKNOWN"

\* _gate_results, of an input i.
GateResults(i) ==
    [quality |-> i.quality, thesis |-> ThesisOutcome(i.thesis), timing |-> i.timing,
     fit |-> i.fit, risk |-> RiskOutcome(i.risk),
     policy |-> IF i.policyPassed THEN "PASS" ELSE "FAIL",
     data |-> IF i.dataSufficient THEN "PASS" ELSE "UNKNOWN"]

\* Mutated form of Recommend: only quality, thesis and timing are looked at.
RecommendOnMerit(i) ==
    LET outcome == GateResults(i)
    IN IF i.proposed \notin Increases THEN i.proposed
       ELSE IF outcome.quality # "PASS" \/ outcome.thesis # "PASS" THEN "AVOID"
       ELSE IF outcome.timing # "PASS" THEN "WATCH"
       ELSE i.proposed

\* aggregate_cio_recommendation.
Recommend(i) ==
    LET outcome == GateResults(i)
        Passes(g) == outcome[g] = "PASS"
    IN IF i.proposed \notin Increases THEN i.proposed
       ELSE IF ~Passes("quality") \/ ~Passes("thesis") THEN "AVOID"
       ELSE IF \E g \in DOMAIN outcome : ~Passes(g) THEN "WATCH"
       ELSE i.proposed

\* _validate_bucket_actions: the Core and Tactical actions of one Decision.
BucketActionsFit(act, core, tactical) ==
    LET buckets == {core, tactical}
    IN /\ act \in {"WATCH", "AVOID"} => buckets = {"NONE"}
       /\ act \in Increases => buckets \cap Increases # {}
       /\ act \in Reductions => buckets \cap Reductions # {}

-----------------------------------------------------------------------------
(* Capacity.                                                               *)

\* PositionPolicy admits no other limits.
PolicyFits(p) == p.single <= p.sector /\ p.sector <= p.gross

\* Mutated form of Headroom: what is approved and not yet executed is free.
HeadroomNow(limit, current, pending) == Max({0, limit - current})

Headroom(limit, current, pending) == Max({0, limit - current - pending})

\* evaluate_portfolio_capacity: what the limits leave for one increase.
Capacity(p, book) ==
    Min({Headroom(p.single, book.instrument, book.pendingInstrument),
         Headroom(p.sector, book.sector, book.pendingSector),
         Headroom(p.gross, book.gross, book.pendingGross),
         Headroom(Whole - p.cash, book.gross, book.pendingGross),
         book.riskBudget, book.liquidity})

-----------------------------------------------------------------------------
(* Sizing.                                                                 *)

\* SizingRequest refuses every other request: the quantity a bucket holds must be
\* exactly what its weight comes to.
Reconciles(q) == q.quantity = q.current

PermitsAction(risk, act) == risk = "PASS" \/ act \in Reductions

CeilDiv(a, b) == (a + b - 1) \div b

\* The target before rounding: intent times target volatility over volatility,
\* the scale kept between its bounds (pairs num, den).  Rounding down to a share
\* changes no result: _round_delta rounds down to whole lots of shares.
RawTarget(f, q) ==
    LET vol == Max({q.volatility, f.floor})
    IN IF f.target * f.scaleMin[2] < f.scaleMin[1] * vol
         THEN (f.intent * f.scaleMin[1]) \div f.scaleMin[2]
       ELSE IF f.target * f.scaleMax[2] > f.scaleMax[1] * vol
         THEN (f.intent * f.scaleMax[1]) \div f.scaleMax[2]
       ELSE (f.intent * f.target) \div vol

\* Up to the size that is asked for, in whole lots, and never more than fits.
Increase(f, q) ==
    LET requested == Max({0, RawTarget(f, q) - q.current})
        allowed == Min({requested, Capacity(q.policy, q.book)})
    IN (allowed \div q.lot) * q.lot

\* Mutated form of Decrease: no more is sold than asked for.
DecreaseRoundedDown(amount, den, q) == (amount \div (den * q.lot)) * q.lot

\* In whole lots, rounded up, and never more than is held.
Decrease(amount, den, q) == Min({q.quantity, CeilDiv(amount, den * q.lot) * q.lot})

\* size_position: the change in shares of one bucket.
SizePosition(f, q) ==
    CASE q.act \in Increases ->
            IF q.expired \/ q.risk = "UNKNOWN" \/ ~PermitsAction(q.risk, q.act)
                 \/ q.thesis = "BROKEN"
            THEN 0 ELSE Increase(f, q)
      [] q.act = "REDUCE" -> -Decrease(q.current * f.reduce, Whole, q)
      [] q.act = "EXIT" -> -Decrease(q.current, 1, q)
      [] OTHER -> 0

=============================================================================
