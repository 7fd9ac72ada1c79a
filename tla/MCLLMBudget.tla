---------------------------- MODULE MCLLMBudget ----------------------------
(***************************************************************************)
(* Small instances of LLMBudget for TLC.                                   *)
(***************************************************************************)
EXTENDS LLMBudget

CONSTANTS c1, c2, t1, t2, d1, d2

Of(tokens, cost) == [m \in Dims |-> IF m = "tokens" THEN tokens ELSE cost]

TwoCalls == {c1, c2}
OneTask == {t1}
TwoTasks == {t1, t2}
OneDay == {d1}
TwoDays == {d1, d2}

\* A limit two small calls use up exactly, in either dimension, and a higher one.
Tight == [task |-> Of(3, 3), daily |-> Of(3, 3)]
Wide == [task |-> Of(4, 4), daily |-> Of(6, 6)]
TwoPolicies == {Tight, Wide}

WorstCaseAmounts == {Of(2, 1), Of(1, 3)}
UsageAmounts == {Of(1, 1)}

=============================================================================
