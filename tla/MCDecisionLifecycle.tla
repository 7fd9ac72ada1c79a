------------------------ MODULE MCDecisionLifecycle ------------------------
(***************************************************************************)
(* A small instance of DecisionLifecycle and of the rules around a         *)
(* Decision for TLC.                                                       *)
(***************************************************************************)
EXTENDS DecisionGovernance

CONSTANT x1

=============================================================================
