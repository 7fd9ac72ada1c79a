--------------------------- MODULE MCPortfolioBook ---------------------------
(***************************************************************************)
(* Small instances of PortfolioBook for TLC.                               *)
(***************************************************************************)
EXTENDS PortfolioBook, TLC

CONSTANTS c1, c2, p1, p2, i1, i2

Row(i, quantity) == [instrument |-> i, quantity |-> quantity]

\* A row twice, a row that is not valid, both instruments in either order.
ThreeSheets == {<<Row(i1, 1), Row(i2, 1)>>, <<Row(i1, 2), Row(i1, 1)>>, <<Row(i2, Bad)>>}
OppositeSheets == {<<Row(i1, 1), Row(i2, 1)>>, <<Row(i2, 1), Row(i1, 1)>>}
OneAmount == {1}
AllPolicies == {"NONE", "SKIP", "REPLACE", "UPDATE"}
OnlyUpdate == {"UPDATE"}
OnlyGuarded == {TRUE}
NoneOrOne == {{}, {i1}}
NoneOrAll == {{}, {i1, i2}}

\* Confirmations that leave the snapshot out (README.md, Remarks).
OnlyUnguarded == {FALSE}

\* Requests are interchangeable in the runs without liveness.
CallerSymmetry == Permutations(Callers)

=============================================================================
