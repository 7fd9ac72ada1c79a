---------------------------- MODULE AtomicImport -----------------------------
(***************************************************************************)
(* What the preview and confirmation of a CSV import promise its user: the *)
(* sheet is applied to the holdings as they are shown, in one step, once   *)
(* per policy, and only the instruments it names change.  Module           *)
(* PortfolioBook implements it with two reads and a transaction.           *)
(***************************************************************************)
EXTENDS Integers, Sequences

CONSTANTS Portfolios, Instruments, Amounts, Sheets, None, Bad

VARIABLES
    holdings,   \* what each portfolio holds
    applied     \* the imports that have been applied to it

atomicVars == <<holdings, applied>>

Init ==
    /\ holdings = [p \in Portfolios |-> [i \in Instruments |-> None]]
    /\ applied = [p \in Portfolios |-> {}]

Named(sheet) == {sheet[n].instrument : n \in DOMAIN sheet}

\* The first row that names the instrument counts.
Listed(sheet, i) ==
    LET n == CHOOSE n \in DOMAIN sheet :
                 /\ sheet[n].instrument = i
                 /\ \A m \in 1 .. n - 1 : sheet[m].instrument # i
    IN  sheet[n].quantity

After(quantity, listed, policy) ==
    CASE quantity = None -> listed
      [] quantity # None /\ policy = "REPLACE" -> listed
      [] quantity # None /\ policy = "UPDATE" -> quantity + listed
      [] quantity # None /\ policy = "SKIP" -> quantity

Import(p, sheet, policy) ==
    /\ \A n \in DOMAIN sheet : sheet[n].quantity # Bad
    /\ <<sheet, policy>> \notin applied[p]
    /\ policy = "NONE" => \A i \in Named(sheet) : holdings[p][i] = None
    /\ holdings' = [holdings EXCEPT ![p] = [i \in Instruments |->
           IF i \in Named(sheet) THEN After(@[i], Listed(sheet, i), policy) ELSE @[i]]]
    /\ applied' = [applied EXCEPT ![p] = @ \cup {<<sheet, policy>>}]

Record(p, i, amount) ==
    /\ holdings' = [holdings EXCEPT ![p][i] = amount]
    /\ UNCHANGED applied

Next ==
    \E p \in Portfolios :
        \/ \E sheet \in Sheets, policy \in {"NONE", "SKIP", "REPLACE", "UPDATE"} :
               Import(p, sheet, policy)
        \/ \E i \in Instruments, amount \in Amounts : Record(p, i, amount)

Spec == Init /\ [][Next]_atomicVars

=============================================================================
