---------------------------- MODULE IdempotentJob ----------------------------
(***************************************************************************)
(* What ADR-0008 promises of a job: however often it is dispatched, its    *)
(* effect happens at most once, failed attempts are counted, and there are *)
(* at most MaxAttempts of them.  The specification a single worker's       *)
(* ReliableJobExecutor implements (module JobExecution).                   *)
(***************************************************************************)
EXTENDS Integers

CONSTANTS Keys, MaxAttempts

VARIABLES
    applied,    \* how often the effect of each key happened
    tries       \* attempts counted for each key

jobVars == <<applied, tries>>

Open(k) == applied[k] = 0 /\ tries[k] < MaxAttempts

Init ==
    /\ applied = [k \in Keys |-> 0]
    /\ tries = [k \in Keys |-> 0]

\* The effect happens, with the attempt that produced it.
Apply(k) ==
    /\ Open(k)
    /\ applied' = [applied EXCEPT ![k] = 1]
    /\ tries' = [tries EXCEPT ![k] = @ + 1]

\* A failed attempt is written down.
CountFailure(k) ==
    /\ Open(k)
    /\ tries' = [tries EXCEPT ![k] = @ + 1]
    /\ UNCHANGED applied

Next == \E k \in Keys : Apply(k) \/ CountFailure(k)

Spec == Init /\ [][Next]_jobVars

=============================================================================
