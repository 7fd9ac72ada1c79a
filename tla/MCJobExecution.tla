--------------------------- MODULE MCJobExecution ---------------------------
(***************************************************************************)
(* Small instances of JobExecution for TLC.                                *)
(***************************************************************************)
EXTENDS JobExecution, TLC

CONSTANTS w1, w2, w3, k1, k2, i1, i2

OneWorker == {w1}
TwoWorkers == {w1, w2}
ThreeWorkers == {w1, w2, w3}
OneKey == {k1}
TwoKeys == {k1, k2}
OneInput == {i1}
TwoInputs == {i1, i2}

\* A failing handler is part of every run: HandlerRaises is no fault.
NoFaults == {}
AllFaults == FaultKinds
HealthyDatabase == {"app_error", "record_lost", "crash"}

\* Executors are interchangeable in the safety runs.
WorkerSymmetry == Permutations(Executors)

=============================================================================
