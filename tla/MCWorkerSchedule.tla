-------------------------- MODULE MCWorkerSchedule --------------------------
(***************************************************************************)
(* Small instances of WorkerSchedule for TLC.                              *)
(***************************************************************************)
EXTENDS WorkerSchedule, TLC

CONSTANTS w1, w2

OneWorker == {w1}
TwoWorkers == {w1, w2}

NoFaults == {}
LostOrCrashed == {"ack_lost", "crash"}

On(week, month) == [week |-> week, month |-> month]

\* A session that ends a week, a month and a quarter.
QuarterEnd == <<On(1, 2)>>
\* Two sessions of one week and one month.
OneWeek == <<On(1, 0), On(1, 0)>>
\* A week that reaches into the next month.
AcrossMonths == <<On(1, 0), On(1, 1)>>

WorkerSymmetry == Permutations(Workers)

=============================================================================
