--------------------------- MODULE MCJobLifecycle ---------------------------
(* Instances of JobLifecycle for TLC.                                       *)
EXTENDS JobLifecycle, TLC

CONSTANTS j1, j2, w1, w2

AllFaults == FaultKinds
CrashOnly == {"worker_crash"}
OneJob == {j1}
TwoJobs == {j1, j2}
OneWorker == {w1}
TwoWorkers == {w1, w2}

\* Workers are interchangeable in Init, Next and the safety properties.
WorkerSymmetry == Permutations(TwoWorkers)

=============================================================================
