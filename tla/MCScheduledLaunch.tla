------------------------- MODULE MCScheduledLaunch -------------------------
(* Instances of ScheduledLaunch for TLC: one or two runs of one schedule.   *)
EXTENDS ScheduledLaunch

CONSTANTS r1, r2

OneRun == {r1}
TwoRuns == {r1, r2}

=============================================================================
