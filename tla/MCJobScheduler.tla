--------------------------- MODULE MCJobScheduler ---------------------------
EXTENDS JobSchedulerSlots, TLC

CONSTANTS r1, r2

TwoRuns == {r1, r2}
FirstTimed == {r1}
\* r1 is claimed before r2.
RankOfTwo == (r1 :> 1) @@ (r2 :> 2)
=============================================================================
