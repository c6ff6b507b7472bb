-------------------------- MODULE MCHardwareMonitor --------------------------
EXTENDS HardwareMonitor, TLC

CONSTANTS g1, g2, r1, r2

TwoGpus == {g1, g2}
TwoRuns == {r1, r2}
\* A GPU whose power varies, one that comes and goes, and a sample of neither.
FewSamples ==
    {(g1 :> p) @@ (g2 :> q) :
        <<p, q>> \in {<<1, Absent>>, <<3, 1>>, <<NoReading, 3>>, <<Absent, Absent>>}}
\* The runs are interchangeable; the samples tell the GPUs apart.
RunSymmetry == Permutations(TwoRuns)
=============================================================================
