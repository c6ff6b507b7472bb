---------------------------- MODULE MCServices -----------------------------
EXTENDS Services, TLC

CONSTANTS v1, v2, l1, q1, q2

TwoRequests == {q1, q2}
TwoVllm == {v1, v2}
ThreeModels == {v1, v2, l1}
Symmetry == Permutations(TwoRequests) \cup Permutations(TwoVllm)
============================================================================
