---------------------------- MODULE MCJobCatalog ---------------------------
EXTENDS JobCatalog, TLC

CONSTANTS q1, q2, q3, starter, custom, plain, changed, disabled

\* A parameter each, no parameter, and the disabled form of a definition.
MCNames == (plain :> {"epochs"}) @@ (changed :> {"steps"}) @@ (disabled :> {})
MCSeeds == (starter :> plain)
RequestSymmetry == Permutations(Requests)
=============================================================================
