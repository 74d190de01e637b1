---------------------------- MODULE MCNodeLabels ----------------------------
EXTENDS NodeLabels, TLC

\* Calls are interchangeable.
Symmetry == Permutations(Req)
=============================================================================
