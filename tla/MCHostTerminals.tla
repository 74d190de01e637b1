-------------------------- MODULE MCHostTerminals --------------------------
EXTENDS HostTerminals, TLC

\* Browsers are interchangeable.
Symmetry == Permutations(Browser)
============================================================================
