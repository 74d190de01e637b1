--------------------------- MODULE MCTaskMessages ---------------------------
EXTENDS TaskMessages, TLC

\* Messages are interchangeable.
Symmetry == Permutations(Msg)
============================================================================
