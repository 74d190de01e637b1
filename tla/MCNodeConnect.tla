---------------------------- MODULE MCNodeConnect ----------------------------
\* Small instances of NodeConnect; the bounds are in the configurations.
EXTENDS NodeConnect
=============================================================================
