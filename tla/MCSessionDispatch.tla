-------------------------- MODULE MCSessionDispatch --------------------------
\* Small instances of SessionDispatch; no symmetry, the run checks liveness.
EXTENDS SessionDispatch
=============================================================================
