-------------------------- MODULE MCUpgradeTracker --------------------------
\* Small instances of UpgradeTracker; no symmetry, the run checks liveness.
EXTENDS UpgradeTracker
=============================================================================
