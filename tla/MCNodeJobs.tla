----------------------------- MODULE MCNodeJobs -----------------------------
\* Small instances of NodeJobs: one WDA job and one tool install.
EXTENDS NodeJobs
=============================================================================
