--------------------------- MODULE MCSessionFrames ---------------------------
\* Small instances of SessionFrames.
EXTENDS SessionFrames
=============================================================================
