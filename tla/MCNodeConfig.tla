---------------------------- MODULE MCNodeConfig ----------------------------
\* Small instances of NodeConfig.
EXTENDS NodeConfig
=============================================================================
